---------------------------- MODULE RequestProofs ----------------------------
(***************************************************************************)
(* What one request may do to the rows of others: only a request of its    *)
(* owner writes a row, and a PATCH writes no column that it was not sent.  *)
(* The first needs what LookupsHold says of the shipments router for every *)
(* handler that writes, and of the rows a deletion carries along (Held).   *)
(***************************************************************************)
EXTENDS SafetyProofs

\* What the look-ups of the other handlers are worth until their writes: the
\* driver, vehicle or shipment that was found is the caller's or gone, and so
\* are the shipments a deletion will clear and the alerts it will take along.
Held(q) ==
    /\ q.call.op \in {"update", "delete"}
          /\ q.step \in {"check", "count", "load", "write"}
       => Belonged(fleet[q.call.kind][q.call.id], q.call.user)
    /\ q.call.op = "evaluate_shipment" /\ q.step = "assess"
       => Belonged(shipments[q.call.shipment], q.call.user)
    /\ q.call.op = "delete" /\ q.step = "write"
       => \A s \in q.seen : /\ s \in ShipmentId
                            /\ Belonged(shipments[s], q.call.user)
    /\ q.call.op = "delete_shipment" /\ q.step = "write"
       => \A a \in q.seen : /\ a \in AlertId
                            /\ alerts[a] \in {GONE, q.call.shipment}

OwnersHeld == \A r \in Request : Running(r) => Held(req[r])

Holding(q) ==
    /\ q.call.op \in {"update", "delete", "delete_shipment", "evaluate_shipment"}
    /\ q.step \in {"check", "count", "load", "assess", "write"}

LEMMA NotHolding ==
    ASSUME NEW r \in Request, ~Holding(req'[r])
    PROVE  Held(req[r])'
    BY DEF Holding, Held

\* A request that has answered holds nothing.
LEMMA AnswerHolds ==
    ASSUME TypeOK, NEW r \in Request, NEW code \in Answer, Reply(r, code)
    PROVE  Held(req[r])'
<1>1. req'[r] = Answered(code)
    BY DEF Reply, TypeOK
<1>2. ~Holding(req'[r])
    BY <1>1 DEF Answered, Answer, Holding
<1> QED
    BY <1>2, NotHolding

\* An alert stays with its shipment or goes.
LEMMA KeptAlerts ==
    ASSUME TypeOK, [Next]_vars, NEW a \in AlertId, alerts[a] # NULL
    PROVE  alerts'[a] \in {alerts[a], GONE}
<1>1. ASSUME NEW r \in Request, Writes(r)
      PROVE  alerts'[a] \in {alerts[a], GONE}
    BY <1>1 DEF Writes, InsertShipment, WriteShipment, EraseShipment, Assess,
        InsertFleet, WriteFleet, EraseFleet, TypeOK, tables
<1> QED
    BY <1>1, OnlyWriters DEF tables

\* Another request cannot take away what a handler holds.
LEMMA HeldKept ==
    ASSUME TypeOK, [Next]_vars, NEW p \in Request, Running(p), Held(req[p]),
           req'[p] = req[p]
    PROVE  Held(req[p])'
<1> DEFINE q == req[p]
           c == q.call
<1>1. ASSUME NEW s \in ShipmentId, Belonged(shipments[s], c.user)
      PROVE  Belonged(shipments'[s], c.user)
    BY <1>1, KeptShipments, BelongedKept
<1>2. CASE c.op \in {"update", "delete"}
  <2>1. c.kind \in Kind /\ c.id \in FleetId
    BY <1>2, BusySlot, CallShapes DEF UpdateFleetCall, OnFleetCall
  <2>2. ASSUME Belonged(fleet[c.kind][c.id], c.user)
        PROVE  Belonged(fleet'[c.kind][c.id], c.user)
    BY <2>1, <2>2, KeptFleet, BelongedKept
  <2> QED
    BY <1>1, <1>2, <2>2 DEF Held, Belonged, Live
<1>3. CASE c.op = "evaluate_shipment"
  <2>1. c.shipment \in ShipmentId
    BY <1>3, BusySlot, CallShapes DEF OnShipmentCall
  <2> QED
    BY <1>1, <1>3, <2>1 DEF Held, Belonged, Live
<1>4. CASE c.op = "delete_shipment"
  <2>1. c.shipment \in ShipmentId
    BY <1>4, BusySlot, CallShapes DEF OnShipmentCall
  <2>2. ASSUME NEW a \in AlertId, alerts[a] \in {GONE, c.shipment}
        PROVE  alerts'[a] \in {GONE, c.shipment}
    BY <2>1, <2>2, KeptAlerts, SentinelAssumption
  <2> QED
    BY <1>4, <2>2 DEF Held
<1> QED
    BY <1>2, <1>3, <1>4, NotHolding DEF Holding
-----------------------------------------------------------------------------
\* PATCH and DELETE of a driver or vehicle load it among the caller's rows.
LEMMA FleetFound ==
    ASSUME TypeOK, NEW r \in Request, NEW k \in Kind,
           SelectFleet(r, k) \/ SelectForDelete(r, k)
    PROVE  Held(req[r])'
<1> DEFINE c == req[r].call
<1>1. CASE Reply(r, "not_found")
    BY <1>1, AnswerHolds DEF Answer
<1>2. ASSUME NEW step \in {"check", "write", "count"}, LoadFleet(r, k, step),
             OwnedFleet(k, c.id, c.user), step = "write" => c.op = "update"
      PROVE  Held(req[r])'
  <2>1. req[r] \in Busy /\ c.op \in {"update", "delete"} /\ c.kind = k
    BY BusySlot DEF SelectFleet, SelectForDelete, OnKind, At, Running, Step
  <2>2. req'[r].step = step /\ req'[r].call = c
    BY <1>2, <2>1 DEF LoadFleet, TypeOK, Busy
  <2>3. fleet' = fleet
    BY DEF SelectFleet, SelectForDelete, tables
  <2> QED
    BY <1>2, <2>1, <2>2, <2>3 DEF Held, OwnedFleet, Belonged, Live
<1> QED
    BY <1>1, <1>2 DEF SelectFleet, SelectForDelete, OnKind, At

\* They keep it while the key is looked up and the active shipments counted.
LEMMA FleetKept ==
    ASSUME TypeOK, NEW r \in Request, Held(req[r]), NEW k \in Kind,
           CheckNewKey(r, k) \/ CountActive(r, k)
    PROVE  Held(req[r])'
<1> DEFINE c == req[r].call
<1>1. CASE Reply(r, "conflict")
    BY <1>1, AnswerHolds DEF Answer
<1>2. ASSUME NEW step \in {"write", "load"}, Goto(r, step),
             step = "write" => c.op = "update"
      PROVE  Held(req[r])'
  <2>1. /\ req[r] \in Busy /\ c.op \in {"update", "delete"}
        /\ req[r].step \in {"check", "count"}
    BY BusySlot DEF CheckNewKey, CountActive, OnKind, At, Running, Step
  <2>2. req'[r].step = step /\ req'[r].call = c
    BY <1>2, <2>1 DEF Goto, TypeOK, Busy
  <2>3. fleet' = fleet
    BY DEF CheckNewKey, CountActive, tables
  <2> QED
    BY <1>2, <2>1, <2>2, <2>3 DEF Held, Belonged, Live
<1> QED
    BY <1>1, <1>2 DEF CheckNewKey, CountActive, OnKind, At

\* The shipments that refer to a row of the caller are the caller's.
LEMMA ReferencingOwned ==
    ASSUME TypeOK, RefsOwned, NEW r \in Request, Held(req[r]), NEW k \in Kind,
           LoadReferencing(r, k)
    PROVE  Held(req[r])'
<1> DEFINE c == req[r].call
<1>1. /\ req[r] \in Busy /\ c.op = "delete" /\ c.kind = k
      /\ req[r].step = "load" /\ c.id \in FleetId
    BY BusySlot, CallShapes
        DEF LoadReferencing, OnKind, At, Running, Step, OnFleetCall
<1>2. /\ req'[r].step = "write" /\ req'[r].call = c
      /\ req'[r].seen = Referencing(k, c.id)
    BY <1>1 DEF LoadReferencing, TypeOK, Busy
<1>3. shipments' = shipments /\ fleet' = fleet
    BY DEF LoadReferencing, tables
<1>4. Belonged(fleet[k][c.id], c.user)
    BY <1>1 DEF Held
<1>5. ASSUME NEW s \in Referencing(k, c.id)
      PROVE  s \in ShipmentId /\ Belonged(shipments[s], c.user)
  <2>1. s \in LiveShipments /\ shipments[s].ref[k] = c.id
    BY DEF Referencing
  <2>2. c.id \in LiveFleet(k) /\ fleet[k][c.id].owner = shipments[s].owner
    BY <1>1, <2>1, SentinelAssumption DEF RefsOwned
  <2> QED
    BY <1>4, <2>1, <2>2 DEF Belonged, LiveFleet, LiveShipments, Live
<1> QED
    BY <1>1, <1>2, <1>3, <1>4, <1>5 DEF Held, Belonged, Live

\* DELETE /shipments/{id} loads the alerts of the shipment it found.
LEMMA CascadeHeld ==
    ASSUME TypeOK, NEW r \in Request, LoadCascade(r)
    PROVE  Held(req[r])'
<1> DEFINE c == req[r].call
<1>1. req[r] \in Busy /\ c.op = "delete_shipment"
    BY BusySlot DEF LoadCascade, At, Running, Step
<1>2. /\ req'[r].step = "write" /\ req'[r].call = c
      /\ req'[r].seen = AlertsOf(c.shipment)
    BY <1>1 DEF LoadCascade, TypeOK, Busy
<1>3. alerts' = alerts
    BY DEF LoadCascade, tables
<1> QED
    BY <1>1, <1>2, <1>3 DEF Held, AlertsOf

\* evaluate loads the shipment among the caller's.
LEMMA EvaluatedFound ==
    ASSUME TypeOK, NEW r \in Request,
           SelectShipment(r, "evaluate_shipment", "assess")
    PROVE  Held(req[r])'
<1> DEFINE c == req[r].call
<1>1. CASE Reply(r, "not_found")
    BY <1>1, AnswerHolds DEF Answer
<1>2. CASE Owned(c.shipment, c.user) /\ Load(r, "assess")
  <2>1. req[r] \in Busy /\ c.op = "evaluate_shipment"
    BY BusySlot DEF SelectShipment, At, Running, Step
  <2>2. req'[r].call = c
    BY <1>2, <2>1 DEF Load, TypeOK, Busy
  <2>3. shipments' = shipments
    BY DEF SelectShipment, tables
  <2> QED
    BY <1>2, <2>1, <2>2, <2>3 DEF Held, Owned, Belonged, Live
<1> QED
    BY <1>1, <1>2 DEF SelectShipment

\* Every statement of the shipments router.
LEMMA ShipmentStepHolds ==
    ASSUME TypeOK, NEW r \in Request, ShipmentStep(r)
    PROVE  Held(req[r])'
<1>1. CASE \E code \in Answer : Reply(r, code)
    BY <1>1, AnswerHolds
<1>2. req[r] \in Busy /\ req \in [Request -> Idle \cup Busy]
    BY BusySlot DEF ShipmentStep, SelectShipment, ReadRoute, CheckTracking,
        InsertShipment, Reread, SelectForUpdate, WriteShipment, CheckDeletable,
        LoadCascade, EraseShipment, Assess, RefreshAlert, get_driver_or_404,
        get_vehicle_or_404, get_ref_or_404, At, Running, Step, Kind, TypeOK
<1>3. CASE SelectShipment(r, "get_shipment", "route") \/ SelectForUpdate(r)
  <2>1. CASE req'[r].call = req[r].call
    BY <1>3, <2>1, NotHolding DEF SelectForUpdate, SelectShipment, At, Holding
  <2> QED
    BY <1>1, <1>2, <1>3, <2>1
        DEF SelectForUpdate, SelectShipment, Load, Busy, Answer
<1>4. CASE CheckTracking(r) \/ get_driver_or_404(r) \/ get_vehicle_or_404(r)
  <2>1. CASE req'[r].call = req[r].call
    BY <1>4, <2>1, NotHolding DEF CheckTracking, get_driver_or_404,
        get_vehicle_or_404, get_ref_or_404, At, Holding
  <2> QED
    BY <1>1, <1>2, <1>4, <2>1 DEF CheckTracking, get_driver_or_404,
        get_vehicle_or_404, get_ref_or_404, Goto, Busy, Answer
<1>5. CASE CheckDeletable(r)
  <2>1. CASE req'[r].call = req[r].call /\ req'[r].step = "load"
    BY <1>5, <2>1 DEF CheckDeletable, At, Held
  <2> QED
    BY <1>1, <1>2, <1>5, <2>1 DEF CheckDeletable, Load, Busy, Answer
<1>6. CASE InsertShipment(r) \/ WriteShipment(r) \/ Assess(r)
  <2>1. CASE req'[r].step \in {"reread", "refresh"}
    BY <2>1, NotHolding DEF Holding
  <2> QED
    BY <1>1, <1>2, <1>6, <2>1 DEF InsertShipment, WriteShipment, Assess, Busy,
        Answer
<1>7. CASE \/ ReadRoute(r) \/ EraseShipment(r) \/ RefreshAlert(r)
           \/ \E op \in {"create_shipment", "update_shipment"} : Reread(r, op)
    BY <1>1, <1>7 DEF ReadRoute, EraseShipment, RefreshAlert, Reread, Answer
<1> QED
    BY <1>3, <1>4, <1>5, <1>6, <1>7, CascadeHeld, EvaluatedFound
        DEF ShipmentStep

\* Every statement of the drivers and vehicles routers.
LEMMA FleetStepHolds ==
    ASSUME TypeOK, RefsOwned, NEW r \in Request, Held(req[r]), NEW k \in Kind,
           FleetStep(r, k)
    PROVE  Held(req[r])'
<1>1. CASE \E code \in Answer : Reply(r, code)
    BY <1>1, AnswerHolds
<1>2. CASE CheckKey(r, k) \/ InsertFleet(r, k) \/ WriteFleet(r, k)
  <2>1. req[r] \in Busy /\ req \in [Request -> Idle \cup Busy]
    BY <1>2, BusySlot DEF CheckKey, InsertFleet, WriteFleet, OnKind, At,
        Running, Step, TypeOK
  <2>2. CASE /\ req'[r].call = req[r].call
             /\ req[r].call.op = "create" \/ req'[r].step = "refresh"
    BY <2>2, NotHolding DEF Holding
  <2> QED
    BY <1>1, <1>2, <2>1, <2>2 DEF CheckKey, InsertFleet, WriteFleet, OnKind, At,
        Goto, Busy, Answer
<1>3. CASE \/ get(r, k) \/ EraseFleet(r, k)
           \/ \E op \in {"create", "update"} : Refresh(r, op, k)
    BY <1>1, <1>3 DEF get, EraseFleet, Refresh, Answer
<1> QED
    BY <1>2, <1>3, FleetFound, FleetKept, ReferencingOwned DEF FleetStep

\* OwnersHeld is inductive, given the types and the references.
LEMMA OwnersHeldStep ==
    ASSUME TypeOK, RefsOwned, OwnersHeld, [Next]_vars
    PROVE  OwnersHeld'
<1> SUFFICES ASSUME NEW p \in Request, Running(p)' PROVE Held(req[p])'
    BY DEF OwnersHeld
<1>1. ASSUME req'[p] = req[p] PROVE Held(req[p])'
  <2>1. Running(p) /\ Held(req[p])
    BY <1>1 DEF OwnersHeld, Running
  <2> QED
    BY <1>1, <2>1, HeldKept
<1>2. ASSUME NEW k \in Kind, FleetStep(p, k) PROVE Held(req[p])'
  <2>1. Running(p)
    BY <1>2 DEF FleetStep, CheckKey, InsertFleet, Refresh, get, SelectFleet,
        CheckNewKey, WriteFleet, SelectForDelete, CountActive, LoadReferencing,
        EraseFleet, OnKind, At, Running, Step
  <2> QED
    BY <1>2, <2>1, FleetStepHolds DEF OwnersHeld
<1>3. ASSUME NEW c \in Calls, Start(p, c) PROVE Held(req[p])'
  <2>1. req'[p].call = c /\ req'[p].step = FirstStep(c)
    BY <1>3 DEF Start, TypeOK
  <2> QED
    BY <2>1, NotHolding DEF FirstStep, Holding
<1>4. ASSUME Crash(p) PROVE Held(req[p])'
    BY <1>4, AnswerHolds DEF Crash, Answer
<1>5. CASE UNCHANGED vars
    BY <1>1, <1>5 DEF vars
<1>6. ASSUME NEW r \in Request, Steps(r), r # p PROVE Held(req[p])'
    BY <1>1, <1>6, OneRequest
<1> QED
    BY <1>2, <1>3, <1>4, <1>5, <1>6, HandleSteps, ShipmentStepHolds
        DEF Next, Steps

LEMMA OwnersHeldCorrect == Spec => []OwnersHeld
<1>1. StoreInit => OwnersHeld
    BY DEF StoreInit, OwnersHeld, Running, Answered, Step
<1> QED
    BY <1>1, OwnersHeldStep, TypeCorrect, ReferencesCorrect, PTL DEF Spec
-----------------------------------------------------------------------------
\* A step that writes a table is the acting request's own.
LEMMA WriterActs ==
    ASSUME TypeOK, NEW r \in Request, Writes(r), ~UNCHANGED tables
    PROVE  Running(r) /\ req'[r] # req[r]
<1>1. Running(r) /\ req[r].step \in {"assess", "write"}
    BY DEF Writes, InsertShipment, WriteShipment, EraseShipment, Assess,
        InsertFleet, WriteFleet, EraseFleet, OnKind, At, Running, Step
<1>2. req[r] \in Busy
    BY <1>1, BusySlot
<1>3. req'[r].step \in Answer \cup {"reread", "refresh"}
  <2>1. CASE \E code \in Answer : Reply(r, code)
    BY <2>1 DEF Reply, Answered, TypeOK
  <2>2. CASE InsertShipment(r) \/ WriteShipment(r) \/ Assess(r)
    BY <1>2, <2>1, <2>2 DEF InsertShipment, WriteShipment, Assess, Answer,
        TypeOK, Busy
  <2>3. ASSUME NEW k \in Kind, InsertFleet(r, k) \/ WriteFleet(r, k)
        PROVE  req'[r].step \in Answer \cup {"reread", "refresh"}
    BY <1>2, <2>1, <2>3 DEF InsertFleet, WriteFleet, Answer, TypeOK, Busy
  <2> QED
    BY <2>1, <2>2, <2>3 DEF Writes, EraseShipment, EraseFleet, Answer
<1> QED
    BY <1>1, <1>3 DEF Answer

\* A shipment that changes was the caller's, or is the caller's new one.
LEMMA ShipmentWriter ==
    ASSUME TypeOK, LookupsHold, OwnersHeld, NEW r \in Request, Writes(r),
           ~UNCHANGED tables, NEW s \in ShipmentId, shipments'[s] # shipments[s]
    PROVE  /\ Live(shipments[s]) => shipments[s].owner = req[r].call.user
           /\ shipments[s] = NULL => shipments'[s].owner = req[r].call.user
<1> DEFINE c == req[r].call
           u == c.user
<1>1. SUFFICES ASSUME ~InsertShipment(r) PROVE Belonged(shipments[s], u)
  <2>1. ASSUME InsertShipment(r)
        PROVE  shipments[s] = NULL /\ shipments'[s].owner = u
    BY <1>1, <2>1 DEF InsertShipment, TypeOK, tables
  <2> QED
    BY <1>1, <2>1, SentinelAssumption DEF Belonged, Live
<1>2. Running(r)
    BY WriterActs
<1>3. CASE WriteShipment(r)
  <2>1. s = c.shipment
    BY <1>3, WrittenShipment DEF TypeOK
  <2> QED
    BY <1>2, <1>3, <2>1 DEF LookupsHold, SnapshotHolds, WriteShipment, At
<1>4. CASE EraseShipment(r)
  <2>1. s = c.shipment
    BY <1>4 DEF EraseShipment, TypeOK, tables
  <2> QED
    BY <1>2, <1>4, <2>1 DEF LookupsHold, SnapshotHolds, EraseShipment, At
<1>5. ASSUME NEW k \in Kind, EraseFleet(r, k)
      PROVE  Belonged(shipments[s], u)
  <2>1. s \in req[r].seen
    BY <1>5 DEF EraseFleet, tables
  <2> QED
    BY <1>2, <1>5, <2>1 DEF OwnersHeld, Held, EraseFleet, OnKind, At
<1> QED
    BY <1>1, <1>3, <1>4, <1>5 DEF Writes, Assess, InsertFleet, WriteFleet, tables

\* So was a driver or vehicle.
LEMMA FleetWriter ==
    ASSUME TypeOK, OwnersHeld, NEW r \in Request, Writes(r), ~UNCHANGED tables,
           NEW k \in Kind, NEW f \in FleetId, fleet'[k][f] # fleet[k][f]
    PROVE  /\ Live(fleet[k][f]) => fleet[k][f].owner = req[r].call.user
           /\ fleet[k][f] = NULL => fleet'[k][f].owner = req[r].call.user
<1> DEFINE c == req[r].call
           u == c.user
<1>1. Running(r)
    BY WriterActs
<1>2. ASSUME NEW j \in Kind, InsertFleet(r, j)
      PROVE  fleet[k][f] = NULL /\ fleet'[k][f].owner = u
  <2>1. PICK g \in FleetId :
           /\ fleet[j][g] = NULL
           /\ fleet' = [fleet EXCEPT ![j][g] =
                 [owner |-> u, key |-> c.key, label |-> c.label]]
    BY <1>2 DEF InsertFleet, tables
  <2>2. j = k /\ g = f
    BY <2>1 DEF TypeOK
  <2> QED
    BY <2>1, <2>2 DEF TypeOK
<1>3. ASSUME NEW j \in Kind, WriteFleet(r, j) \/ EraseFleet(r, j)
      PROVE  Belonged(fleet[k][f], u)
  <2>1. j = k /\ c.id = f
    BY <1>3 DEF WriteFleet, EraseFleet, TypeOK, tables
  <2>2. /\ c.op \in {"update", "delete"} /\ req[r].step = "write"
        /\ c.kind = k
    BY <1>3, <2>1 DEF WriteFleet, EraseFleet, OnKind, At
  <2> QED
    BY <1>1, <2>1, <2>2 DEF OwnersHeld, Held
<1> QED
    BY <1>2, <1>3, SentinelAssumption DEF Writes, InsertShipment, WriteShipment,
        EraseShipment, Assess, Belonged, Live, tables

\* And so is the shipment of an alert that is added or deleted.
LEMMA AlertWriter ==
    ASSUME TypeOK, LookupsHold, OwnersHeld, NEW r \in Request, Writes(r),
           ~UNCHANGED tables, NEW a \in AlertId, alerts'[a] # alerts[a],
           NEW s \in {alerts[a], alerts'[a]} \cap LiveShipments
    PROVE  shipments[s].owner = req[r].call.user
<1> DEFINE c == req[r].call
<1>1. s \in ShipmentId /\ Live(shipments[s])
    BY DEF LiveShipments
<1>2. SUFFICES s = c.shipment /\ Belonged(shipments[c.shipment], c.user)
    BY <1>1, <1>2 DEF Belonged, Live
<1>3. Running(r)
    BY WriterActs
<1>4. CASE Assess(r)
  <2>1. s = c.shipment
    BY <1>1, <1>4, SentinelAssumption DEF Assess, TypeOK, tables
  <2> QED
    BY <1>3, <1>4, <2>1 DEF OwnersHeld, Held, Assess, At
<1>5. CASE EraseShipment(r)
  <2>1. a \in req[r].seen /\ alerts'[a] = GONE
    BY <1>5 DEF EraseShipment, TypeOK, tables
  <2>2. alerts[a] \in {GONE, c.shipment}
    BY <1>3, <1>5, <2>1 DEF OwnersHeld, Held, EraseShipment, At
  <2> QED
    BY <1>1, <1>3, <1>5, <2>1, <2>2, SentinelAssumption
        DEF LookupsHold, SnapshotHolds, EraseShipment, At
<1> QED
    BY <1>4, <1>5 DEF Writes, InsertShipment, WriteShipment, InsertFleet,
        WriteFleet, EraseFleet, tables

LEMMA OwnersStepHolds ==
    ASSUME TypeOK, LookupsHold, OwnersHeld, [Next]_vars
    PROVE  OwnersStep
<1>1. CASE UNCHANGED tables
    BY <1>1 DEF OwnersStep, tables
<1>2. ASSUME NEW r \in Request, Writes(r), ~UNCHANGED tables PROVE OwnersStep
  <2> DEFINE u == req[r].call.user
  <2>1. Acting(u)
    BY <1>2, WriterActs DEF Acting
  <2>2. ASSUME NEW s \in ShipmentId, shipments'[s] # shipments[s],
               NEW row \in {shipments[s], shipments'[s]}, Live(row)
        PROVE  row.owner = u
    BY <1>2, <2>2, ShipmentWriter, KeptShipments, SentinelAssumption
        DEF KeepsOwner, Live
  <2>3. ASSUME NEW k \in Kind, NEW f \in FleetId, fleet'[k][f] # fleet[k][f],
               NEW row \in {fleet[k][f], fleet'[k][f]}, Live(row)
        PROVE  row.owner = u
    BY <1>2, <2>3, FleetWriter, KeptFleet, SentinelAssumption
        DEF KeepsOwner, Live
  <2>4. ASSUME NEW a \in AlertId, alerts'[a] # alerts[a],
               NEW s \in {alerts[a], alerts'[a]} \cap LiveShipments
        PROVE  shipments[s].owner = u
    BY <1>2, <2>4, AlertWriter
  <2> QED
    BY <2>1, <2>2, <2>3, <2>4 DEF OwnersStep
<1> QED
    BY <1>1, <1>2, OnlyWriters

\* Only a request of its owner creates, changes or deletes a row: no look-up
\* that found the caller's row leads to a write on somebody else's, and what a
\* deletion carries along stays within the account.
THEOREM OwnersCorrect == Spec => OnlyOwnerWrites
<1>1. /\ TypeOK /\ LookupsHold /\ OwnersHeld /\ [Next]_vars => OwnersStep
    BY OwnersStepHolds
<1> QED
    BY <1>1, TypeCorrect, LookupsCorrect, OwnersHeldCorrect, PTL
        DEF Spec, OnlyOwnerWrites
-----------------------------------------------------------------------------
\* A request that changes tables and its own slot is the one that steps.
LEMMA WriterIsStepper ==
    ASSUME TypeOK, [Next]_vars, ~UNCHANGED tables, NEW r \in Request,
           req'[r] # req[r]
    PROVE  Writes(r)
<1>1. PICK p \in Request : Writes(p)
    BY OnlyWriters
<1>2. req'[p] # req[p]
    BY <1>1, WriterActs
<1>3. PICK q \in Request : Steps(q)
    BY DEF Next, Steps, vars, tables
<1>4. q = p /\ q = r
    BY <1>2, <1>3, OneRequest
<1> QED
    BY <1>1, <1>4

LEMMA PatchStepHolds ==
    ASSUME TypeOK, [Next]_vars
    PROVE  PatchStep
<1> SUFFICES ASSUME NEW r \in Request, NEW s \in ShipmentId,
                    At(r, "update_shipment", "write"), req'[r] # req[r],
                    shipments'[s] # shipments[s]
             PROVE  LET c == req[r].call
                        old == shipments[s]
                        new == shipments'[s]
                    IN /\ s = c.shipment
                       /\ c.status = UNSET => new.status = old.status
                       /\ c.priority = UNSET => new.priority = old.priority
                       /\ \A k \in Kind :
                             c.ref[k] = UNSET => new.ref[k] = old.ref[k]
                       /\ new.owner = old.owner /\ new.tracking = old.tracking
    BY DEF PatchStep
<1> DEFINE c == req[r].call
           loaded == req[r].row
           row == Patched(shipments[s], loaded, c)
<1>1. ~UNCHANGED tables
    BY DEF tables
<1>2. WriteShipment(r)
    BY <1>1, WriterIsStepper DEF Writes, InsertShipment, EraseShipment, Assess,
        InsertFleet, WriteFleet, EraseFleet, OnKind, At
<1>3. /\ s = c.shipment /\ shipments'[s] = row
      /\ shipments[s] \in ShipmentRow /\ loaded \in ShipmentRow
    BY <1>1, <1>2, WrittenShipment DEF TypeOK
<1>4. /\ row.owner = shipments[s].owner
      /\ row.tracking = shipments[s].tracking
      /\ row.status = Column(shipments[s].status, loaded.status, c.status)
      /\ row.priority = Column(shipments[s].priority, loaded.priority, c.priority)
      /\ \A k \in Kind : row.ref[k] =
            Column(shipments[s].ref[k], loaded.ref[k], c.ref[k])
    BY <1>3, PatchedFields
<1> HIDE DEF row
<1> QED
    BY <1>3, <1>4 DEF Column

\* A PATCH leaves every field its body does not name as it is stored, whatever
\* other requests have changed since it loaded the row.
THEOREM UnsentFieldsCorrect == Spec => UnsentFieldsKept
<1>1. TypeOK /\ [Next]_vars => PatchStep
    BY PatchStepHolds
<1> QED
    BY <1>1, TypeCorrect, PTL DEF Spec, UnsentFieldsKept
-----------------------------------------------------------------------------
\* While requests do not overlap, what a handler has read is what is stored.
Alone == \A r, p \in Request : r = p

Fresh(q) ==
    LET c == q.call IN
    /\ c.op = "update_shipment" /\ q.step \in {"driver", "vehicle", "write"}
       => q.row = shipments[c.shipment]
    /\ c.op \in {"create_shipment", "update_shipment"} /\ q.step = "reread"
       => Live(shipments[q.new])
    /\ \/ c.op = "get_shipment" /\ q.step = "route"
       \/ c.op = "evaluate_shipment" /\ q.step = "assess"
       => Live(shipments[c.shipment])
    /\ c.op = "evaluate_shipment" /\ q.step = "refresh" => Live(alerts[q.new])
    /\ c.op = "delete_shipment" /\ q.step \in {"load", "write"}
       => Live(shipments[c.shipment]) /\ shipments[c.shipment].status = "pending"
    /\ c.op = "delete_shipment" /\ q.step = "write"
       => AlertsOf(c.shipment) \subseteq q.seen
    /\ c.op = "create" /\ q.step = "refresh"
       => Live(fleet[c.kind][q.new]) /\ Servable(fleet[c.kind][q.new])
    /\ c.op = "update" /\ q.step \in {"check", "write"}
       => Live(fleet[c.kind][c.id])
    /\ c.op = "update" /\ q.step = "refresh"
       => q.new = c.id /\ Live(fleet[c.kind][c.id])
    /\ c.op = "delete" /\ q.step \in {"count", "load", "write"}
       => Live(fleet[c.kind][c.id])
    /\ c.op = "delete" /\ q.step \in {"load", "write"}
       => \A s \in Referencing(c.kind, c.id) : ~Active(s)
    /\ c.op = "delete" /\ q.step = "write"
       => q.seen = Referencing(c.kind, c.id)

AllFresh == \A r \in Request : Running(r) => Fresh(req[r])

\* An answer, and the look-ups that come before the first one Fresh speaks of.
LEMMA NothingFresh ==
    ASSUME NEW r \in Request,
           \/ req'[r].step \notin Step
           \/ req'[r].step = "select"
           \/ /\ req'[r].call.op \in {"create_shipment", "create"}
              /\ req'[r].step \in {"check", "driver", "vehicle", "write"}
    PROVE  Fresh(req[r])'
    BY DEF Fresh, Step

LEMMA AnswerFresh ==
    ASSUME TypeOK, NEW r \in Request, NEW code \in Answer, Reply(r, code)
    PROVE  Fresh(req[r])'
<1>1. req'[r].step = code
    BY DEF Reply, Answered, TypeOK
<1> QED
    BY <1>1, NothingFresh DEF Answer, Step

\* The reads of the shipments router.
LEMMA SelectFresh ==
    ASSUME TypeOK, NEW r \in Request,
           \/ SelectShipment(r, "get_shipment", "route")
           \/ SelectShipment(r, "evaluate_shipment", "assess")
           \/ SelectForUpdate(r) \/ CheckDeletable(r)
    PROVE  Fresh(req[r])'
<1> DEFINE c == req[r].call
<1>1. CASE \E code \in Answer : Reply(r, code)
    BY <1>1, AnswerFresh
<1>2. /\ req[r] \in Busy
      /\ c.op \in {"get_shipment", "evaluate_shipment", "update_shipment",
                   "delete_shipment"}
    BY BusySlot DEF SelectForUpdate, SelectShipment, CheckDeletable, At,
        Running, Step
<1>3. shipments' = shipments
    BY DEF SelectForUpdate, SelectShipment, CheckDeletable, tables
<1>4. ASSUME NEW step, Load(r, step)
      PROVE  /\ req'[r].step = step /\ req'[r].call = c
             /\ req'[r].row = shipments[c.shipment]
    BY <1>2, <1>4 DEF Load, TypeOK, Busy
<1>5. CASE SelectForUpdate(r)
  <2>1. CASE Load(r, StepAfter(c, Kind))
    BY <1>3, <1>4, <1>5, <2>1 DEF SelectForUpdate, SelectShipment, At, Fresh,
        StepAfter
  <2> QED
    BY <1>1, <1>5, <2>1 DEF SelectForUpdate, SelectShipment, Answer
<1>6. CASE CheckDeletable(r)
    BY <1>1, <1>3, <1>4, <1>6 DEF CheckDeletable, At, Fresh, Owned, Live, Answer
<1>7. CASE \/ SelectShipment(r, "get_shipment", "route")
           \/ SelectShipment(r, "evaluate_shipment", "assess")
    BY <1>1, <1>3, <1>4, <1>7 DEF SelectShipment, At, Fresh, Owned, Live, Answer
<1> QED
    BY <1>5, <1>6, <1>7

LEMMA LookupFresh ==
    ASSUME TypeOK, NEW r \in Request, Fresh(req[r]),
           \/ CheckTracking(r) \/ get_driver_or_404(r) \/ get_vehicle_or_404(r)
           \/ LoadCascade(r)
    PROVE  Fresh(req[r])'
<1> DEFINE c == req[r].call
<1>1. CASE \E code \in Answer : Reply(r, code)
    BY <1>1, AnswerFresh
<1>2. /\ req[r] \in Busy
      /\ c.op \in {"create_shipment", "update_shipment", "delete_shipment"}
    BY BusySlot DEF CheckTracking, get_driver_or_404, get_vehicle_or_404,
        get_ref_or_404, LoadCascade, At, Running, Step, Kind
<1>3. UNCHANGED tables
    BY DEF CheckTracking, get_driver_or_404, get_vehicle_or_404,
        get_ref_or_404, LoadCascade
<1>4. ASSUME NEW step \in {"driver", "vehicle", "write"}, Goto(r, step)
      PROVE  /\ req'[r].step = step /\ req'[r].call = c
             /\ req'[r].row = req[r].row
    BY <1>2, <1>4 DEF Goto, TypeOK, Busy
<1>5. CASE LoadCascade(r)
  <2>1. /\ req'[r].step = "write" /\ req'[r].call = c
        /\ req'[r].seen = AlertsOf(c.shipment)
        /\ c.op = "delete_shipment" /\ req[r].step = "load"
    BY <1>2, <1>5 DEF LoadCascade, At, TypeOK, Busy
  <2> QED
    BY <1>3, <2>1 DEF Fresh, AlertsOf, Live, tables
<1>6. CASE CheckTracking(r)
  <2>1. CASE Goto(r, StepAfter(c, Kind))
    BY <1>4, <1>6, <2>1, NothingFresh DEF CheckTracking, At, StepAfter
  <2> QED
    BY <1>1, <1>6, <2>1 DEF CheckTracking, Answer
<1>7. CASE get_driver_or_404(r) \/ get_vehicle_or_404(r)
  <2>1. ASSUME NEW step \in {"driver", "vehicle", "write"}, Goto(r, step)
        PROVE  Fresh(req[r])'
    <3>1. c.op \in {"create_shipment", "update_shipment"}
          /\ req[r].step \in {"driver", "vehicle"}
        BY <1>7 DEF get_driver_or_404, get_vehicle_or_404, get_ref_or_404
    <3> QED
        BY <1>3, <1>4, <2>1, <3>1, NothingFresh DEF Fresh, tables
  <2> QED
    BY <1>1, <1>7, <2>1 DEF get_driver_or_404, get_vehicle_or_404,
        get_ref_or_404, StepAfter, Answer
<1> QED
    BY <1>5, <1>6, <1>7

\* What is read back after a commit is there.
LEMMA WriteFresh ==
    ASSUME TypeOK, NEW r \in Request, Fresh(req[r]),
           InsertShipment(r) \/ WriteShipment(r) \/ Assess(r)
    PROVE  Fresh(req[r])'
<1> DEFINE c == req[r].call
<1>1. CASE \E code \in Answer : Reply(r, code)
    BY <1>1, AnswerFresh
<1>2. req[r] \in Busy /\ LocalsOK(req[r]) /\ Running(r)
    BY BusySlot DEF InsertShipment, WriteShipment, Assess, At, Running, Step
<1>3. ASSUME NEW step, NEW x,
             req' = [req EXCEPT ![r].step = step, ![r].new = x]
      PROVE  req'[r].step = step /\ req'[r].call = c /\ req'[r].new = x
    BY <1>2, <1>3 DEF TypeOK, Busy
<1>4. CASE InsertShipment(r)
  <2> DEFINE row == [owner |-> c.user, tracking |-> c.tracking,
                     status |-> "pending", ref |-> c.ref,
                     priority |-> c.priority]
  <2>1. Live(row)
    <3>1. c \in CreateShipmentCall
        BY <1>4, BusySlot, CallShapes DEF InsertShipment, At, Running, Step
    <3>2. row \in ShipmentRow
        BY <3>1 DEF CreateShipmentCall, ShipmentRow, ShipmentStatus
    <3> QED
        BY <3>2, LiveShipmentRow
  <2> HIDE DEF row
  <2>2. ASSUME NEW s \in ShipmentId, shipments' = [shipments EXCEPT ![s] = row],
               req' = [req EXCEPT ![r].step = "reread", ![r].new = s]
        PROVE  Fresh(req[r])'
    <3>1. Live(shipments'[s])
        BY <2>1, <2>2 DEF TypeOK
    <3>2. req'[r].step = "reread" /\ req'[r].call = c /\ req'[r].new = s
        BY <1>3, <2>2
    <3> QED
        BY <1>4, <3>1, <3>2 DEF InsertShipment, At, Fresh, Live
  <2> QED
    BY <1>1, <1>4, <2>2 DEF InsertShipment, Answer, row
<1>5. CASE WriteShipment(r)
  <2>1. c \in UpdateShipmentCall /\ c.op = "update_shipment"
    BY <1>2, <1>5, BusySlot, CallShapes DEF WriteShipment, At
  <2>2. CASE req' = [req EXCEPT ![r].step = "reread", ![r].new = c.shipment]
    <3>1. Live(shipments'[c.shipment])
      <4>1. CASE UNCHANGED tables
        <5>1. req[r].row \in ShipmentRow /\ req[r].row = shipments[c.shipment]
            BY <1>2, <1>5, <2>1 DEF Fresh, LocalsOK, WriteShipment, At
        <5> QED
            BY <4>1, <5>1, LiveShipmentRow DEF tables
      <4>2. CASE ~UNCHANGED tables
        BY <1>5, <2>1, <4>2, WrittenShipment, LiveShipmentRow
            DEF TypeOK, UpdateShipmentCall
      <4> QED
        BY <4>1, <4>2
    <3>2. req'[r].step = "reread" /\ req'[r].call = c /\ req'[r].new = c.shipment
        BY <1>3, <2>2
    <3> QED
        BY <2>1, <3>1, <3>2 DEF Fresh, Live
  <2> QED
    BY <1>1, <1>5, <2>2 DEF WriteShipment, Answer
<1>6. CASE Assess(r)
  <2>1. c.shipment \in ShipmentId /\ c.op = "evaluate_shipment"
    BY <1>2, <1>6, BusySlot, CallShapes DEF Assess, At, OnShipmentCall
  <2>2. ASSUME NEW a \in AlertId,
               alerts' = [alerts EXCEPT ![a] = c.shipment],
               req' = [req EXCEPT ![r].step = "refresh", ![r].new = a]
        PROVE  Fresh(req[r])'
    <3>1. Live(alerts'[a])
        BY <2>1, <2>2, SentinelAssumption DEF TypeOK, Live
    <3>2. req'[r].step = "refresh" /\ req'[r].call = c /\ req'[r].new = a
        BY <1>3, <2>2
    <3> QED
        BY <2>1, <3>1, <3>2 DEF Fresh, Live
  <2> QED
    BY <1>1, <1>6, <2>2 DEF Assess, Answer
<1> QED
    BY <1>4, <1>5, <1>6

LEMMA ShipmentStepFresh ==
    ASSUME TypeOK, NEW r \in Request, Fresh(req[r]), ShipmentStep(r)
    PROVE  Fresh(req[r])'
<1>1. CASE \E code \in Answer : Reply(r, code)
    BY <1>1, AnswerFresh
<1>2. CASE \/ ReadRoute(r) \/ EraseShipment(r) \/ RefreshAlert(r)
           \/ \E op \in {"create_shipment", "update_shipment"} : Reread(r, op)
    BY <1>1, <1>2 DEF ReadRoute, EraseShipment, RefreshAlert, Reread, Answer
<1> QED
    BY <1>2, SelectFresh, LookupFresh, WriteFresh DEF ShipmentStep

\* The drivers and vehicles routers.
LEMMA FleetStepFresh ==
    ASSUME TypeOK, NEW r \in Request, Fresh(req[r]), NEW k \in Kind,
           FleetStep(r, k)
    PROVE  Fresh(req[r])'
<1> DEFINE c == req[r].call
<1>1. CASE \E code \in Answer : Reply(r, code)
    BY <1>1, AnswerFresh
<1>2. /\ req[r] \in Busy /\ LocalsOK(req[r]) /\ Running(r)
      /\ c.kind = k /\ c \in Call
    BY BusySlot DEF FleetStep, CheckKey, InsertFleet, Refresh, get, SelectFleet,
        CheckNewKey, WriteFleet, SelectForDelete, CountActive, LoadReferencing,
        EraseFleet, OnKind, At, Running, Step
<1>3. ASSUME NEW step, Goto(r, step) \/ LoadFleet(r, k, step)
      PROVE  req'[r].step = step /\ req'[r].call = c
    BY <1>2, <1>3 DEF Goto, LoadFleet, TypeOK, Busy
<1>4. ASSUME NEW step, NEW x,
             req' = [req EXCEPT ![r].step = step, ![r].new = x]
      PROVE  req'[r].step = step /\ req'[r].call = c /\ req'[r].new = x
    BY <1>2, <1>4 DEF TypeOK, Busy
<1>5. CASE CheckKey(r, k)
    BY <1>1, <1>3, <1>5, NothingFresh DEF CheckKey, OnKind, At, Answer
<1>6. CASE InsertFleet(r, k)
  <2> DEFINE row == [owner |-> c.user, key |-> c.key, label |-> c.label]
  <2>1. CASE TooLong(c)
    BY <1>1, <1>6, <2>1 DEF InsertFleet, Answer
  <2>2. ASSUME ~TooLong(c) PROVE Live(row) /\ Servable(row)
    <3>1. c \in CreateFleetCall
        BY <1>2, <1>6, CallShapes DEF InsertFleet, OnKind, At
    <3>2. row \in FleetRow /\ row.key \notin Short /\ row.label \notin Short
        BY <2>2, <3>1 DEF CreateFleetCall, PostedLabel, Kind, FleetRow, TooLong
    <3> QED
        BY <3>2, LiveFleetRow DEF Servable
  <2> HIDE DEF row
  <2>3. ASSUME NEW f \in FleetId, fleet' = [fleet EXCEPT ![k][f] = row],
               ~TooLong(c),
               req' = [req EXCEPT ![r].step = "refresh", ![r].new = f]
        PROVE  Fresh(req[r])'
    <3>1. fleet'[k][f] = row
        BY <2>3 DEF TypeOK
    <3>2. req'[r].step = "refresh" /\ req'[r].call = c /\ req'[r].new = f
        BY <1>4, <2>3
    <3> QED
        BY <1>2, <1>6, <2>2, <2>3, <3>1, <3>2
            DEF InsertFleet, OnKind, At, Fresh, Live, Servable
  <2> QED
    BY <1>1, <1>6, <2>1, <2>3 DEF InsertFleet, Answer, row
<1>7. CASE SelectFleet(r, k) \/ CheckNewKey(r, k)
  <2>1. ASSUME NEW step \in {"check", "write"},
               Goto(r, step) \/ LoadFleet(r, k, step), Live(fleet[k][c.id])
        PROVE  Fresh(req[r])'
    BY <1>2, <1>3, <1>7, <2>1 DEF SelectFleet, CheckNewKey, OnKind, At, Fresh,
        Live, tables
  <2>2. CASE SelectFleet(r, k)
    BY <1>1, <2>1, <2>2 DEF SelectFleet, OwnedFleet, Answer
  <2>3. CASE CheckNewKey(r, k)
    BY <1>1, <1>2, <2>1, <2>3 DEF CheckNewKey, OnKind, At, Fresh, Answer
  <2> QED
    BY <1>7, <2>2, <2>3
<1>8. CASE WriteFleet(r, k)
  <2>1. c \in UpdateFleetCall /\ c.op = "update" /\ Live(fleet[k][c.id])
        /\ c.id \in FleetId
    BY <1>2, <1>8, CallShapes DEF WriteFleet, OnKind, At, Fresh, UpdateFleetCall
  <2>3. CASE req' = [req EXCEPT ![r].step = "refresh", ![r].new = c.id]
    <3>1. Live(fleet'[k][c.id])
      <4>1. CASE UNCHANGED tables
        BY <2>1, <4>1 DEF tables
      <4>2. CASE ~UNCHANGED tables
        <5>1. fleet'[k][c.id] \in FleetRow
            BY <1>8, <4>2, WrittenFleet DEF TypeOK
        <5> QED
            BY <5>1, LiveFleetRow
      <4>3. CASE \E code \in Answer : Reply(r, code)
        <5>1. req'[r].step = "refresh"
            BY <1>4, <2>3
        <5> QED
            BY <4>3, <5>1 DEF Reply, Answered, Answer, TypeOK
      <4> QED
        BY <1>8, <4>1, <4>2, <4>3 DEF WriteFleet, Answer
    <3>2. /\ req'[r].step = "refresh" /\ req'[r].call = c
          /\ req'[r].new = c.id
        BY <1>4, <2>3
    <3> QED
        BY <1>2, <2>1, <3>1, <3>2 DEF Fresh, Live
  <2> QED
    BY <1>1, <1>8, <2>3 DEF WriteFleet, Answer
<1>9. CASE SelectForDelete(r, k)
  <2>1. CASE LoadFleet(r, k, "count") /\ OwnedFleet(k, c.id, c.user)
    BY <1>2, <1>3, <1>9, <2>1 DEF SelectForDelete, OnKind, At, Fresh,
        OwnedFleet, Live, tables
  <2> QED
    BY <1>1, <1>9, <2>1 DEF SelectForDelete, Answer
<1>10. CASE CountActive(r, k)
  <2>1. CASE Goto(r, "load") /\ \A s \in Referencing(k, c.id) : ~Active(s)
    BY <1>2, <1>3, <1>10, <2>1 DEF CountActive, OnKind, At, Fresh, Live, tables,
        Referencing, LiveShipments, Active
  <2> QED
    BY <1>1, <1>10, <2>1 DEF CountActive, Answer
<1>11. CASE LoadReferencing(r, k)
  <2>1. /\ req'[r].step = "write" /\ req'[r].call = c
        /\ req'[r].seen = Referencing(k, c.id)
    BY <1>2, <1>11 DEF LoadReferencing, TypeOK, Busy
  <2>2. /\ c.op = "delete" /\ Live(fleet[k][c.id])
        /\ \A s \in Referencing(k, c.id) : ~Active(s)
    BY <1>2, <1>11 DEF LoadReferencing, OnKind, At, Fresh
  <2>3. shipments' = shipments /\ fleet' = fleet
    BY <1>11 DEF LoadReferencing, tables
  <2> QED
    BY <1>2, <2>1, <2>2, <2>3 DEF Fresh, Live, Referencing, LiveShipments,
        Active
<1>12. CASE \/ get(r, k) \/ EraseFleet(r, k)
            \/ \E op \in {"create", "update"} : Refresh(r, op, k)
    BY <1>1, <1>12 DEF get, EraseFleet, Refresh, Answer
<1> QED
    BY <1>5, <1>6, <1>7, <1>8, <1>9, <1>10, <1>11, <1>12 DEF FleetStep

\* AllFresh is inductive while requests do not overlap.
LEMMA AllFreshStep ==
    ASSUME Alone, TypeOK, AllFresh, [Next]_vars
    PROVE  AllFresh'
<1> SUFFICES ASSUME NEW r \in Request, Running(r)' PROVE Fresh(req[r])'
    BY DEF AllFresh
<1>1. CASE UNCHANGED vars
    BY <1>1 DEF AllFresh, Running, vars, Fresh, Live, AlertsOf, Referencing,
        LiveShipments, Active, Servable
<1>2. ASSUME NEW c \in Calls, Start(r, c) PROVE Fresh(req[r])'
  <2>1. req'[r].call = c /\ req'[r].step = FirstStep(c)
    BY <1>2 DEF Start, TypeOK
  <2> QED
    BY <2>1, NothingFresh DEF FirstStep
<1>3. ASSUME Crash(r) PROVE Fresh(req[r])'
    BY <1>3, AnswerFresh DEF Crash, Answer
<1>4. ASSUME Handle(r) PROVE Fresh(req[r])'
  <2>1. Running(r)
    BY <1>4, HandleSteps DEF ShipmentStep, SelectShipment, ReadRoute,
        CheckTracking, InsertShipment, Reread, SelectForUpdate, WriteShipment,
        CheckDeletable, LoadCascade, EraseShipment, Assess, RefreshAlert,
        get_driver_or_404, get_vehicle_or_404, get_ref_or_404, FleetStep,
        CheckKey, InsertFleet, Refresh, get, SelectFleet, CheckNewKey,
        WriteFleet, SelectForDelete, CountActive, LoadReferencing, EraseFleet,
        OnKind, At, Running, Step, Kind
  <2> QED
    BY <1>4, <2>1, HandleSteps, ShipmentStepFresh, FleetStepFresh DEF AllFresh
<1> QED
    BY <1>1, <1>2, <1>3, <1>4 DEF Alone, Next

LEMMA AllFreshCorrect == ASSUME Alone PROVE Spec => []AllFresh
<1>1. StoreInit => AllFresh
    BY DEF StoreInit, AllFresh, Running, Answered, Step
<1>2. TypeOK /\ AllFresh /\ [Next]_vars => AllFresh'
    BY AllFreshStep
<1> QED
    BY <1>1, <1>2, TypeCorrect, PTL DEF Spec
-----------------------------------------------------------------------------
\* The UPDATE of a PATCH that is alone starts from the row it has judged.
LEMMA FreshPatch ==
    ASSUME TypeOK, AllFresh, NEW r \in Request, WriteShipment(r),
           NEW s \in ShipmentId, shipments'[s] # shipments[s]
    PROVE  LET c == req[r].call
               old == shipments[s]
               new == shipments'[s]
           IN /\ s = c.shipment /\ c \in UpdateShipmentCall
              /\ old \in ShipmentRow /\ new \in ShipmentRow
              /\ ~Refused(c, old)
              /\ new.status = IF c.status = UNSET THEN old.status ELSE c.status
              /\ new.priority =
                    IF c.priority = UNSET THEN old.priority ELSE c.priority
              /\ \A k \in Kind : new.ref[k] =
                    IF c.ref[k] = UNSET THEN old.ref[k] ELSE c.ref[k]
              /\ new.owner = old.owner /\ new.tracking = old.tracking
<1> DEFINE c == req[r].call
           row == Patched(shipments[s], req[r].row, c)
<1>1. ~UNCHANGED tables
    BY DEF tables
<1>2. /\ s = c.shipment /\ c \in UpdateShipmentCall /\ shipments'[s] = row
      /\ shipments[s] \in ShipmentRow /\ row \in ShipmentRow
      /\ ~Refused(c, req[r].row)
    BY <1>1, WrittenShipment DEF TypeOK
<1>3. req[r].row = shipments[s]
    BY <1>2 DEF AllFresh, Fresh, WriteShipment, At, Running, Step
<1>4. /\ row.owner = shipments[s].owner
      /\ row.tracking = shipments[s].tracking
      /\ row.status = Column(shipments[s].status, shipments[s].status, c.status)
      /\ row.priority =
            Column(shipments[s].priority, shipments[s].priority, c.priority)
      /\ \A k \in Kind : row.ref[k] =
            Column(shipments[s].ref[k], shipments[s].ref[k], c.ref[k])
    BY <1>2, <1>3, PatchedFields
<1> HIDE DEF row
<1> QED
    BY <1>2, <1>3, <1>4 DEF Column

\* A DELETE that is alone takes a pending shipment.
LEMMA FreshErase ==
    ASSUME TypeOK, AllFresh, NEW r \in Request, EraseShipment(r),
           NEW s \in ShipmentId, shipments'[s] # shipments[s]
    PROVE  Live(shipments[s]) /\ shipments[s].status = "pending"
<1>1. s = req[r].call.shipment
    BY DEF EraseShipment, TypeOK, tables
<1> QED
    BY <1>1 DEF AllFresh, Fresh, EraseShipment, At, Running, Step

\* A deletion of a driver or vehicle that is alone clears closed shipments.
LEMMA FreshClear ==
    ASSUME TypeOK, AllFresh, NEW r \in Request, NEW k \in Kind,
           EraseFleet(r, k), NEW s \in ShipmentId, shipments'[s] # shipments[s]
    PROVE  /\ s \in LiveShipments /\ ~Active(s)
           /\ shipments'[s] = [shipments[s] EXCEPT !.ref[k] = NULL]
           /\ fleet'[k] # fleet[k]
<1> DEFINE c == req[r].call
<1>1. /\ s \in req[r].seen /\ s \in LiveShipments
      /\ shipments'[s] = [shipments[s] EXCEPT !.ref[k] = NULL]
      /\ fleet' = [fleet EXCEPT ![k][c.id] = GONE]
    BY DEF EraseFleet, tables
<1>2. /\ Running(r) /\ c.op = "delete" /\ c.kind = k /\ req[r].step = "write"
      /\ c.id \in FleetId
    BY BusySlot, CallShapes
        DEF EraseFleet, OnKind, At, Running, Step, OnFleetCall
<1>3. /\ Live(fleet[k][c.id]) /\ req[r].seen = Referencing(k, c.id)
      /\ \A t \in Referencing(k, c.id) : ~Active(t)
    BY <1>2 DEF AllFresh, Fresh
<1>4. fleet'[k][c.id] = GONE /\ fleet[k][c.id] # GONE
    BY <1>1, <1>2, <1>3 DEF TypeOK, Live
<1> QED
    BY <1>1, <1>3, <1>4

LEMMA DocumentedStep ==
    ASSUME TypeOK, LookupsHold, AllFresh, [Next]_vars
    PROVE  Documented!LifecycleNext \/ stages' = stages
<1>1. CASE stages' = stages
    BY <1>1
<1>2. ASSUME NEW s \in ShipmentId, NEW next \in Stages,
             <<stages[s], next>> \in RacingEdges, next # stages[s],
             stages' = [stages EXCEPT ![s] = next]
      PROVE  Documented!LifecycleNext
  <2>1. /\ stages[s] = StageOf(shipments[s])
        /\ next = StageOf(shipments'[s])
    BY <1>2 DEF stages
  <2>2. shipments'[s] # shipments[s]
    BY <1>2, <2>1
  <2>3. PICK r \in Request : Writes(r) /\ ~UNCHANGED tables
    BY <2>2, OnlyWriters DEF tables
  <2>4. <<stages[s], next>> \in DocumentedEdges
    <3>1. CASE WriteShipment(r)
      <4>1. /\ stages[s] \in ShipmentStatus /\ next \in ShipmentStatus
            /\ is_valid_transition(stages[s], next)
        BY <1>2, <2>1, <2>2, <3>1, FreshPatch, StageOfRow
            DEF Refused, UpdateShipmentCall
      <4> QED
        BY <1>2, <4>1 DEF is_valid_transition, DocumentedEdges
    <3>2. CASE EraseShipment(r)
      <4>1. shipments'[s] = GONE
        BY <2>2, <3>2 DEF EraseShipment, TypeOK, tables
      <4>2. shipments[s] \in ShipmentRow /\ shipments[s].status = "pending"
        BY <2>2, <3>2, FreshErase, LiveRows
      <4> QED
        BY <2>1, <4>1, <4>2, StageOfRow, SentinelAssumption
            DEF StageOf, DocumentedEdges
    <3>3. ASSUME NEW k \in Kind, EraseFleet(r, k) PROVE FALSE
      <4>1. shipments[s] \in ShipmentRow /\ shipments'[s] =
              [shipments[s] EXCEPT !.ref[k] = NULL]
        BY <2>2, <3>3, FreshClear, LiveRows DEF LiveShipments
      <4>2. [shipments[s].ref EXCEPT ![k] = NULL]
              \in [Kind -> FleetId \cup {NULL}]
        BY <4>1 DEF ShipmentRow
      <4>3. /\ shipments'[s] \in ShipmentRow
            /\ shipments'[s].status = shipments[s].status
        BY <4>1, <4>2 DEF ShipmentRow
      <4> QED
        BY <1>2, <2>1, <4>1, <4>3, StageOfRow
    <3>4. CASE InsertShipment(r)
      <4>1. shipments[s] = NULL
        BY <2>2, <2>3, <3>4, ShipmentsWritten
            DEF InsertShipment, EraseShipment, WriteShipment, EraseFleet,
                OnKind, At
      <4> QED
        BY <1>2, <2>1, <4>1 DEF StageOf, RacingEdges, DocumentedEdges, Moved,
            ShipmentStatus
    <3> QED
        BY <2>2, <2>3, <3>1, <3>2, <3>3, <3>4 DEF Writes, Assess, InsertFleet,
            WriteFleet, tables
  <2> QED
    BY <1>2, <2>4 DEF Documented!LifecycleNext, Documented!Move
<1>3. CASE Racing!LifecycleNext
  <2>1. PICK s \in ShipmentId, next \in Stages :
           /\ <<stages[s], next>> \in RacingEdges
           /\ stages' = [stages EXCEPT ![s] = next]
    BY <1>3 DEF Racing!LifecycleNext, Racing!Move
  <2>2. next = stages[s] => stages' = stages
    BY <2>1 DEF stages
  <2> QED
    BY <1>2, <2>1, <2>2
<1> QED
    BY <1>1, <1>3, LifecycleStep

\* While requests do not overlap, PulseFleet implements the documented
\* lifecycle: a status moves along ALLOWED_TRANSITIONS, and only a pending
\* shipment is deleted.
THEOREM DocumentedCorrect == ASSUME Alone PROVE Spec => DocumentedLifecycle
<1>1. StoreInit => Documented!LifecycleInit
    BY DEF StoreInit, Documented!LifecycleInit, stages, StageOf
<1>2. TypeOK /\ LookupsHold /\ AllFresh /\ [Next]_vars
        => [Documented!LifecycleNext]_stages
    BY DocumentedStep
<1> QED
    BY <1>1, <1>2, TypeCorrect, LookupsCorrect, AllFreshCorrect, PTL
        DEF Spec, DocumentedLifecycle, Documented!LifecycleSpec
-----------------------------------------------------------------------------
LEMMA KeepRefsHolds ==
    ASSUME TypeOK, AllFresh, [Next]_vars
    PROVE  KeepRefsStep
<1> SUFFICES ASSUME NEW s \in LiveShipments, NEW k \in Kind,
                    ~is_terminal(shipments[s].status), Live(shipments'[s]),
                    shipments[s].ref[k] \notin {NULL, shipments'[s].ref[k]}
             PROVE  \E r \in Request : /\ At(r, "update_shipment", "write")
                                       /\ req[r].call.shipment = s
                                       /\ req[r].call.ref[k] # UNSET
    BY DEF KeepRefsStep
<1>1. s \in ShipmentId /\ Live(shipments[s]) /\ shipments'[s] # shipments[s]
    BY DEF LiveShipments
<1>2. PICK r \in Request : Writes(r) /\ ~UNCHANGED tables
    BY <1>1, OnlyWriters DEF tables
<1>3. CASE WriteShipment(r)
  <2>1. /\ s = req[r].call.shipment
        /\ shipments'[s].ref[k] = IF req[r].call.ref[k] = UNSET
                                   THEN shipments[s].ref[k]
                                   ELSE req[r].call.ref[k]
    BY <1>1, <1>3, FreshPatch
  <2> QED
    BY <1>3, <2>1 DEF WriteShipment
<1>4. ASSUME NEW j \in Kind, EraseFleet(r, j) PROVE FALSE
  <2>1. shipments[s] \in ShipmentRow /\ ~Active(s)
    BY <1>1, <1>4, FreshClear, LiveRows
  <2> QED
    BY <2>1 DEF Active, is_terminal, ShipmentRow, ShipmentStatus
<1> QED
    BY <1>1, <1>2, <1>3, <1>4, ShipmentsWritten DEF Live

\* While requests do not overlap, an active shipment keeps its driver and its
\* vehicle until a PATCH names the field.
THEOREM ActiveRefsCorrect == ASSUME Alone PROVE Spec => ActiveKeepsRefs
<1>1. TypeOK /\ AllFresh /\ [Next]_vars => KeepRefsStep
    BY KeepRefsHolds
<1> QED
    BY <1>1, TypeCorrect, AllFreshCorrect, PTL DEF Spec, ActiveKeepsRefs

LEMMA ClosedHolds ==
    ASSUME TypeOK, AllFresh, [Next]_vars
    PROVE  ClosedStep
<1> SUFFICES ASSUME NEW s \in LiveShipments, is_terminal(shipments[s].status),
                    shipments'[s] # shipments[s]
             PROVE  \E k \in Kind :
                       /\ fleet'[k] # fleet[k]
                       /\ shipments'[s] = [shipments[s] EXCEPT !.ref[k] = NULL]
    BY DEF ClosedStep
<1>1. s \in ShipmentId /\ Live(shipments[s])
    BY DEF LiveShipments
<1>2. PICK r \in Request : Writes(r) /\ ~UNCHANGED tables
    BY OnlyWriters DEF tables
<1>3. CASE WriteShipment(r)
  <2> DEFINE c == req[r].call
             old == shipments[s]
             new == shipments'[s]
  <2>1. /\ c \in UpdateShipmentCall /\ ~Refused(c, old)
        /\ old \in ShipmentRow /\ new \in ShipmentRow
        /\ new.status = IF c.status = UNSET THEN old.status ELSE c.status
        /\ new.priority = IF c.priority = UNSET THEN old.priority ELSE c.priority
        /\ \A k \in Kind :
              new.ref[k] = IF c.ref[k] = UNSET THEN old.ref[k] ELSE c.ref[k]
        /\ new.owner = old.owner /\ new.tracking = old.tracking
    BY <1>1, <1>3, FreshPatch
  <2>2. c.status = UNSET /\ ~Edits(c)
    BY <2>1 DEF Refused
  <2> HIDE DEF c
  <2>3. new.status = old.status /\ new.priority = old.priority
        /\ \A k \in Kind : new.ref[k] = old.ref[k]
    BY <2>1, <2>2 DEF Edits
  <2>4. new = old
    BY <2>1, <2>3 DEF ShipmentRow
  <2> QED
    BY <2>4
<1>4. CASE EraseShipment(r)
    BY <1>1, <1>4, FreshErase DEF is_terminal
<1>5. ASSUME NEW k \in Kind, EraseFleet(r, k)
      PROVE  /\ fleet'[k] # fleet[k]
             /\ shipments'[s] = [shipments[s] EXCEPT !.ref[k] = NULL]
    BY <1>1, <1>5, FreshClear
<1> QED
    BY <1>1, <1>2, <1>3, <1>4, <1>5, ShipmentsWritten DEF Live

\* While requests do not overlap, a delivered or cancelled shipment loses a
\* reference when its driver or vehicle is deleted, and changes in no other way.
THEOREM ClosedCorrect == ASSUME Alone PROVE Spec => ClosedOnlyLosesRefs
<1>1. TypeOK /\ AllFresh /\ [Next]_vars => ClosedStep
    BY ClosedHolds
<1> QED
    BY <1>1, TypeCorrect, AllFreshCorrect, PTL DEF Spec, ClosedOnlyLosesRefs

\* The PATCH that moves on to read its row back.
LEMMA PatchAccepted ==
    ASSUME Alone, TypeOK, [Next]_vars, NEW r \in Request,
           At(r, "update_shipment", "write"), req'[r].step = "reread"
    PROVE  WriteShipment(r)
<1>1. req'[r] # req[r] /\ Running(r)
    BY DEF At, Running, Step
<1>2. ASSUME NEW code \in Answer PROVE ~Reply(r, code)
    BY DEF Reply, Answered, Answer, TypeOK
<1>3. Handle(r)
    BY <1>1, <1>2 DEF Alone, Next, vars, Start, Crash, Answer
<1>4. ~FleetStep(r, "driver") /\ ~FleetStep(r, "vehicle")
    BY DEF FleetStep, CheckKey, InsertFleet, Refresh, get, SelectFleet,
        CheckNewKey, WriteFleet, SelectForDelete, CountActive, LoadReferencing,
        EraseFleet, OnKind, At
<1> QED
    BY <1>3, <1>4, HandleSteps DEF ShipmentStep, SelectShipment, ReadRoute,
        CheckTracking, InsertShipment, Reread, SelectForUpdate, CheckDeletable,
        LoadCascade, EraseShipment, Assess, RefreshAlert, get_driver_or_404,
        get_vehicle_or_404, get_ref_or_404, At, Kind

LEMMA StoredHolds ==
    ASSUME Alone, TypeOK, AllFresh, [Next]_vars
    PROVE  StoredStep
<1> SUFFICES ASSUME NEW r \in Request, At(r, "update_shipment", "write"),
                    req'[r].step = "reread"
             PROVE  LET c == req[r].call
                        new == shipments'[c.shipment]
                    IN /\ c.status \in {UNSET, new.status}
                       /\ c.priority \in {UNSET, new.priority}
                       /\ \A k \in Kind : c.ref[k] \in {UNSET, new.ref[k]}
    BY DEF StoredStep
<1> DEFINE c == req[r].call
           s == c.shipment
           loaded == req[r].row
           row == Patched(loaded, loaded, c)
<1>1. WriteShipment(r)
    BY PatchAccepted
<1>2. c \in UpdateShipmentCall /\ s \in ShipmentId /\ loaded \in ShipmentRow
    BY BusySlot, CallShapes
        DEF At, Running, Step, UpdateShipmentCall, LocalsOK
<1>3. loaded = shipments[s]
    BY DEF AllFresh, Fresh, At, Running, Step
<1>4. shipments'[s] = row
  <2>1. ASSUME NEW code \in Answer PROVE ~Reply(r, code)
    BY DEF Reply, Answered, Answer, TypeOK
  <2>2. CASE ~Dirty(loaded, c) /\ UNCHANGED tables
    BY <1>3, <2>2 DEF Dirty, tables
  <2>3. CASE shipments' = [shipments EXCEPT ![s] = Patched(shipments[s], loaded, c)]
    BY <1>2, <1>3, <2>3 DEF TypeOK
  <2> QED
    BY <1>1, <2>1, <2>2, <2>3 DEF WriteShipment, Answer
<1>5. /\ row.status = Column(loaded.status, loaded.status, c.status)
      /\ row.priority = Column(loaded.priority, loaded.priority, c.priority)
      /\ \A k \in Kind :
            row.ref[k] = Column(loaded.ref[k], loaded.ref[k], c.ref[k])
    BY <1>2, PatchedFields
<1> HIDE DEF row
<1> QED
    BY <1>4, <1>5 DEF Column

\* While requests do not overlap, a PATCH that is accepted has stored every
\* field it was sent.
THEOREM AcceptedEditCorrect ==
    ASSUME Alone PROVE Spec => AcceptedEditIsStored
<1>1. TypeOK /\ AllFresh /\ [Next]_vars => StoredStep
    BY StoredHolds
<1> QED
    BY <1>1, TypeCorrect, AllFreshCorrect, PTL DEF Spec, AcceptedEditIsStored
-----------------------------------------------------------------------------
\* The shipments router leaves nothing uncaught but {"status": null} and a
\* duration that its column cannot hold.
LEMMA ShipmentError ==
    ASSUME TypeOK, AllFresh, NoOrphans, NEW r \in Request, ShipmentStep(r),
           req'[r].step = "internal_error"
    PROVE  \/ req[r].call.op = "update_shipment" /\ req[r].call.status = NULL
           \/ req[r].call.op = "create_shipment" /\ ~req[r].call.fits
<1> DEFINE c == req[r].call
<1>1. Running(r)
    BY DEF ShipmentStep, SelectShipment, ReadRoute, CheckTracking,
        InsertShipment, Reread, SelectForUpdate, WriteShipment,
        CheckDeletable, LoadCascade, EraseShipment, Assess, RefreshAlert,
        get_driver_or_404, get_vehicle_or_404, get_ref_or_404, At, Running,
        Step, Kind
<1>2. /\ req[r] \in Busy /\ LocalsOK(req[r]) /\ c \in Call /\ Fresh(req[r])
      /\ req \in [Request -> Idle \cup Busy]
    BY <1>1, BusySlot DEF AllFresh, TypeOK
<1>3. ASSUME NEW code, Reply(r, code) PROVE code = "internal_error"
    BY <1>3 DEF Reply, Answered, TypeOK
<1>4. ASSUME NEW step, Goto(r, step) \/ Load(r, step)
      PROVE  step = "internal_error"
    BY <1>2, <1>4 DEF Goto, Load, Busy
<1>5. ASSUME NEW step, NEW x,
             req' = [req EXCEPT ![r].step = step, ![r].new = x]
      PROVE  step = "internal_error"
    BY <1>2, <1>5 DEF Busy
<1>6. ASSUME \/ SelectShipment(r, "get_shipment", "route")
             \/ SelectShipment(r, "evaluate_shipment", "assess")
             \/ SelectForUpdate(r) \/ CheckDeletable(r) \/ CheckTracking(r)
             \/ get_driver_or_404(r) \/ get_vehicle_or_404(r)
      PROVE  FALSE
    BY <1>3, <1>4, <1>6 DEF SelectShipment, SelectForUpdate, CheckDeletable,
        CheckTracking, get_driver_or_404, get_vehicle_or_404, get_ref_or_404,
        StepAfter
<1>7. ASSUME LoadCascade(r) PROVE FALSE
    BY <1>2, <1>7 DEF LoadCascade, Busy
<1>8. ASSUME InsertShipment(r) PROVE ~c.fits
    BY <1>3, <1>5, <1>8 DEF InsertShipment
<1>9. ASSUME NEW op \in {"create_shipment", "update_shipment"}, Reread(r, op)
      PROVE  FALSE
    BY <1>2, <1>3, <1>9 DEF Reread, At, Fresh
<1>10. ASSUME ReadRoute(r) PROVE FALSE
  <2>1. c.shipment \in ShipmentId /\ Live(shipments[c.shipment])
    BY <1>2, <1>10, CallShapes DEF ReadRoute, At, Fresh, OnShipmentCall
  <2> QED
    BY <1>3, <1>10, <2>1 DEF ReadRoute, NoOrphans, LiveShipments
<1>11. ASSUME EraseShipment(r) PROVE FALSE
    BY <1>2, <1>3, <1>11 DEF EraseShipment, At, Fresh
<1>12. ASSUME Assess(r) PROVE FALSE
    BY <1>2, <1>3, <1>5, <1>12 DEF Assess, At, Fresh
<1>13. ASSUME RefreshAlert(r) PROVE FALSE
    BY <1>2, <1>3, <1>13 DEF RefreshAlert, At, Fresh
<1>14. ASSUME WriteShipment(r) PROVE c.status = NULL
  <2>1. Live(shipments[c.shipment])
    BY <1>2, <1>14, LiveShipmentRow DEF WriteShipment, At, Fresh, LocalsOK
  <2> QED
    BY <1>3, <1>5, <1>14, <2>1 DEF WriteShipment
<1> QED
    BY <1>6, <1>7, <1>8, <1>9, <1>10, <1>11, <1>12, <1>13, <1>14
        DEF ShipmentStep, WriteShipment, InsertShipment, At

\* The drivers and vehicles routers fail to store a text that is too long and
\* to answer with one that is too short.
LEMMA FleetError ==
    ASSUME TypeOK, AllFresh, NEW r \in Request, NEW k \in Kind,
           FleetStep(r, k), req'[r].step = "internal_error"
    PROVE  LET c == req[r].call IN
           \/ c.op \in {"create", "update"} /\ TooLong(c)
           \/ c.op \in {"get", "update"} /\ ~Servable(fleet[c.kind][c.id])
<1> DEFINE c == req[r].call
           Stored == c.op \in {"create", "update"} /\ TooLong(c)
           Served == c.op \in {"get", "update"} /\ ~Servable(fleet[c.kind][c.id])
<1>1. Running(r) /\ c.kind = k
    BY DEF FleetStep, CheckKey, InsertFleet, Refresh, get, SelectFleet,
        CheckNewKey, WriteFleet, SelectForDelete, CountActive, LoadReferencing,
        EraseFleet, OnKind, At, Running, Step
<1>2. /\ req[r] \in Busy /\ Fresh(req[r])
      /\ req \in [Request -> Idle \cup Busy]
    BY <1>1, BusySlot DEF AllFresh, TypeOK
<1>3. ASSUME NEW code, Reply(r, code) PROVE code = "internal_error"
    BY <1>3 DEF Reply, Answered, TypeOK
<1>4. ASSUME NEW step, Goto(r, step) \/ LoadFleet(r, k, step)
      PROVE  step = "internal_error"
    BY <1>2, <1>4 DEF Goto, LoadFleet, Busy
<1>5. ASSUME NEW step, NEW x,
             req' = [req EXCEPT ![r].step = step, ![r].new = x]
      PROVE  step = "internal_error"
    BY <1>2, <1>5 DEF Busy
<1>6. ASSUME \/ CheckKey(r, k) \/ SelectFleet(r, k) \/ CheckNewKey(r, k)
             \/ SelectForDelete(r, k) \/ CountActive(r, k)
      PROVE  FALSE
    BY <1>3, <1>4, <1>6 DEF CheckKey, SelectFleet, CheckNewKey,
        SelectForDelete, CountActive
<1>7. ASSUME LoadReferencing(r, k) PROVE FALSE
    BY <1>2, <1>7 DEF LoadReferencing, Busy
<1>8. ASSUME InsertFleet(r, k) PROVE Stored
    BY <1>3, <1>5, <1>8 DEF InsertFleet, OnKind, At
<1>9. ASSUME WriteFleet(r, k) PROVE Stored
  <2>1. Live(fleet[k][c.id])
    BY <1>1, <1>2, <1>9 DEF WriteFleet, OnKind, At, Fresh
  <2> QED
    BY <1>3, <1>5, <1>9, <2>1 DEF WriteFleet, OnKind, At
<1>10. ASSUME NEW op \in {"create", "update"}, Refresh(r, op, k) PROVE Served
  <2>1. CASE op = "create"
    BY <1>1, <1>2, <1>3, <1>10, <2>1 DEF Refresh, OnKind, At, Fresh
  <2>2. CASE op = "update"
    BY <1>1, <1>2, <1>3, <1>10, <2>2 DEF Refresh, OnKind, At, Fresh
  <2> QED
    BY <2>1, <2>2
<1>11. ASSUME get(r, k) PROVE Served
    BY <1>1, <1>3, <1>11 DEF get, OnKind, At
<1>12. ASSUME EraseFleet(r, k) PROVE FALSE
  <2>1. req[r].seen = Referencing(k, c.id)
    BY <1>1, <1>2, <1>12 DEF EraseFleet, OnKind, At, Fresh
  <2>2. \A s \in req[r].seen : Live(shipments[s])
    BY <2>1 DEF Referencing, LiveShipments
  <2> QED
    BY <1>3, <1>12, <2>1, <2>2 DEF EraseFleet
<1> QED
    BY <1>6, <1>7, <1>8, <1>9, <1>10, <1>11, <1>12 DEF FleetStep

LEMMA NoErrorHolds ==
    ASSUME Alone, TypeOK, AllFresh, NoOrphans, [Next]_vars
    PROVE  NoErrorStep
<1> SUFFICES ASSUME NEW r \in Request, Running(r),
                    req'[r].step = "internal_error"
             PROVE  LET c == req[r].call IN
                    \/ c.op = "update_shipment" /\ c.status = NULL
                    \/ c.op = "create_shipment" /\ ~c.fits
                    \/ c.op \in {"create", "update"} /\ TooLong(c)
                    \/ /\ c.op \in {"get", "update"}
                       /\ ~Servable(fleet[c.kind][c.id])
    BY DEF NoErrorStep
<1>1. ~Crash(r)
    BY DEF Crash, Reply, Answered, TypeOK
<1>2. Handle(r)
    BY <1>1 DEF Alone, Next, vars, Start, Running, Step
<1> QED
    BY <1>2, HandleSteps, ShipmentError, FleetError

\* While requests do not overlap, no handler fails but on values that pydantic
\* lets through: {"status": null}, a duration beyond 32 bits, a driver's or
\* vehicle's text that its column cannot hold, and one that a PATCH has made too
\* short to be returned.
THEOREM ErrorsCorrect == ASSUME Alone PROVE Spec => AloneNoServerError
<1>1. TypeOK /\ AllFresh /\ NoOrphans /\ [Next]_vars => NoErrorStep
    BY NoErrorHolds
<1> QED
    BY <1>1, TypeCorrect, AllFreshCorrect, OrphansCorrect, PTL
        DEF Spec, AloneNoServerError
=============================================================================
