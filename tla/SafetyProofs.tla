---------------------------- MODULE SafetyProofs ----------------------------
(***************************************************************************)
(* References stay valid and within one account, and no shipment leaves    *)
(* the lifecycle that overlapping requests still keep: both follow from    *)
(* what a handler's look-ups are worth when it writes (LookupsHold), which *)
(* follows from what a step of another request can do to a row.  The       *)
(* constraints of the tables, unique keys and no route or alert without    *)
(* its shipment, are inductive by themselves: each of the seven writing    *)
(* steps checks what it needs in the commit that writes.                   *)
(***************************************************************************)
EXTENDS PulseFleetProofs

\* A step leaves the tables alone or is one of the seven that write them.
Writes(r) ==
    \/ InsertShipment(r) \/ WriteShipment(r) \/ EraseShipment(r) \/ Assess(r)
    \/ \E k \in Kind : InsertFleet(r, k) \/ WriteFleet(r, k) \/ EraseFleet(r, k)

\* Every other step leaves the tables unchanged.
LEMMA OnlyWriters ==
    ASSUME [Next]_vars
    PROVE  UNCHANGED tables \/ \E r \in Request : Writes(r)
<1>1. ASSUME NEW r \in Request, ShipmentStep(r)
      PROVE  UNCHANGED tables \/ Writes(r)
    BY <1>1 DEF ShipmentStep, Writes, SelectShipment, ReadRoute, CheckTracking,
        Reread, SelectForUpdate, CheckDeletable, LoadCascade, RefreshAlert,
        get_driver_or_404, get_vehicle_or_404, get_ref_or_404
<1>2. ASSUME NEW r \in Request, NEW k \in Kind, FleetStep(r, k)
      PROVE  UNCHANGED tables \/ Writes(r)
    BY <1>2 DEF FleetStep, Writes, CheckKey, Refresh, get, SelectFleet,
        CheckNewKey, SelectForDelete, CountActive, LoadReferencing
<1>3. ASSUME NEW r \in Request, Handle(r)
      PROVE  UNCHANGED tables \/ Writes(r)
    BY <1>1, <1>2, <1>3, HandleSteps
<1> QED
    BY <1>3 DEF Next, Start, Crash, vars, tables
-----------------------------------------------------------------------------
\* What a step can do to a row that has been inserted: it stays its owner's or
\* goes, and stays gone.
KeepsOwner(old, new) ==
    old # NULL => \/ new = GONE
                  \/ Live(old) /\ Live(new) /\ new.owner = old.owner

\* A live row is a row, and a row is live.
LEMMA LiveRows ==
    ASSUME TypeOK
    PROVE  /\ \A s \in ShipmentId : Live(shipments[s]) <=> shipments[s] \in ShipmentRow
           /\ \A k \in Kind, f \in FleetId :
                 Live(fleet[k][f]) <=> fleet[k][f] \in FleetRow
    BY SentinelAssumption DEF TypeOK, Live

\* A shipment row is neither NULL nor GONE.
LEMMA LiveShipmentRow ==
    ASSUME NEW row \in ShipmentRow
    PROVE  Live(row)
    BY SentinelAssumption DEF Live

\* A driver or vehicle row is neither NULL nor GONE.
LEMMA LiveFleetRow ==
    ASSUME NEW row \in FleetRow
    PROVE  Live(row)
    BY SentinelAssumption DEF Live

\* The accepted UPDATE of PATCH /drivers/{id} and PATCH /vehicles/{id}.
LEMMA WrittenFleet ==
    ASSUME TypeOK, NEW r \in Request, NEW k \in Kind, WriteFleet(r, k),
           ~UNCHANGED tables
    PROVE  LET c == req[r].call
               stored == fleet[k][c.id]
               row == Edited(stored, req[r].row, c)
           IN /\ c \in UpdateFleetCall /\ c.id \in FleetId /\ ~TooLong(c)
              /\ stored \in FleetRow /\ row \in FleetRow
              /\ row.owner = stored.owner
              /\ row.key = Column(stored.key, req[r].row.key, c.key)
              /\ row.label = Column(stored.label, req[r].row.label, c.label)
              /\ FleetRowAccepted(k, c.id, row)
              /\ fleet' = [fleet EXCEPT ![k][c.id] = row]
              /\ UNCHANGED <<shipments, routes, alerts>>
<1> DEFINE c == req[r].call
           stored == fleet[k][c.id]
           loaded == req[r].row
           row == Edited(stored, loaded, c)
<1>1. c \in UpdateFleetCall
    BY BusySlot, CallShapes DEF WriteFleet, OnKind, At, Running, Step
<1>2. /\ Live(stored) /\ ~TooLong(c) /\ FleetRowAccepted(k, c.id, row)
      /\ fleet' = [fleet EXCEPT ![k][c.id] = row]
      /\ UNCHANGED <<shipments, routes, alerts>>
    BY DEF WriteFleet
<1>3. c.id \in FleetId
    BY <1>1 DEF UpdateFleetCall
<1>4. stored \in FleetRow
    BY <1>2, <1>3, LiveRows
<1> HIDE DEF c, stored, loaded
<1>5. /\ row \in FleetRow /\ row.owner = stored.owner
      /\ row.key = Column(stored.key, loaded.key, c.key)
      /\ row.label = Column(stored.label, loaded.label, c.label)
    BY <1>1, <1>2, <1>4, FleetRowWritten
<1> HIDE DEF row
<1> QED
    BY <1>1, <1>2, <1>3, <1>4, <1>5 DEF c, stored, loaded, row

\* The accepted UPDATE of PATCH /shipments/{id}.
LEMMA WrittenShipment ==
    ASSUME TypeOK, NEW r \in Request, WriteShipment(r), ~UNCHANGED tables
    PROVE  LET c == req[r].call
               row == Patched(shipments[c.shipment], req[r].row, c)
           IN /\ c \in UpdateShipmentCall
              /\ req[r].row \in ShipmentRow
              /\ shipments[c.shipment] \in ShipmentRow
              /\ row \in ShipmentRow
              /\ RefsExist(row.ref)
              /\ ~Refused(c, req[r].row)
              /\ shipments' = [shipments EXCEPT ![c.shipment] = row]
              /\ UNCHANGED <<routes, alerts, fleet>>
<1> DEFINE c == req[r].call
           row == Patched(shipments[c.shipment], req[r].row, c)
<1>1. req[r] \in Busy /\ LocalsOK(req[r]) /\ c \in UpdateShipmentCall
    BY BusySlot, CallShapes DEF WriteShipment, At, Running, Step
<1>2. req[r].row \in ShipmentRow
    BY <1>1 DEF LocalsOK, WriteShipment, At
<1> HIDE DEF row
<1>3. /\ c.status # NULL /\ ~Refused(c, req[r].row)
      /\ Live(shipments[c.shipment]) /\ RowAccepted(row)
      /\ shipments' = [shipments EXCEPT ![c.shipment] = row]
      /\ UNCHANGED <<routes, alerts, fleet>>
    BY DEF WriteShipment, row
<1>4. shipments[c.shipment] \in ShipmentRow
    BY <1>1, <1>3, LiveRows DEF UpdateShipmentCall
<1>5. row \in ShipmentRow
    BY <1>1, <1>2, <1>3, <1>4, PatchedType DEF row
<1> QED
    BY <1>1, <1>2, <1>3, <1>4, <1>5 DEF RowAccepted, row

\* A shipment keeps its owner or goes, and never returns to pending.
LEMMA KeptShipments ==
    ASSUME TypeOK, [Next]_vars, NEW s \in ShipmentId
    PROVE  /\ KeepsOwner(shipments[s], shipments'[s])
           /\ Live(shipments[s]) /\ Live(shipments'[s])
                 /\ shipments[s].status # "pending"
              => shipments'[s].status # "pending"
<1> DEFINE Goal ==
             /\ KeepsOwner(shipments[s], shipments'[s])
             /\ Live(shipments[s]) /\ Live(shipments'[s])
                   /\ shipments[s].status # "pending"
                => shipments'[s].status # "pending"
<1>1. shipments[s] = NULL \/ shipments[s] = GONE \/ Live(shipments[s])
    BY DEF Live
<1>2. CASE shipments'[s] = shipments[s]
    BY <1>1, <1>2 DEF KeepsOwner
<1>3. CASE shipments'[s] = GONE
    BY <1>3 DEF KeepsOwner, Live
<1>4. CASE shipments[s] = NULL
    BY <1>4 DEF KeepsOwner, Live
<1>5. ASSUME NEW r \in Request, WriteShipment(r), ~UNCHANGED tables,
             req[r].call.shipment = s
      PROVE  Goal
  <2> DEFINE c == req[r].call
             row == Patched(shipments[s], req[r].row, c)
  <2>1. /\ shipments[s] \in ShipmentRow /\ req[r].row \in ShipmentRow
        /\ row \in ShipmentRow /\ ~Refused(c, req[r].row)
        /\ shipments'[s] = row
    BY <1>5, WrittenShipment DEF TypeOK
  <2>2. /\ row.owner = shipments[s].owner
        /\ row.status = Column(shipments[s].status, req[r].row.status, c.status)
    BY <2>1, PatchedFields
  <2> HIDE DEF row
  <2>3. KeepsOwner(shipments[s], row)
    BY <2>1, <2>2, LiveShipmentRow DEF KeepsOwner
  <2>4. shipments[s].status # "pending" => row.status # "pending"
    BY <2>1, <2>2 DEF Column, Refused, is_valid_transition, is_terminal,
        ALLOWED_TRANSITIONS, ShipmentRow, ShipmentStatus
  <2> QED
    BY <2>1, <2>3, <2>4
<1>6. ASSUME NEW r \in Request, NEW k \in Kind, EraseFleet(r, k)
      PROVE  Goal
  <2>1. CASE shipments'[s] = [shipments[s] EXCEPT !.ref[k] = NULL]
             /\ s \in LiveShipments
    <3>1. shipments[s] \in ShipmentRow
        BY <2>1, LiveRows DEF LiveShipments
    <3>2. [shipments[s].ref EXCEPT ![k] = NULL] \in [Kind -> FleetId \cup {NULL}]
        BY <3>1 DEF ShipmentRow
    <3>3. /\ shipments'[s] \in ShipmentRow
          /\ shipments'[s].owner = shipments[s].owner
          /\ shipments'[s].status = shipments[s].status
        BY <2>1, <3>1, <3>2 DEF ShipmentRow
    <3> QED
        BY <3>1, <3>3, LiveShipmentRow DEF KeepsOwner
  <2> QED
    BY <1>2, <1>6, <2>1 DEF EraseFleet, tables
<1>7. ASSUME NEW r \in Request, Writes(r), ~UNCHANGED tables
      PROVE  \/ shipments'[s] = shipments[s] \/ shipments'[s] = GONE
             \/ shipments[s] = NULL
             \/ WriteShipment(r) /\ req[r].call.shipment = s
             \/ \E k \in Kind : EraseFleet(r, k)
  <2>1. CASE InsertShipment(r)
    BY <2>1 DEF InsertShipment, TypeOK, tables
  <2>2. CASE WriteShipment(r)
    BY <1>7, <2>2, WrittenShipment DEF TypeOK
  <2>3. CASE EraseShipment(r)
    BY <2>3 DEF EraseShipment, TypeOK, tables
  <2> QED
    BY <1>7, <2>1, <2>2, <2>3 DEF Writes, Assess, InsertFleet, WriteFleet, tables
<1> QED
    BY <1>2, <1>3, <1>4, <1>5, <1>6, <1>7, OnlyWriters DEF tables

\* A driver or vehicle keeps its owner or goes.
LEMMA KeptFleet ==
    ASSUME TypeOK, [Next]_vars, NEW k \in Kind, NEW f \in FleetId
    PROVE  KeepsOwner(fleet[k][f], fleet'[k][f])
<1>1. CASE fleet'[k][f] = fleet[k][f] \/ fleet'[k][f] = GONE
    BY <1>1 DEF KeepsOwner, Live
<1>2. CASE fleet[k][f] = NULL
    BY <1>2 DEF KeepsOwner
<1>3. ASSUME NEW r \in Request, NEW j \in Kind, WriteFleet(r, j)
      PROVE  KeepsOwner(fleet[k][f], fleet'[k][f])
  <2> DEFINE c == req[r].call
  <2>1. CASE j = k /\ c.id = f /\ ~UNCHANGED tables
    <3>1. /\ fleet'[k][f] \in FleetRow /\ fleet[k][f] \in FleetRow
          /\ fleet'[k][f].owner = fleet[k][f].owner
        BY <1>3, <2>1, WrittenFleet DEF TypeOK
    <3> QED
        BY <3>1, LiveFleetRow DEF KeepsOwner
  <2> QED
    BY <1>1, <1>3, <2>1 DEF WriteFleet, TypeOK, tables
<1>4. ASSUME NEW r \in Request, Writes(r)
      PROVE  \/ fleet'[k][f] = fleet[k][f] \/ fleet'[k][f] = GONE
             \/ fleet[k][f] = NULL
             \/ \E j \in Kind : WriteFleet(r, j)
  <2>1. ASSUME NEW j \in Kind, InsertFleet(r, j)
        PROVE  fleet'[k][f] = fleet[k][f] \/ fleet[k][f] = NULL
    BY <2>1 DEF InsertFleet, TypeOK, tables
  <2>2. ASSUME NEW j \in Kind, EraseFleet(r, j)
        PROVE  fleet'[k][f] = fleet[k][f] \/ fleet'[k][f] = GONE
    BY <2>2 DEF EraseFleet, TypeOK, tables
  <2> QED
    BY <1>4, <2>1, <2>2 DEF Writes, InsertShipment, WriteShipment,
        EraseShipment, Assess, tables
<1> QED
    BY <1>1, <1>2, <1>3, <1>4, OnlyWriters DEF tables
-----------------------------------------------------------------------------
\* A handler between its first look-up and its write, of a shipment or for one.
Looking(q) ==
    /\ q.call.op \in {"create_shipment", "update_shipment", "delete_shipment"}
    /\ q.step \in {"driver", "vehicle", "load", "write"}

Looked(q) ==
    /\ SnapshotHolds(q)
    /\ RefHolds(q, "driver", {"vehicle", "write"})
    /\ RefHolds(q, "vehicle", {"write"})

\* A row that was the caller's stays so, or is gone.
LEMMA BelongedKept ==
    ASSUME NEW old, NEW new, NEW u, Belonged(old, u), KeepsOwner(old, new)
    PROVE  Belonged(new, u)
    BY SentinelAssumption DEF Belonged, KeepsOwner, Live

\* A reference that is given is an id.
LEMMA GivenRef ==
    ASSUME NEW c \in CreateShipmentCall \cup UpdateShipmentCall, NEW k \in Kind,
           Given(c, k)
    PROVE  c.ref[k] \in FleetId
    BY DEF CreateShipmentCall, UpdateShipmentCall, Given

\* What another request does cannot make a look-up wrong.
LEMMA LookedKept ==
    ASSUME TypeOK, [Next]_vars, NEW p \in Request, Running(p), Looked(req[p]),
           req'[p] = req[p]
    PROVE  Looked(req[p])'
<1> DEFINE q == req[p]
           c == q.call
<1>1. c.op \in {"create_shipment", "update_shipment"} =>
        c \in CreateShipmentCall \cup UpdateShipmentCall
    BY BusySlot, CallShapes
<1>2. SnapshotHolds(q)'
  <2> SUFFICES ASSUME c.op \in {"update_shipment", "delete_shipment"},
                      q.step \in {"driver", "vehicle", "load", "write"}
               PROVE  /\ Belonged(shipments'[c.shipment], c.user)
                      /\ Live(shipments'[c.shipment]) /\ q.row.status # "pending"
                            => shipments'[c.shipment].status # "pending"
    BY DEF SnapshotHolds, Belonged, Live
  <2>1. c.shipment \in ShipmentId
    BY BusySlot, CallShapes DEF UpdateShipmentCall, OnShipmentCall
  <2>2. /\ Belonged(shipments[c.shipment], c.user)
        /\ Live(shipments[c.shipment]) /\ q.row.status # "pending"
              => shipments[c.shipment].status # "pending"
    BY DEF Looked, SnapshotHolds
  <2>3. Belonged(shipments'[c.shipment], c.user)
    BY <2>1, <2>2, KeptShipments, BelongedKept
  <2>4. Live(shipments'[c.shipment]) => Live(shipments[c.shipment])
    BY <2>1, <2>2, KeptShipments, SentinelAssumption
        DEF KeepsOwner, Belonged, Live
  <2> QED
    BY <2>1, <2>2, <2>3, <2>4, KeptShipments
<1>3. ASSUME NEW k \in Kind, NEW steps, RefHolds(q, k, steps)
      PROVE  (q.call.op \in {"create_shipment", "update_shipment"}
                /\ q.step \in steps /\ Given(q.call, k))
               => Belonged(fleet'[k][c.ref[k]], c.user)
    BY <1>1, <1>3, GivenRef, KeptFleet, BelongedKept DEF RefHolds
<1>4. RefHolds(q, "driver", {"vehicle", "write"})'
    BY <1>3 DEF Looked, RefHolds, Kind, Belonged, Live, Given
<1>5. RefHolds(q, "vehicle", {"write"})'
    BY <1>3 DEF Looked, RefHolds, Kind, Belonged, Live, Given
<1> QED
    BY <1>2, <1>4, <1>5 DEF Looked

\* What the request itself does, from one look-up to the next.
LEMMA NotLooking ==
    ASSUME NEW r \in Request, ~Looking(req'[r])
    PROVE  Looked(req[r])'
    BY DEF Looking, Looked, SnapshotHolds, RefHolds

\* A request that has answered relies on no look-up.
LEMMA AnswerNotLooking ==
    ASSUME TypeOK, NEW r \in Request, NEW code \in Answer, Reply(r, code)
    PROVE  Looked(req[r])'
<1>1. req'[r] = Answered(code)
    BY DEF Reply, TypeOK
<1>2. ~Looking(req'[r])
    BY <1>1 DEF Answered, Answer, Looking
<1> QED
    BY <1>2, NotLooking

\* PATCH loads the row it will judge.
LEMMA LookUpShipment ==
    ASSUME TypeOK, NEW r \in Request, SelectForUpdate(r)
    PROVE  Looked(req[r])'
<1> DEFINE c == req[r].call
           row == shipments[c.shipment]
           step == StepAfter(c, Kind)
<1>1. CASE Reply(r, "not_found")
    BY <1>1, AnswerNotLooking DEF Answer
<1>2. CASE Owned(c.shipment, c.user) /\ Load(r, step)
  <2>1. req[r] \in Busy
    BY BusySlot DEF SelectForUpdate, SelectShipment, At, Running, Step
  <2>2. req'[r] = [req[r] EXCEPT !.step = step, !.row = row]
    BY <1>2 DEF Load, TypeOK
  <2> HIDE DEF step
  <2>3. req'[r].step = step /\ req'[r].call = c /\ req'[r].row = row
    BY <2>1, <2>2 DEF Busy
  <2>4. shipments' = shipments /\ fleet' = fleet
    BY DEF SelectForUpdate, SelectShipment, tables
  <2>5. SnapshotHolds(req[r])'
    BY <1>2, <2>3, <2>4 DEF SnapshotHolds, Owned, Belonged, Live
  <2>6. RefHolds(req[r], "driver", {"vehicle", "write"})'
    BY <2>3 DEF RefHolds, step, StepAfter, Kind, Given
  <2>7. RefHolds(req[r], "vehicle", {"write"})'
    BY <2>3 DEF RefHolds, step, StepAfter, Given
  <2> QED
    BY <2>5, <2>6, <2>7 DEF Looked
<1> QED
    BY <1>1, <1>2 DEF SelectForUpdate, SelectShipment

\* DELETE loads the row it has found pending.
LEMMA LookUpDeletable ==
    ASSUME TypeOK, NEW r \in Request, CheckDeletable(r)
    PROVE  Looked(req[r])'
<1> DEFINE c == req[r].call
           row == shipments[c.shipment]
<1>1. CASE \E code \in Answer : Reply(r, code)
    BY <1>1, AnswerNotLooking
<1>2. CASE Owned(c.shipment, c.user) /\ Load(r, "load")
  <2>1. req[r] \in Busy /\ c.op = "delete_shipment"
    BY BusySlot DEF CheckDeletable, At, Running, Step
  <2>2. req'[r].step = "load" /\ req'[r].call = c /\ req'[r].row = row
    BY <1>2, <2>1 DEF Load, TypeOK, Busy
  <2>3. shipments' = shipments
    BY DEF CheckDeletable, tables
  <2>4. SnapshotHolds(req[r])'
    BY <1>2, <2>2, <2>3 DEF SnapshotHolds, Owned, Belonged, Live
  <2> QED
    BY <2>1, <2>2, <2>4 DEF Looked, RefHolds
<1> QED
    BY <1>1, <1>2 DEF CheckDeletable, Answer

\* DELETE still holds the row while it loads the cascade.
LEMMA LookUpCascade ==
    ASSUME TypeOK, NEW r \in Request, Looked(req[r]), LoadCascade(r)
    PROVE  Looked(req[r])'
<1>1. req[r] \in Busy /\ req[r].call.op = "delete_shipment"
      /\ req[r].step = "load"
    BY BusySlot DEF LoadCascade, At, Running, Step
<1>2. req'[r].step = "write" /\ req'[r].call = req[r].call
      /\ req'[r].row = req[r].row
    BY <1>1 DEF LoadCascade, TypeOK, Busy
<1>3. SnapshotHolds(req[r])'
    BY <1>1, <1>2 DEF Looked, SnapshotHolds, LoadCascade, tables, Belonged, Live
<1> QED
    BY <1>1, <1>2, <1>3 DEF Looked, RefHolds

\* POST skips the look-ups of references that are not given.
LEMMA LookUpTracking ==
    ASSUME TypeOK, NEW r \in Request, CheckTracking(r)
    PROVE  Looked(req[r])'
<1> DEFINE c == req[r].call
           step == StepAfter(c, Kind)
<1>1. CASE Reply(r, "conflict")
    BY <1>1, AnswerNotLooking DEF Answer
<1>2. CASE Goto(r, step)
  <2>1. req[r] \in Busy
    BY BusySlot DEF CheckTracking, At, Running, Step
  <2> HIDE DEF step
  <2>2. req'[r].step = step /\ req'[r].call = c
    BY <1>2, <2>1 DEF Goto, TypeOK, Busy
  <2>3. SnapshotHolds(req[r])'
    BY <2>2 DEF SnapshotHolds, CheckTracking, At
  <2>4. RefHolds(req[r], "driver", {"vehicle", "write"})'
    BY <2>2 DEF RefHolds, step, StepAfter, Kind, Given
  <2>5. RefHolds(req[r], "vehicle", {"write"})'
    BY <2>2 DEF RefHolds, step, StepAfter, Given
  <2> QED
    BY <2>3, <2>4, <2>5 DEF Looked
<1> QED
    BY <1>1, <1>2 DEF CheckTracking

\* A reference is looked up among the caller's rows.
LEMMA LookUpRef ==
    ASSUME TypeOK, NEW r \in Request, Looked(req[r]), NEW k \in Kind, NEW next,
           \/ k = "driver" /\ next = StepAfter(req[r].call, {"vehicle"})
           \/ k = "vehicle" /\ next = "write",
           get_ref_or_404(r, k, next)
    PROVE  Looked(req[r])'
<1> DEFINE c == req[r].call
           f == c.ref[k]
<1>1. CASE Reply(r, "not_found")
    BY <1>1, AnswerNotLooking DEF Answer
<1>2. CASE f \in LiveFleet(k) /\ fleet[k][f].owner = c.user /\ Goto(r, next)
  <2>1. req[r] \in Busy /\ req[r].step = k
        /\ c.op \in {"create_shipment", "update_shipment"}
    BY BusySlot DEF get_ref_or_404, Running, Step, Kind
  <2>2. req'[r].step = next /\ req'[r].call = c /\ req'[r].row = req[r].row
    BY <1>2, <2>1 DEF Goto, TypeOK, Busy
  <2>3. shipments' = shipments /\ fleet' = fleet
    BY DEF get_ref_or_404, tables
  <2>4. SnapshotHolds(req[r])'
    BY <2>1, <2>2, <2>3 DEF Looked, SnapshotHolds, Belonged, Live, Kind
  <2>5. Belonged(fleet[k][f], c.user)
    BY <1>2 DEF Belonged, LiveFleet
  <2>6. RefHolds(req[r], "driver", {"vehicle", "write"})'
    <3>1. CASE k = "driver"
        BY <2>2, <2>3, <2>5, <3>1 DEF RefHolds, Belonged, Live
    <3>2. CASE k = "vehicle"
        BY <2>1, <2>2, <2>3, <3>2 DEF Looked, RefHolds, Belonged, Live, Given
    <3> QED
        BY <3>1, <3>2 DEF Kind
  <2>7. RefHolds(req[r], "vehicle", {"write"})'
    <3>1. CASE k = "driver"
        BY <2>2, <3>1 DEF RefHolds, StepAfter, Given
    <3>2. CASE k = "vehicle"
        BY <2>2, <2>3, <2>5, <3>2 DEF RefHolds, Belonged, Live
    <3> QED
        BY <3>1, <3>2 DEF Kind
  <2> QED
    BY <2>4, <2>6, <2>7 DEF Looked
<1> QED
    BY <1>1, <1>2 DEF get_ref_or_404

\* Every statement of the shipments router.
LEMMA OwnShipmentStep ==
    ASSUME TypeOK, NEW r \in Request, Looked(req[r]), ShipmentStep(r)
    PROVE  Looked(req[r])'
<1>1. CASE \E code \in Answer : Reply(r, code)
    BY <1>1, AnswerNotLooking
<1>2. req[r] \in Busy /\ req \in [Request -> Idle \cup Busy]
    BY BusySlot DEF ShipmentStep, SelectShipment, ReadRoute, CheckTracking,
        InsertShipment, Reread, SelectForUpdate, WriteShipment, CheckDeletable,
        LoadCascade, EraseShipment, Assess, RefreshAlert, get_driver_or_404,
        get_vehicle_or_404, get_ref_or_404, At, Running, Step, Kind, TypeOK
<1>3. CASE \/ SelectShipment(r, "get_shipment", "route")
           \/ SelectShipment(r, "evaluate_shipment", "assess")
  <2>1. CASE req'[r].call = req[r].call
    BY <1>3, <2>1, NotLooking DEF SelectShipment, At, Looking
  <2> QED
    BY <1>1, <1>2, <1>3, <2>1 DEF SelectShipment, Load, Busy, Answer
<1>4. CASE InsertShipment(r) \/ WriteShipment(r) \/ Assess(r)
  <2>1. CASE req'[r].step \in {"reread", "refresh"}
    BY <2>1, NotLooking DEF Looking
  <2> QED
    BY <1>1, <1>2, <1>4, <2>1 DEF InsertShipment, WriteShipment, Assess, Busy,
        Answer
<1>5. CASE \/ ReadRoute(r) \/ EraseShipment(r) \/ RefreshAlert(r)
           \/ \E op \in {"create_shipment", "update_shipment"} : Reread(r, op)
    BY <1>1, <1>5 DEF ReadRoute, EraseShipment, RefreshAlert, Reread, Answer
<1> QED
    BY <1>3, <1>4, <1>5, LookUpShipment, LookUpTracking, LookUpRef,
        LookUpDeletable, LookUpCascade
        DEF ShipmentStep, get_driver_or_404, get_vehicle_or_404, Kind

\* The drivers and vehicles routers look up no shipment or reference.
LEMMA OwnFleetStep ==
    ASSUME TypeOK, NEW r \in Request, NEW k \in Kind, FleetStep(r, k)
    PROVE  Looked(req[r])'
<1>1. CASE \E code \in Answer : Reply(r, code)
    BY <1>1, AnswerNotLooking
<1>2. /\ req[r] \in Busy /\ req \in [Request -> Idle \cup Busy]
      /\ req[r].call.op \in {"create", "get", "update", "delete"}
    BY BusySlot DEF FleetStep, CheckKey, InsertFleet, Refresh, get, SelectFleet,
        CheckNewKey, WriteFleet, SelectForDelete, CountActive, LoadReferencing,
        EraseFleet, OnKind, At, Running, Step, TypeOK
<1>3. CASE req'[r].call = req[r].call
    BY <1>2, <1>3, NotLooking DEF Looking
<1>4. CASE \/ CheckKey(r, k) \/ InsertFleet(r, k) \/ SelectFleet(r, k)
           \/ CheckNewKey(r, k) \/ WriteFleet(r, k)
    BY <1>1, <1>2, <1>3, <1>4 DEF CheckKey, InsertFleet, SelectFleet,
        CheckNewKey, WriteFleet, Goto, LoadFleet, Busy, Answer
<1>5. CASE \/ SelectForDelete(r, k) \/ CountActive(r, k)
           \/ LoadReferencing(r, k) \/ EraseFleet(r, k)
    BY <1>1, <1>2, <1>3, <1>5 DEF SelectForDelete, CountActive,
        LoadReferencing, EraseFleet, Goto, LoadFleet, Busy, Answer
<1>6. CASE get(r, k) \/ \E op \in {"create", "update"} : Refresh(r, op, k)
    BY <1>1, <1>6 DEF get, Refresh, Answer
<1> QED
    BY <1>4, <1>5, <1>6 DEF FleetStep

\* A step is a step of one request.
Steps(r) == (\E c \in Calls : Start(r, c)) \/ Handle(r) \/ Crash(r)

\* A step of one request leaves the locals of the others alone.
LEMMA OneRequest ==
    ASSUME TypeOK, NEW r \in Request, Steps(r), NEW p \in Request \ {r}
    PROVE  req'[p] = req[p]
<1>1. ASSUME ShipmentStep(r) PROVE req'[p] = req[p]
    BY <1>1 DEF ShipmentStep, SelectShipment, ReadRoute, CheckTracking,
        InsertShipment, Reread, SelectForUpdate, WriteShipment, CheckDeletable,
        LoadCascade, EraseShipment, Assess, RefreshAlert, get_driver_or_404,
        get_vehicle_or_404, get_ref_or_404, Load, Goto, Reply, TypeOK
<1>2. ASSUME NEW k \in Kind, FleetStep(r, k) PROVE req'[p] = req[p]
    BY <1>2 DEF FleetStep, CheckKey, InsertFleet, Refresh, get, SelectFleet,
        CheckNewKey, WriteFleet, SelectForDelete, CountActive, LoadReferencing,
        EraseFleet, LoadFleet, Goto, Reply, TypeOK
<1> QED
    BY <1>1, <1>2, HandleSteps DEF Steps, Start, Crash, Reply, TypeOK

\* LookupsHold is inductive, given the types.
LEMMA LookupsStep ==
    ASSUME TypeOK, LookupsHold, [Next]_vars
    PROVE  LookupsHold'
<1> SUFFICES ASSUME NEW p \in Request, Running(p)' PROVE Looked(req[p])'
    BY DEF LookupsHold, Looked
<1>1. ASSUME req'[p] = req[p] PROVE Looked(req[p])'
  <2>1. Running(p) /\ Looked(req[p])
    BY <1>1 DEF LookupsHold, Looked, Running
  <2> QED
    BY <1>1, <2>1, LookedKept
<1>2. ASSUME Handle(p) PROVE Looked(req[p])'
  <2>1. ASSUME ShipmentStep(p) PROVE Looked(req[p])'
    <3>1. Running(p)
        BY <2>1 DEF ShipmentStep, SelectShipment, ReadRoute, CheckTracking,
            InsertShipment, Reread, SelectForUpdate, WriteShipment,
            CheckDeletable, LoadCascade, EraseShipment, Assess, RefreshAlert,
            get_driver_or_404, get_vehicle_or_404, get_ref_or_404, At, Running,
            Step, Kind
    <3> QED
        BY <2>1, <3>1, OwnShipmentStep DEF LookupsHold, Looked
  <2> QED
    BY <1>2, <2>1, HandleSteps, OwnFleetStep
<1>3. ASSUME NEW c \in Calls, Start(p, c) PROVE Looked(req[p])'
  <2>1. req'[p].step \in {"check", "select"}
    BY <1>3 DEF Start, FirstStep, TypeOK
  <2> QED
    BY <2>1, NotLooking DEF Looking
<1>4. ASSUME Crash(p) PROVE Looked(req[p])'
    BY <1>4, AnswerNotLooking DEF Crash, Answer
<1>5. CASE UNCHANGED vars
    BY <1>1, <1>5 DEF vars
<1>6. ASSUME NEW r \in Request, Steps(r), r # p PROVE Looked(req[p])'
    BY <1>1, <1>6, OneRequest
<1> QED
    BY <1>2, <1>3, <1>4, <1>5, <1>6 DEF Next, Steps

\* Between a look-up and the write that relies on it, other requests can make
\* the row disappear and nothing else: LookupsHold, under any interleaving.
THEOREM LookupsCorrect == Spec => []LookupsHold
<1>1. StoreInit => LookupsHold
    BY DEF StoreInit, LookupsHold, Running, Answered, Step
<1> QED
    BY <1>1, LookupsStep, TypeCorrect, PTL DEF Spec
-----------------------------------------------------------------------------
\* One shipment's reference of one kind is sound.
RefOwned(row, k) ==
    row.ref[k] # NULL =>
        row.ref[k] \in LiveFleet(k) /\ fleet[k][row.ref[k]].owner = row.owner

\* A reference that was sound stays so while its target is not deleted.
LEMMA RefKept ==
    ASSUME TypeOK, [Next]_vars, NEW u, NEW k \in Kind, NEW f \in LiveFleet(k),
           fleet[k][f].owner = u, fleet'[k][f] # GONE
    PROVE  f \in LiveFleet(k)' /\ fleet'[k][f].owner = u
<1>1. f \in FleetId /\ Live(fleet[k][f])
    BY DEF LiveFleet
<1>2. KeepsOwner(fleet[k][f], fleet'[k][f])
    BY <1>1, KeptFleet
<1> QED
    BY <1>1, <1>2 DEF KeepsOwner, LiveFleet, Live

\* What the insert and the update store.
LEMMA InsertedRefs ==
    ASSUME TypeOK, LookupsHold, NEW r \in Request, InsertShipment(r),
           RefsExist(req[r].call.ref), NEW k \in Kind, NEW row,
           row.ref = req[r].call.ref, row.owner = req[r].call.user
    PROVE  RefOwned(row, k)
<1> DEFINE c == req[r].call
<1>1. Running(r) /\ req[r].step = "write" /\ c \in CreateShipmentCall
      /\ c.op = "create_shipment"
    BY BusySlot, CallShapes DEF InsertShipment, At, Running, Step
<1> SUFFICES ASSUME c.ref[k] # NULL
             PROVE  c.ref[k] \in LiveFleet(k) /\ fleet[k][c.ref[k]].owner = c.user
    BY DEF RefOwned
<1>2. c.ref[k] \in LiveFleet(k)
    BY DEF RefsExist
<1>3. Given(c, k)
    BY <1>1, SentinelAssumption DEF Given, CreateShipmentCall
<1>4. Belonged(fleet[k][c.ref[k]], c.user)
    BY <1>1, <1>3 DEF LookupsHold, RefHolds, Kind
<1> QED
    BY <1>2, <1>4 DEF Belonged, LiveFleet, Live

\* What the update stores was either stored or looked up.
LEMMA PatchedRefs ==
    ASSUME TypeOK, LookupsHold, RefsOwned, NEW r \in Request, WriteShipment(r),
           ~UNCHANGED tables, NEW k \in Kind
    PROVE  RefOwned(Patched(shipments[req[r].call.shipment], req[r].row,
                            req[r].call), k)
<1> DEFINE c == req[r].call
           s == c.shipment
           row == Patched(shipments[s], req[r].row, c)
<1>1. Running(r) /\ req[r].step = "write" /\ c.op = "update_shipment"
    BY DEF WriteShipment, At, Running, Step
<1>2. /\ shipments[s] \in ShipmentRow /\ req[r].row \in ShipmentRow
      /\ RefsExist(row.ref) /\ c \in UpdateShipmentCall
    BY WrittenShipment
<1>3. /\ row.owner = shipments[s].owner
      /\ row.ref[k] = Column(shipments[s].ref[k], req[r].row.ref[k], c.ref[k])
    BY <1>2, PatchedFields
<1> HIDE DEF row
<1> SUFFICES ASSUME row.ref[k] # NULL
             PROVE  fleet[k][row.ref[k]].owner = row.owner
    BY <1>2 DEF RefOwned, RefsExist, row
<1>4. row.ref[k] \in LiveFleet(k)
    BY <1>2 DEF RefsExist
<1>5. CASE row.ref[k] = shipments[s].ref[k]
  <2>1. s \in LiveShipments
    BY <1>2, LiveShipmentRow DEF LiveShipments, UpdateShipmentCall
  <2> QED
    BY <1>3, <1>5, <2>1 DEF RefsOwned
<1>6. CASE row.ref[k] = c.ref[k] /\ Given(c, k)
  <2>1. Belonged(fleet[k][c.ref[k]], c.user)
    BY <1>1, <1>6 DEF LookupsHold, RefHolds, Kind
  <2>2. Belonged(shipments[s], c.user)
    BY <1>1 DEF LookupsHold, SnapshotHolds
  <2>3. Live(shipments[s])
    BY <1>2, LiveShipmentRow
  <2> QED
    BY <1>3, <1>4, <1>6, <2>1, <2>2, <2>3 DEF Belonged, LiveFleet, Live
<1> QED
    BY <1>3, <1>5, <1>6 DEF Column, Given

\* Only a deletion makes a driver or vehicle disappear.
LEMMA FleetGoes ==
    ASSUME TypeOK, NEW r \in Request, Writes(r), NEW k \in Kind,
           NEW f \in LiveFleet(k), fleet'[k][f] = GONE
    PROVE  EraseFleet(r, k) /\ req[r].call.id = f
<1>1. f \in FleetId /\ fleet[k][f] # GONE /\ fleet[k][f] # NULL
    BY DEF LiveFleet, Live
<1>2. ASSUME NEW j \in Kind, InsertFleet(r, j) PROVE FALSE
  <2> DEFINE c == req[r].call
  <2>1. c \in CreateFleetCall
    BY <1>2, BusySlot, CallShapes DEF InsertFleet, OnKind, At, Running, Step
  <2>2. CASE TooLong(c)
    BY <1>1, <1>2, <2>2 DEF InsertFleet, tables
  <2>3. ASSUME ~TooLong(c)
        PROVE  [owner |-> c.user, key |-> c.key, label |-> c.label] # GONE
    BY <2>1, <2>3, SentinelAssumption
        DEF CreateFleetCall, PostedLabel, Kind, FleetRow, TooLong
  <2> QED
    BY <1>1, <1>2, <2>2, <2>3 DEF InsertFleet, TypeOK, tables
<1>3. ASSUME NEW j \in Kind, WriteFleet(r, j) PROVE FALSE
  <2>1. ~UNCHANGED tables
    BY <1>1 DEF tables
  <2>2. fleet'[k][f] \in FleetRow \/ fleet'[k][f] = fleet[k][f]
    BY <1>1, <1>3, <2>1, WrittenFleet DEF TypeOK
  <2> QED
    BY <1>1, <2>2, SentinelAssumption
<1>4. ASSUME NEW j \in Kind, EraseFleet(r, j) PROVE j = k /\ req[r].call.id = f
    BY <1>1, <1>4 DEF EraseFleet, TypeOK, tables
<1> QED
    BY <1>1, <1>2, <1>3, <1>4 DEF Writes, InsertShipment, WriteShipment,
        EraseShipment, Assess, tables

\* RefsOwned is inductive, given the types and the look-ups.
LEMMA RefsOwnedStep ==
    ASSUME TypeOK, LookupsHold, RefsOwned, [Next]_vars
    PROVE  RefsOwned'
<1> SUFFICES ASSUME NEW s \in ShipmentId, Live(shipments'[s]), NEW k \in Kind,
                    shipments'[s].ref[k] # NULL
             PROVE  /\ shipments'[s].ref[k] \in LiveFleet(k)'
                    /\ fleet'[k][shipments'[s].ref[k]].owner
                          = shipments'[s].owner
    BY DEF RefsOwned, LiveShipments, Live
<1> DEFINE f == shipments'[s].ref[k]
           u == shipments'[s].owner
<1>1. SUFFICES /\ f \in LiveFleet(k) /\ fleet[k][f].owner = u
               /\ fleet'[k][f] # GONE
    BY <1>1, RefKept
<1>2. ASSUME Live(shipments[s]), f = shipments[s].ref[k], u = shipments[s].owner
      PROVE  f \in LiveFleet(k) /\ fleet[k][f].owner = u
    BY <1>2 DEF RefsOwned, LiveShipments
<1>3. CASE UNCHANGED tables
  <2>1. fleet[k][f] # GONE
    BY <1>2, <1>3 DEF tables, LiveFleet, Live
  <2> QED
    BY <1>2, <1>3, <2>1 DEF tables
<1>4. ASSUME NEW r \in Request, Writes(r), ~UNCHANGED tables
      PROVE  /\ f \in LiveFleet(k) /\ fleet[k][f].owner = u
             /\ fleet'[k][f] # GONE
  <2>1. ASSUME f \in LiveFleet(k), fleet'[k][f] = GONE
        PROVE  EraseFleet(r, k) /\ req[r].call.id = f
    BY <1>4, <2>1, FleetGoes
  <2>2. CASE shipments'[s] = shipments[s] /\ \A j \in Kind : ~EraseFleet(r, j)
    BY <1>2, <2>1, <2>2
  <2>3. CASE InsertShipment(r) /\ shipments'[s] # shipments[s]
    <3> DEFINE c == req[r].call
               row == [owner |-> c.user, tracking |-> c.tracking,
                       status |-> "pending", ref |-> c.ref,
                       priority |-> c.priority]
    <3>1. RefsExist(c.ref) /\ shipments'[s] = row /\ fleet' = fleet
        BY <1>4, <2>3 DEF InsertShipment, TypeOK, tables
    <3>2. row.ref = c.ref /\ row.owner = c.user
        OBVIOUS
    <3> HIDE DEF row
    <3>3. RefOwned(row, k)
        BY <2>3, <3>1, <3>2, InsertedRefs
    <3> QED
        BY <3>1, <3>3 DEF RefOwned, LiveFleet, Live
  <2>4. CASE WriteShipment(r) /\ shipments'[s] # shipments[s]
    <3> DEFINE c == req[r].call
               row == Patched(shipments[c.shipment], req[r].row, c)
    <3>1. c.shipment = s /\ shipments'[s] = row /\ fleet' = fleet
        BY <1>4, <2>4, WrittenShipment DEF TypeOK
    <3>2. RefOwned(row, k)
        BY <1>4, <2>4, PatchedRefs
    <3> HIDE DEF row
    <3> QED
        BY <3>1, <3>2 DEF RefOwned, LiveFleet, Live
  <2>5. CASE EraseShipment(r) /\ shipments'[s] # shipments[s]
    BY <1>4, <2>5 DEF EraseShipment, TypeOK, tables, Live
  <2>6. ASSUME NEW j \in Kind, EraseFleet(r, j)
        PROVE  /\ f \in LiveFleet(k) /\ fleet[k][f].owner = u
               /\ fleet'[k][f] # GONE
    <3> DEFINE g == req[r].call.id
               cleared == req[r].seen \cap LiveShipments
    <3>1. /\ Referencing(j, g) \subseteq req[r].seen
          /\ shipments'[s] = IF s \in cleared
                              THEN [shipments[s] EXCEPT !.ref[j] = NULL]
                              ELSE shipments[s]
        BY <1>4, <2>6 DEF EraseFleet, tables
    <3>2. Live(shipments[s]) /\ shipments[s] \in ShipmentRow
        BY <3>1, LiveRows DEF LiveShipments
    <3>3. u = shipments[s].owner
        BY <3>1, <3>2 DEF ShipmentRow
    <3>4. /\ f = shipments[s].ref[k]
          /\ s \in cleared => j # k
        BY <3>1, <3>2 DEF ShipmentRow
    <3>5. f \in LiveFleet(k) /\ fleet[k][f].owner = u
        BY <1>2, <3>2, <3>3, <3>4
    <3>6. ASSUME fleet'[k][f] = GONE PROVE FALSE
      <4>1. j = k /\ g = f
        BY <1>4, <2>6, <3>5, <3>6 DEF EraseFleet, TypeOK, tables, LiveFleet, Live
      <4>2. s \in Referencing(j, g) /\ s \in LiveShipments
        BY <3>2, <3>4, <4>1 DEF Referencing, LiveShipments
      <4> QED
        BY <3>1, <3>4, <4>1, <4>2
    <3> QED
        BY <3>5, <3>6
  <2> QED
    BY <1>4, <2>2, <2>3, <2>4, <2>5, <2>6 DEF Writes, Assess, InsertFleet,
        WriteFleet, tables
<1> QED
    BY <1>3, <1>4, OnlyWriters

\* Every reference of every shipment is to a driver or vehicle that exists and
\* belongs to the shipment's owner: no foreign id and no dangling id can be
\* stored, however assignments, swaps and deletions overlap.
THEOREM ReferencesCorrect == Spec => []RefsOwned
<1>1. StoreInit => RefsOwned
    BY DEF StoreInit, RefsOwned, LiveShipments, Live
<1> QED
    BY <1>1, RefsOwnedStep, TypeCorrect, LookupsCorrect, PTL DEF Spec
-----------------------------------------------------------------------------
\* PulseFleet implements the lifecycle with the edges that races leave.
LEMMA StageOfRow ==
    ASSUME NEW row \in ShipmentRow
    PROVE  StageOf(row) = row.status /\ row.status \in ShipmentStatus
    BY SentinelAssumption DEF StageOf, ShipmentRow

\* Writing one row moves one shipment.
LEMMA MoveOne ==
    ASSUME TypeOK, NEW s \in ShipmentId, NEW row,
           shipments' = [shipments EXCEPT ![s] = row],
           \/ StageOf(row) = stages[s]
           \/ StageOf(row) \in Stages /\ <<stages[s], StageOf(row)>> \in RacingEdges
    PROVE  Racing!LifecycleNext \/ stages' = stages
<1>1. stages' = [stages EXCEPT ![s] = StageOf(row)]
    BY DEF stages, TypeOK
<1>2. CASE StageOf(row) = stages[s]
    BY <1>1, <1>2 DEF stages
<1>3. CASE StageOf(row) \in Stages /\ <<stages[s], StageOf(row)>> \in RacingEdges
  <2>1. Racing!Move(s)
    BY <1>1, <1>3 DEF Racing!Move
  <2> QED
    BY <2>1 DEF Racing!LifecycleNext
<1> QED
    BY <1>2, <1>3

\* A PATCH judged on a stale row moves the stored one along an edge, or not.
LEMMA PatchedEdge ==
    ASSUME TypeOK, LookupsHold, NEW r \in Request, WriteShipment(r),
           ~UNCHANGED tables
    PROVE  LET old == shipments[req[r].call.shipment]
               new == Patched(old, req[r].row, req[r].call)
           IN new.status = old.status \/ <<old.status, new.status>> \in RacingEdges
<1> DEFINE c == req[r].call
           loaded == req[r].row
           old == shipments[c.shipment]
           new == Patched(old, loaded, c)
<1>1. /\ old \in ShipmentRow /\ loaded \in ShipmentRow
      /\ ~Refused(c, loaded) /\ c \in UpdateShipmentCall
    BY WrittenShipment
<1>2. new.status = Column(old.status, loaded.status, c.status)
    BY <1>1, PatchedFields
<1>3. loaded.status # "pending" => old.status # "pending"
  <2>1. Live(old) /\ Running(r)
    BY <1>1, LiveShipmentRow DEF WriteShipment, At, Running, Step
  <2> QED
    BY <2>1 DEF LookupsHold, SnapshotHolds, WriteShipment, At
<1> HIDE DEF new
<1>4. \/ new.status = old.status
      \/ loaded.status = "pending" /\ new.status \in {"in_transit", "cancelled"}
      \/ loaded.status = "in_transit" /\ new.status \in {"delivered", "cancelled"}
    BY <1>1, <1>2 DEF Column, Refused, is_valid_transition, is_terminal,
        ALLOWED_TRANSITIONS, ShipmentRow, ShipmentStatus
<1>5. new.status = old.status \/ <<old.status, new.status>> \in RacingEdges
    BY <1>1, <1>3, <1>4 DEF RacingEdges, Moved, ALLOWED_TRANSITIONS,
        ShipmentStatus, ShipmentRow
<1> QED
    BY <1>5 DEF new

\* A step moves one shipment along an edge, or none.
LEMMA LifecycleStep ==
    ASSUME TypeOK, LookupsHold, [Next]_vars
    PROVE  Racing!LifecycleNext \/ stages' = stages
<1>1. ASSUME shipments' = shipments PROVE stages' = stages
    BY <1>1 DEF stages
<1>2. ASSUME NEW r \in Request, InsertShipment(r), shipments' # shipments
      PROVE  Racing!LifecycleNext \/ stages' = stages
  <2> DEFINE c == req[r].call
             row == [owner |-> c.user, tracking |-> c.tracking,
                     status |-> "pending", ref |-> c.ref,
                     priority |-> c.priority]
  <2>1. row \in ShipmentRow /\ row.status = "pending"
    <3>1. c \in CreateShipmentCall
        BY <1>2, BusySlot, CallShapes DEF InsertShipment, At, Running, Step
    <3> QED
        BY <3>1 DEF CreateShipmentCall, ShipmentRow, ShipmentStatus
  <2> HIDE DEF row
  <2>2. PICK s \in ShipmentId : /\ shipments[s] = NULL
                                /\ shipments' = [shipments EXCEPT ![s] = row]
    BY <1>2 DEF InsertShipment, tables, row
  <2>3. stages[s] = "unborn" /\ StageOf(row) = "pending"
    BY <2>1, <2>2, StageOfRow DEF stages, StageOf
  <2> QED
    BY <2>2, <2>3, MoveOne DEF RacingEdges, Stages, ShipmentStatus
<1>3. ASSUME NEW r \in Request, WriteShipment(r), shipments' # shipments
      PROVE  Racing!LifecycleNext \/ stages' = stages
  <2> DEFINE c == req[r].call
             s == c.shipment
             row == Patched(shipments[s], req[r].row, c)
  <2>1. /\ s \in ShipmentId /\ shipments[s] \in ShipmentRow
        /\ row \in ShipmentRow
        /\ shipments' = [shipments EXCEPT ![s] = row]
    BY <1>3, WrittenShipment DEF UpdateShipmentCall, tables
  <2>2. \/ row.status = shipments[s].status
        \/ <<shipments[s].status, row.status>> \in RacingEdges
    BY <1>3, PatchedEdge DEF tables
  <2> HIDE DEF row
  <2>3. /\ stages[s] = shipments[s].status /\ StageOf(row) = row.status
        /\ row.status \in ShipmentStatus
    BY <2>1, StageOfRow DEF stages
  <2> QED
    BY <2>1, <2>2, <2>3, MoveOne DEF Stages
<1>4. ASSUME NEW r \in Request, EraseShipment(r), shipments' # shipments
      PROVE  Racing!LifecycleNext \/ stages' = stages
  <2> DEFINE s == req[r].call.shipment
  <2>1. s \in ShipmentId /\ Running(r)
    BY <1>4, BusySlot, CallShapes
        DEF EraseShipment, At, Running, Step, OnShipmentCall
  <2>2. shipments' = [shipments EXCEPT ![s] = GONE]
    BY <1>4 DEF EraseShipment, tables
  <2>3. shipments[s] = GONE \/ shipments[s] \in ShipmentRow
    BY <1>4, <2>1, LiveRows
        DEF LookupsHold, SnapshotHolds, Belonged, EraseShipment, At
  <2>4. StageOf(GONE) = "gone" /\ stages[s] = StageOf(shipments[s])
    BY <2>1, SentinelAssumption DEF StageOf, stages
  <2>5. StageOf(GONE) = stages[s] \/ <<stages[s], StageOf(GONE)>> \in RacingEdges
    BY <2>3, <2>4, StageOfRow DEF RacingEdges
  <2> QED
    BY <2>1, <2>2, <2>4, <2>5, MoveOne DEF Stages
<1>5. ASSUME NEW r \in Request, NEW k \in Kind, EraseFleet(r, k),
             shipments' # shipments
      PROVE  stages' = stages
  <2>1. ASSUME NEW s \in ShipmentId
        PROVE  StageOf(shipments'[s]) = StageOf(shipments[s])
    <3>1. CASE shipments'[s] = shipments[s]
        BY <3>1
    <3>2. CASE s \in LiveShipments
               /\ shipments'[s] = [shipments[s] EXCEPT !.ref[k] = NULL]
        <4>1. shipments[s] \in ShipmentRow
            BY <3>2, LiveRows DEF LiveShipments
        <4>2. [shipments[s].ref EXCEPT ![k] = NULL]
                \in [Kind -> FleetId \cup {NULL}]
            BY <4>1 DEF ShipmentRow
        <4>3. /\ shipments'[s] \in ShipmentRow
              /\ shipments'[s].status = shipments[s].status
            BY <3>2, <4>1, <4>2 DEF ShipmentRow
        <4> QED
            BY <4>1, <4>3, StageOfRow
    <3> QED
        BY <1>5, <3>1, <3>2 DEF EraseFleet, tables
  <2> QED
    BY <2>1 DEF stages
<1> QED
    BY <1>1, <1>2, <1>3, <1>4, <1>5, OnlyWriters DEF Writes, Assess,
        InsertFleet, WriteFleet, tables

\* However requests overlap, a shipment is inserted pending, never returns to
\* pending, is never delivered straight from it, and once deleted stays so: the
\* status rules keep this much when they are judged on a stale row.
THEOREM RacingLifecycleCorrect == Spec => RacingLifecycle
<1>1. StoreInit => Racing!LifecycleInit
    BY DEF StoreInit, Racing!LifecycleInit, stages, StageOf
<1>2. TypeOK /\ LookupsHold /\ [Next]_vars => [Racing!LifecycleNext]_stages
    BY LifecycleStep
<1> QED
    BY <1>1, <1>2, TypeCorrect, LookupsCorrect, PTL
        DEF Spec, RacingLifecycle, Racing!LifecycleSpec
-----------------------------------------------------------------------------
\* How a step may change a shipment row that stays: its tracking number, like
\* its owner, is never written again.
LEMMA ShipmentsWritten ==
    ASSUME TypeOK, NEW r \in Request, Writes(r), ~UNCHANGED tables,
           NEW s \in ShipmentId
    PROVE  \/ shipments'[s] = shipments[s]
           \/ InsertShipment(r) /\ shipments[s] = NULL /\ Live(shipments'[s])
           \/ shipments'[s] = GONE /\ EraseShipment(r)
           \/ /\ Live(shipments[s]) /\ Live(shipments'[s])
              /\ shipments'[s].tracking = shipments[s].tracking
              /\ WriteShipment(r) \/ \E k \in Kind : EraseFleet(r, k)
<1>1. CASE InsertShipment(r)
  <2> DEFINE c == req[r].call
             row == [owner |-> c.user, tracking |-> c.tracking,
                     status |-> "pending", ref |-> c.ref,
                     priority |-> c.priority]
  <2>1. c \in CreateShipmentCall
    BY <1>1, BusySlot, CallShapes DEF InsertShipment, At, Running, Step
  <2>2. row \in ShipmentRow
    BY <2>1 DEF CreateShipmentCall, ShipmentRow, ShipmentStatus
  <2> HIDE DEF row
  <2>3. Live(row)
    BY <2>2, LiveShipmentRow
  <2>4. \E t \in ShipmentId : /\ shipments[t] = NULL
                              /\ shipments' = [shipments EXCEPT ![t] = row]
    BY <1>1 DEF InsertShipment, tables, row
  <2> QED
    BY <1>1, <2>3, <2>4 DEF TypeOK
<1>2. CASE WriteShipment(r)
  <2> DEFINE c == req[r].call
             row == Patched(shipments[c.shipment], req[r].row, c)
  <2>1. /\ shipments[c.shipment] \in ShipmentRow /\ row \in ShipmentRow
        /\ shipments' = [shipments EXCEPT ![c.shipment] = row]
    BY <1>2, WrittenShipment
  <2>2. row.tracking = shipments[c.shipment].tracking
    BY <2>1, PatchedFields
  <2> HIDE DEF row
  <2> QED
    BY <1>2, <2>1, <2>2, LiveShipmentRow DEF TypeOK
<1>3. CASE EraseShipment(r)
    BY <1>3 DEF EraseShipment, TypeOK, tables
<1>4. ASSUME NEW k \in Kind, EraseFleet(r, k)
      PROVE  \/ shipments'[s] = shipments[s]
             \/ /\ Live(shipments[s]) /\ Live(shipments'[s])
                /\ shipments'[s].tracking = shipments[s].tracking
  <2>1. CASE s \in LiveShipments
             /\ shipments'[s] = [shipments[s] EXCEPT !.ref[k] = NULL]
    <3>1. shipments[s] \in ShipmentRow
        BY <2>1, LiveRows DEF LiveShipments
    <3>2. [shipments[s].ref EXCEPT ![k] = NULL] \in [Kind -> FleetId \cup {NULL}]
        BY <3>1 DEF ShipmentRow
    <3>3. /\ shipments'[s] \in ShipmentRow
          /\ shipments'[s].tracking = shipments[s].tracking
        BY <2>1, <3>1, <3>2 DEF ShipmentRow
    <3> QED
        BY <3>1, <3>3, LiveShipmentRow
  <2> QED
    BY <1>4, <2>1 DEF EraseFleet, tables
<1> QED
    BY <1>1, <1>2, <1>3, <1>4 DEF Writes, Assess, InsertFleet, WriteFleet, tables

\* Routes and alerts follow their shipment.
LEMMA NoOrphansStep ==
    ASSUME TypeOK, NoOrphans, [Next]_vars
    PROVE  NoOrphans'
<1>1. CASE UNCHANGED tables
    BY <1>1 DEF NoOrphans, LiveShipments, Live, tables
<1>2. ASSUME NEW r \in Request, Writes(r), ~UNCHANGED tables PROVE NoOrphans'
  <2>1. CASE InsertShipment(r)
    <3>1. PICK s \in ShipmentId :
             /\ shipments[s] = NULL /\ routes' = routes \cup {s}
             /\ \A t \in ShipmentId \ {s} : shipments'[t] = shipments[t]
             /\ shipments'[s] # shipments[s]
             /\ alerts' = alerts
      <4> DEFINE row == [owner |-> req[r].call.user,
                         tracking |-> req[r].call.tracking,
                         status |-> "pending", ref |-> req[r].call.ref,
                         priority |-> req[r].call.priority]
      <4>1. row \in ShipmentRow
        <5>1. req[r].call \in CreateShipmentCall
            BY <2>1, BusySlot, CallShapes DEF InsertShipment, At, Running, Step
        <5> QED
            BY <5>1 DEF CreateShipmentCall, ShipmentRow, ShipmentStatus
      <4> HIDE DEF row
      <4>2. row # NULL
        BY <4>1, SentinelAssumption
      <4> QED
        BY <1>2, <2>1, <4>2 DEF InsertShipment, tables, row, TypeOK
    <3>2. Live(shipments'[s])
        BY <1>2, <2>1, <3>1, ShipmentsWritten DEF InsertShipment,
            EraseShipment, At, Live
    <3>3. LiveShipments' = LiveShipments \cup {s}
        BY <3>1, <3>2 DEF LiveShipments, Live
    <3> QED
        BY <3>1, <3>3 DEF NoOrphans, Live
  <2>2. CASE WriteShipment(r) \/ \E k \in Kind : EraseFleet(r, k)
    <3>1. \A s \in ShipmentId : Live(shipments'[s]) <=> Live(shipments[s])
        BY <1>2, <2>2, ShipmentsWritten DEF WriteShipment, EraseFleet,
            InsertShipment, EraseShipment, At, OnKind
    <3>2. UNCHANGED <<routes, alerts>>
        BY <2>2 DEF WriteShipment, EraseFleet, tables
    <3> QED
        BY <3>1, <3>2 DEF NoOrphans, LiveShipments, Live
  <2>3. CASE EraseShipment(r)
    <3> DEFINE s == req[r].call.shipment
               seen == req[r].seen
    <3>1. /\ AlertsOf(s) \subseteq seen
          /\ shipments' = [shipments EXCEPT ![s] = GONE]
          /\ routes' = routes \ {s}
          /\ alerts' = [a \in AlertId |->
                          IF a \in seen THEN GONE ELSE alerts[a]]
        BY <1>2, <2>3 DEF EraseShipment, tables
    <3>2. LiveShipments' = LiveShipments \ {s}
        BY <3>1 DEF LiveShipments, Live, TypeOK
    <3>3. ASSUME NEW a \in AlertId, Live(alerts'[a])
          PROVE  alerts'[a] \in LiveShipments'
        BY <3>1, <3>2, <3>3 DEF NoOrphans, AlertsOf, Live
    <3> QED
        BY <3>1, <3>2, <3>3 DEF NoOrphans, Live
  <2>4. CASE Assess(r)
    <3> DEFINE s == req[r].call.shipment
    <3>1. s \in ShipmentId
        BY <2>4, BusySlot, CallShapes DEF Assess, At, Running, Step,
            OnShipmentCall
    <3>2. /\ Live(shipments[s])
          /\ \E a \in AlertId : alerts' = [alerts EXCEPT ![a] = s]
          /\ UNCHANGED <<shipments, routes>>
        BY <1>2, <2>4 DEF Assess, tables
    <3> QED
        BY <3>1, <3>2 DEF NoOrphans, LiveShipments, Live, TypeOK
  <2>5. CASE UNCHANGED <<shipments, routes, alerts>>
    BY <2>5 DEF NoOrphans, LiveShipments, Live
  <2> QED
    BY <1>2, <2>1, <2>2, <2>3, <2>4, <2>5 DEF Writes, InsertFleet, WriteFleet,
        tables
<1> QED
    BY <1>1, <1>2, OnlyWriters

\* The shipments that exist are the ones with a route, and every alert has its
\* shipment, although both are written and deleted by requests that overlap.
THEOREM OrphansCorrect == Spec => []NoOrphans
<1>1. StoreInit => NoOrphans
    BY DEF StoreInit, NoOrphans, LiveShipments, Live
<1> QED
    BY <1>1, NoOrphansStep, TypeCorrect, PTL DEF Spec
-----------------------------------------------------------------------------
\* Two rows with one key: only an insert, or an update of the key, can add it,
\* and both are refused when another row has it.
LEMMA UniqueTrackingStep ==
    ASSUME TypeOK, UniqueKeys, [Next]_vars,
           NEW s \in LiveShipments', NEW t \in LiveShipments',
           shipments'[s].tracking = shipments'[t].tracking
    PROVE  s = t
<1>1. /\ s \in ShipmentId /\ Live(shipments'[s])
      /\ t \in ShipmentId /\ Live(shipments'[t])
    BY DEF LiveShipments, Live
<1>2. ASSUME NEW x \in {s, t}, shipments'[x] = shipments[x]
      PROVE  x \in LiveShipments
    BY <1>1, <1>2 DEF LiveShipments, Live
<1>3. CASE UNCHANGED tables
    BY <1>2, <1>3 DEF UniqueKeys, tables
<1>4. ASSUME NEW r \in Request, Writes(r), ~UNCHANGED tables PROVE s = t
  <2>1. CASE InsertShipment(r)
    <3> DEFINE c == req[r].call
               row == [owner |-> c.user, tracking |-> c.tracking,
                       status |-> "pending", ref |-> c.ref,
                       priority |-> c.priority]
    <3>1. row.tracking = c.tracking
        OBVIOUS
    <3> HIDE DEF row
    <3>2. PICK new \in ShipmentId :
             /\ ~TrackingTaken(c.tracking)
             /\ shipments' = [shipments EXCEPT ![new] = row]
        BY <1>4, <2>1 DEF InsertShipment, tables, row
    <3>3. ASSUME NEW x \in {s, t}, x # new
          PROVE  x \in LiveShipments /\ shipments'[x] = shipments[x]
        BY <1>1, <3>2, <3>3 DEF TypeOK, LiveShipments, Live
    <3>4. shipments'[new].tracking = c.tracking
        BY <3>1, <3>2 DEF TypeOK
    <3> QED
        BY <3>2, <3>3, <3>4 DEF TrackingTaken, UniqueKeys
  <2>2. CASE ~InsertShipment(r)
    <3>1. ASSUME NEW x \in {s, t}
          PROVE  /\ x \in LiveShipments
                 /\ shipments'[x].tracking = shipments[x].tracking
        BY <1>1, <1>2, <1>4, <2>2, ShipmentsWritten DEF LiveShipments, Live
    <3> QED
        BY <3>1 DEF UniqueKeys
  <2> QED
    BY <2>1, <2>2
<1> QED
    BY <1>3, <1>4, OnlyWriters

LEMMA UniqueFleetStep ==
    ASSUME TypeOK, UniqueKeys, [Next]_vars, NEW k \in Kind,
           NEW f \in LiveFleet(k)', NEW g \in LiveFleet(k)',
           fleet'[k][f].key = fleet'[k][g].key
    PROVE  f = g
<1>1. /\ f \in FleetId /\ Live(fleet'[k][f])
      /\ g \in FleetId /\ Live(fleet'[k][g])
    BY DEF LiveFleet, Live
<1>2. ASSUME NEW x \in {f, g}, fleet'[k][x] = fleet[k][x]
      PROVE  x \in LiveFleet(k)
    BY <1>1, <1>2 DEF LiveFleet, Live
<1>3. CASE fleet'[k] = fleet[k]
    BY <1>2, <1>3 DEF UniqueKeys
<1>4. ASSUME NEW r \in Request, NEW j \in Kind, InsertFleet(r, j),
             fleet' # fleet
      PROVE  f = g
  <2> DEFINE c == req[r].call
             row == [owner |-> c.user, key |-> c.key, label |-> c.label]
  <2>1. row.key = c.key
    OBVIOUS
  <2> HIDE DEF row
  <2>2. PICK new \in FleetId : /\ ~KeyTaken(j, c.key)
                               /\ fleet' = [fleet EXCEPT ![j][new] = row]
    BY <1>4 DEF InsertFleet, tables, row
  <2>3. CASE j = k
    <3>1. ASSUME NEW x \in {f, g}, x # new
          PROVE  x \in LiveFleet(k) /\ fleet'[k][x] = fleet[k][x]
        BY <1>1, <2>2, <2>3, <3>1 DEF TypeOK, LiveFleet, Live
    <3>2. fleet'[k][new].key = c.key
        BY <2>1, <2>2, <2>3 DEF TypeOK
    <3> QED
        BY <2>2, <2>3, <3>1, <3>2 DEF KeyTaken, UniqueKeys
  <2> QED
    BY <1>3, <2>2, <2>3 DEF TypeOK
<1>5. ASSUME NEW r \in Request, NEW j \in Kind, WriteFleet(r, j),
             fleet' # fleet
      PROVE  f = g
  <2> DEFINE c == req[r].call
             h == c.id
             row == Edited(fleet[j][h], req[r].row, c)
  <2>1. ~UNCHANGED tables
    BY <1>5 DEF tables
  <2>2. /\ h \in FleetId /\ FleetRowAccepted(j, h, row)
        /\ fleet' = [fleet EXCEPT ![j][h] = row]
    BY <1>5, <2>1, WrittenFleet
  <2> HIDE DEF row
  <2>3. CASE j = k
    <3>1. ASSUME NEW x \in {f, g}, x # h
          PROVE  x \in LiveFleet(k) /\ fleet'[k][x] = fleet[k][x]
        BY <1>1, <2>2, <2>3, <3>1 DEF TypeOK, LiveFleet, Live
    <3>2. fleet'[k][h] = row
        BY <2>2, <2>3 DEF TypeOK
    <3> QED
        BY <2>2, <2>3, <3>1, <3>2 DEF FleetRowAccepted, UniqueKeys
  <2> QED
    BY <1>3, <2>2, <2>3 DEF TypeOK
<1>6. ASSUME NEW r \in Request, NEW j \in Kind, EraseFleet(r, j)
      PROVE  f = g
  <2>1. ASSUME NEW x \in {f, g} PROVE fleet'[k][x] = fleet[k][x]
    BY <1>1, <1>6, <2>1 DEF EraseFleet, TypeOK, tables, Live
  <2> QED
    BY <1>2, <2>1 DEF UniqueKeys
<1> QED
    BY <1>3, <1>4, <1>5, <1>6, OnlyWriters DEF Writes, InsertShipment,
        WriteShipment, EraseShipment, Assess, tables

\* No two shipments share a tracking number and no two drivers or vehicles a
\* license or plate number, however many handlers looked it up and found it
\* free before any of them wrote it.
THEOREM KeysCorrect == Spec => []UniqueKeys
<1>1. StoreInit => UniqueKeys
    BY DEF StoreInit, UniqueKeys, LiveShipments, LiveFleet, Live
<1>2. TypeOK /\ UniqueKeys /\ [Next]_vars => UniqueKeys'
  <2> SUFFICES ASSUME TypeOK, UniqueKeys, [Next]_vars PROVE UniqueKeys'
    OBVIOUS
  <2>1. \A s, t \in LiveShipments' :
           shipments'[s].tracking = shipments'[t].tracking => s = t
    BY UniqueTrackingStep
  <2>2. \A k \in Kind : \A f, g \in LiveFleet(k)' :
           fleet'[k][f].key = fleet'[k][g].key => f = g
    BY UniqueFleetStep
  <2> QED
    BY <2>1, <2>2 DEF UniqueKeys
<1> QED
    BY <1>1, <1>2, TypeCorrect, PTL DEF Spec
=============================================================================
