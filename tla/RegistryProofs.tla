---------------------------- MODULE RegistryProofs ----------------------------
(***************************************************************************)
(* PulseFleet implements Registry: the statements of a handler add up to   *)
(* one operation of its caller on the rows as they are when it commits.    *)
(* With overlapping requests the operation may break the rules about the   *)
(* status and clear too much; with one request it breaks none.             *)
(***************************************************************************)
EXTENDS RequestProofs

\* A caller's rows, in the terms of the tables.
OwnShipments(u) == {s \in LiveShipments : shipments[s].owner = u}
OwnRows(k, u) == {f \in LiveFleet(k) : fleet[k][f].owner = u}

LEMMA SameShipments ==
    ASSUME TypeOK, NEW u
    PROVE  /\ Sequential!Own(shipments, u) = OwnShipments(u)
           /\ Overlapping!Own(shipments, u) = OwnShipments(u)
    BY DEF TypeOK, OwnShipments, LiveShipments, Live, Sequential!Own,
        Sequential!Live, Overlapping!Own, Overlapping!Live

LEMMA SameRows ==
    ASSUME TypeOK, NEW u, NEW k \in Kind
    PROVE  /\ Sequential!Own(fleet[k], u) = OwnRows(k, u)
           /\ Overlapping!Own(fleet[k], u) = OwnRows(k, u)
    BY DEF TypeOK, OwnRows, LiveFleet, Live, Sequential!Own,
        Sequential!Live, Overlapping!Own, Overlapping!Live

\* References to the caller's rows.
LEMMA SameRefs ==
    ASSUME TypeOK, NEW u, NEW ref \in [Kind -> FleetId \cup {NULL}],
           \A k \in Kind : ref[k] # NULL => ref[k] \in OwnRows(k, u)
    PROVE  ref \in Sequential!OwnRefs(u) /\ ref \in Overlapping!OwnRefs(u)
    BY SameRows DEF Sequential!OwnRefs, Overlapping!OwnRefs

LEMMA SameHolders ==
    ASSUME NEW k, NEW f
    PROVE  /\ Sequential!Holders(k, f) = Referencing(k, f)
           /\ Overlapping!Holders(k, f) = Referencing(k, f)
    BY DEF Referencing, LiveShipments, Live, Sequential!Holders,
        Sequential!Live, Overlapping!Holders, Overlapping!Live

\* Every call has an account.
LEMMA CallUser ==
    ASSUME TypeOK, NEW r \in Request, Running(r)
    PROVE  req[r].call.user \in User
<1>1. req[r].call \in Call
    BY BusySlot
<1> QED
    BY <1>1 DEF Call, CreateShipmentCall, UpdateShipmentCall, OnShipmentCall,
        CreateFleetCall, UpdateFleetCall, OnFleetCall
-----------------------------------------------------------------------------
(* The operations that are the same with and without overlap                *)

\* The flush of POST /shipments.
LEMMA Posted ==
    ASSUME TypeOK, LookupsHold, NEW r \in Request, InsertShipment(r),
           ~UNCHANGED tables
    PROVE  /\ Sequential!PostShipment(req[r].call.user)
           /\ Overlapping!PostShipment(req[r].call.user)
<1> DEFINE c == req[r].call
           u == c.user
<1>1. c \in CreateShipmentCall
    BY BusySlot, CallShapes DEF InsertShipment, At, Running, Step
<1>2. PICK s \in ShipmentId :
         /\ shipments[s] = NULL
         /\ shipments' = [shipments EXCEPT ![s] =
               [owner |-> u, tracking |-> c.tracking, status |-> "pending",
                ref |-> c.ref, priority |-> c.priority]]
         /\ ~TrackingTaken(c.tracking) /\ RefsExist(c.ref)
         /\ UNCHANGED <<alerts, fleet>>
    BY DEF InsertShipment, tables
<1>3. /\ c.tracking \in Tracking /\ c.priority \in Priority
      /\ c.ref \in [Kind -> FleetId \cup {NULL}]
    BY <1>1 DEF CreateShipmentCall
<1>4. ASSUME NEW k \in Kind, c.ref[k] # NULL
      PROVE  c.ref[k] \in OwnRows(k, u)
  <2> DEFINE row == [owner |-> u, ref |-> c.ref]
  <2>1. row.owner = u /\ row.ref = c.ref
    OBVIOUS
  <2> HIDE DEF row
  <2>2. RefOwned(row, k)
    BY <1>2, <2>1, InsertedRefs
  <2> QED
    BY <1>4, <2>1, <2>2 DEF RefOwned, OwnRows
<1>5. c.ref \in Sequential!OwnRefs(u) /\ c.ref \in Overlapping!OwnRefs(u)
    BY <1>3, <1>4, SameRefs
<1>6. \A o \in ShipmentId : Live(shipments[o]) =>
         shipments[o].tracking # c.tracking
    BY <1>2 DEF TrackingTaken, LiveShipments
<1> QED
    BY <1>2, <1>3, <1>5, <1>6 DEF Live, Sequential!PostShipment,
        Sequential!Live, Overlapping!PostShipment, Overlapping!Live

\* The alert of POST /shipments/{id}/evaluate.
LEMMA Evaluated ==
    ASSUME TypeOK, OwnersHeld, NEW r \in Request, Assess(r), ~UNCHANGED tables
    PROVE  /\ Sequential!EvaluateShipment(req[r].call.user)
           /\ Overlapping!EvaluateShipment(req[r].call.user)
<1> DEFINE c == req[r].call
           s == c.shipment
<1>1. s \in ShipmentId /\ Running(r)
    BY BusySlot, CallShapes DEF Assess, At, Running, Step, OnShipmentCall
<1>2. PICK a \in AlertId : /\ alerts[a] = NULL /\ Live(shipments[s])
                           /\ alerts' = [alerts EXCEPT ![a] = s]
                           /\ UNCHANGED <<shipments, fleet>>
    BY DEF Assess, tables
<1>3. Belonged(shipments[s], c.user)
    BY <1>1 DEF OwnersHeld, Held, Assess, At
<1>4. s \in OwnShipments(c.user)
    BY <1>1, <1>2, <1>3 DEF Belonged, OwnShipments, LiveShipments, Live
<1> QED
    BY <1>2, <1>4, SameShipments
        DEF Sequential!EvaluateShipment, Overlapping!EvaluateShipment

\* The flush of POST /drivers and POST /vehicles.
LEMMA PostedRow ==
    ASSUME TypeOK, NEW r \in Request, NEW k \in Kind, InsertFleet(r, k),
           ~UNCHANGED tables
    PROVE  /\ Sequential!PostFleet(req[r].call.user)
           /\ Overlapping!PostFleet(req[r].call.user)
<1> DEFINE c == req[r].call
<1>1. c \in CreateFleetCall
    BY BusySlot, CallShapes DEF InsertFleet, OnKind, At, Running, Step
<1>2. PICK f \in FleetId :
         /\ fleet[k][f] = NULL /\ ~KeyTaken(k, c.key) /\ ~TooLong(c)
         /\ fleet' = [fleet EXCEPT ![k][f] =
                [owner |-> c.user, key |-> c.key, label |-> c.label]]
         /\ UNCHANGED <<shipments, alerts>>
    BY DEF InsertFleet, tables
<1>3. c.key \in FleetKey \ Long /\ c.label \in Label \ Long
    BY <1>1, <1>2 DEF CreateFleetCall, PostedLabel, Kind, TooLong
<1>4. Sequential!KeyFree(k, c.key, f) /\ Overlapping!KeyFree(k, c.key, f)
    BY <1>2 DEF KeyTaken, LiveFleet, Live, Sequential!KeyFree,
        Sequential!Live, Overlapping!KeyFree, Overlapping!Live
<1> QED
    BY <1>2, <1>3, <1>4 DEF Sequential!PostFleet, Overlapping!PostFleet

\* The flush of PATCH /drivers/{id} and PATCH /vehicles/{id}.
LEMMA PatchedRow ==
    ASSUME TypeOK, OwnersHeld, NEW r \in Request, NEW k \in Kind,
           WriteFleet(r, k), ~UNCHANGED tables
    PROVE  /\ Sequential!PatchFleet(req[r].call.user)
           /\ Overlapping!PatchFleet(req[r].call.user)
<1> DEFINE c == req[r].call
           row == Edited(fleet[k][c.id], req[r].row, c)
<1>1. /\ Running(r) /\ c.op = "update" /\ req[r].step = "write" /\ c.kind = k
    BY DEF WriteFleet, OnKind, At, Running, Step
<1>2. /\ c.id \in FleetId /\ fleet[k][c.id] \in FleetRow /\ row \in FleetRow
      /\ row.owner = fleet[k][c.id].owner /\ FleetRowAccepted(k, c.id, row)
      /\ fleet' = [fleet EXCEPT ![k][c.id] = row]
      /\ UNCHANGED <<shipments, alerts>>
    BY WrittenFleet
<1> HIDE DEF row
<1>3. Live(fleet[k][c.id]) /\ fleet[k][c.id].owner = c.user
  <2>1. Belonged(fleet[k][c.id], c.user)
    BY <1>1 DEF OwnersHeld, Held
  <2> QED
    BY <1>2, <2>1, LiveFleetRow DEF Belonged, Live
<1>4. c.id \in OwnRows(k, c.user)
    BY <1>2, <1>3 DEF OwnRows, LiveFleet
<1>5. /\ row = [owner |-> c.user, key |-> row.key, label |-> row.label]
      /\ row.key \in FleetKey \ Long /\ row.label \in Label \ Long
    BY <1>2, <1>3 DEF FleetRow
<1>6. /\ Sequential!KeyFree(k, row.key, c.id)
      /\ Overlapping!KeyFree(k, row.key, c.id)
    BY <1>2 DEF FleetRowAccepted, LiveFleet, Live, Sequential!KeyFree,
        Sequential!Live, Overlapping!KeyFree, Overlapping!Live
<1>7. fleet' = [fleet EXCEPT ![k][c.id] =
                  [owner |-> c.user, key |-> row.key, label |-> row.label]]
    BY <1>2, <1>5
<1>8. /\ c.id \in Sequential!Own(fleet[k], c.user)
      /\ c.id \in Overlapping!Own(fleet[k], c.user)
    BY <1>4, SameRows
<1>9. PICK key \in FleetKey \ Long, label \in Label \ Long :
         /\ Sequential!KeyFree(k, key, c.id)
         /\ Overlapping!KeyFree(k, key, c.id)
         /\ fleet' = [fleet EXCEPT ![k][c.id] =
                       [owner |-> c.user, key |-> key, label |-> label]]
    BY <1>5, <1>6, <1>7
<1>10. UNCHANGED <<shipments, alerts>>
    BY <1>2
<1> HIDE DEF c
<1>11. Sequential!PatchFleet(c.user)
    BY <1>8, <1>9, <1>10 DEF Sequential!PatchFleet
<1>12. Overlapping!PatchFleet(c.user)
    BY <1>8, <1>9, <1>10 DEF Overlapping!PatchFleet
<1> QED
    BY <1>11, <1>12 DEF c

\* What the UPDATE of PATCH /shipments/{id} stores, whatever it was judged on.
LEMMA PatchedShipment ==
    ASSUME TypeOK, LookupsHold, RefsOwned, NEW r \in Request, WriteShipment(r),
           ~UNCHANGED tables
    PROVE  LET c == req[r].call
               s == c.shipment
               row == Patched(shipments[s], req[r].row, c)
           IN /\ s \in OwnShipments(c.user)
              /\ row.status \in ShipmentStatus /\ row.priority \in Priority
              /\ row.ref \in Sequential!OwnRefs(c.user)
              /\ row.ref \in Overlapping!OwnRefs(c.user)
              /\ shipments' = [shipments EXCEPT ![s] =
                    [shipments[s] EXCEPT !.status = row.status,
                         !.ref = row.ref, !.priority = row.priority]]
              /\ UNCHANGED <<alerts, fleet>>
<1> DEFINE c == req[r].call
           s == c.shipment
           row == Patched(shipments[s], req[r].row, c)
<1>1. /\ Running(r) /\ c.op = "update_shipment" /\ req[r].step = "write"
    BY DEF WriteShipment, At, Running, Step
<1>2. /\ c \in UpdateShipmentCall /\ shipments[s] \in ShipmentRow
      /\ row \in ShipmentRow /\ shipments' = [shipments EXCEPT ![s] = row]
      /\ UNCHANGED <<alerts, fleet>>
    BY WrittenShipment
<1>3. row.owner = shipments[s].owner /\ row.tracking = shipments[s].tracking
    BY <1>2, PatchedFields
<1>4. \A k \in Kind : RefOwned(row, k)
    BY PatchedRefs
<1> HIDE DEF row
<1>5. s \in OwnShipments(c.user)
  <2>1. Belonged(shipments[s], c.user) /\ Live(shipments[s])
    BY <1>1, <1>2, LiveShipmentRow DEF LookupsHold, SnapshotHolds
  <2> QED
    BY <1>2, <2>1
        DEF Belonged, OwnShipments, LiveShipments, Live, UpdateShipmentCall
<1>6. /\ row.status \in ShipmentStatus /\ row.priority \in Priority
      /\ row.ref \in [Kind -> FleetId \cup {NULL}]
    BY <1>2 DEF ShipmentRow
<1>7. \A k \in Kind : row.ref[k] # NULL => row.ref[k] \in OwnRows(k, c.user)
    BY <1>3, <1>4, <1>5 DEF RefOwned, OwnRows, OwnShipments
<1>8. /\ row.ref \in Sequential!OwnRefs(c.user)
      /\ row.ref \in Overlapping!OwnRefs(c.user)
    BY <1>6, <1>7, SameRefs
<1>9. row = [shipments[s] EXCEPT !.status = row.status, !.ref = row.ref,
                                 !.priority = row.priority]
    BY <1>2, <1>3 DEF ShipmentRow
<1> QED
    BY <1>2, <1>5, <1>6, <1>8, <1>9 DEF row

\* The flush of DELETE /shipments/{id} takes the caller's shipment with its
\* alerts, or finds it gone and changes nothing.
LEMMA ErasedShipment ==
    ASSUME TypeOK, LookupsHold, OwnersHeld, NoOrphans, NEW r \in Request,
           EraseShipment(r)
    PROVE  LET c == req[r].call
               s == c.shipment
           IN \/ UNCHANGED <<shipments, alerts, fleet>>
              \/ /\ s \in OwnShipments(c.user)
                 /\ shipments' = [shipments EXCEPT ![s] = GONE]
                 /\ alerts' = [a \in AlertId |->
                                 IF alerts[a] = s THEN GONE ELSE alerts[a]]
                 /\ UNCHANGED fleet
<1> DEFINE c == req[r].call
           s == c.shipment
           seen == req[r].seen
<1>1. /\ Running(r) /\ c.op = "delete_shipment" /\ req[r].step = "write"
      /\ s \in ShipmentId
    BY BusySlot, CallShapes
        DEF EraseShipment, At, Running, Step, OnShipmentCall
<1>2. CASE UNCHANGED tables
    BY <1>2 DEF tables
<1>3. CASE ~UNCHANGED tables
  <2>1. /\ AlertsOf(s) \subseteq seen
        /\ shipments' = [shipments EXCEPT ![s] = GONE]
        /\ alerts' = [a \in AlertId |-> IF a \in seen THEN GONE ELSE alerts[a]]
        /\ UNCHANGED fleet
    BY <1>3 DEF EraseShipment
  <2>2. \A a \in seen : alerts[a] \in {GONE, s}
    BY <1>1 DEF OwnersHeld, Held
  <2>3. \A a \in AlertId : (IF a \in seen THEN GONE ELSE alerts[a]) =
                              (IF alerts[a] = s THEN GONE ELSE alerts[a])
    BY <2>1, <2>2 DEF AlertsOf
  <2>4. alerts' = [a \in AlertId |-> IF alerts[a] = s THEN GONE ELSE alerts[a]]
    BY <2>1, <2>3
  <2>5. Belonged(shipments[s], c.user)
    BY <1>1 DEF LookupsHold, SnapshotHolds
  <2>6. CASE shipments[s] = GONE
    <3>1. \A a \in AlertId : alerts[a] # s
        BY <1>1, <2>6, SentinelAssumption DEF NoOrphans, LiveShipments, Live
    <3>2. shipments' = shipments /\ alerts' = alerts
        BY <2>1, <2>4, <2>6, <3>1 DEF TypeOK
    <3> QED
        BY <2>1, <3>2
  <2>7. CASE Live(shipments[s]) /\ shipments[s].owner = c.user
    BY <1>1, <2>1, <2>4, <2>7 DEF OwnShipments, LiveShipments
  <2> QED
    BY <2>5, <2>6, <2>7 DEF Belonged
<1> QED
    BY <1>2, <1>3

\* The flush of DELETE /drivers/{id} or /vehicles/{id} takes a row that is the
\* caller's or gone, and clears shipments of the caller.
LEMMA ErasedRow ==
    ASSUME TypeOK, OwnersHeld, NEW r \in Request, NEW k \in Kind,
           EraseFleet(r, k), ~UNCHANGED tables
    PROVE  LET c == req[r].call
               f == c.id
               cleared == req[r].seen \cap LiveShipments
           IN /\ f \in FleetId
              /\ f \in OwnRows(k, c.user) \/ fleet[k][f] = GONE
              /\ cleared \subseteq OwnShipments(c.user)
              /\ Referencing(k, f) \subseteq cleared
              /\ shipments' = [s \in ShipmentId |->
                                 IF s \in cleared
                                 THEN [shipments[s] EXCEPT !.ref[k] = NULL]
                                 ELSE shipments[s]]
              /\ fleet' = [fleet EXCEPT ![k][f] = GONE]
              /\ UNCHANGED alerts
<1> DEFINE c == req[r].call
           f == c.id
           seen == req[r].seen
<1>1. /\ Running(r) /\ c.op = "delete" /\ req[r].step = "write" /\ c.kind = k
      /\ f \in FleetId
    BY BusySlot, CallShapes
        DEF EraseFleet, OnKind, At, Running, Step, OnFleetCall
<1>2. /\ Referencing(k, f) \subseteq seen
      /\ shipments' = [s \in ShipmentId |->
                         IF s \in seen \cap LiveShipments
                         THEN [shipments[s] EXCEPT !.ref[k] = NULL]
                         ELSE shipments[s]]
      /\ fleet' = [fleet EXCEPT ![k][f] = GONE]
      /\ UNCHANGED alerts
    BY DEF EraseFleet, tables
<1>3. /\ Belonged(fleet[k][f], c.user)
      /\ \A s \in seen : Belonged(shipments[s], c.user)
    BY <1>1 DEF OwnersHeld, Held
<1>4. f \in OwnRows(k, c.user) \/ fleet[k][f] = GONE
    BY <1>1, <1>3 DEF Belonged, OwnRows, LiveFleet, Live
<1>5. seen \cap LiveShipments \subseteq OwnShipments(c.user)
    BY <1>3 DEF Belonged, OwnShipments, LiveShipments, Live
<1>6. Referencing(k, f) \subseteq seen \cap LiveShipments
    BY <1>2 DEF Referencing
<1> QED
    BY <1>1, <1>2, <1>4, <1>5, <1>6
-----------------------------------------------------------------------------
(* Every step is an operation, or none                                      *)

LEMMA OverlappingStep ==
    ASSUME TypeOK, LookupsHold, RefsOwned, OwnersHeld, NoOrphans, [Next]_vars
    PROVE  Overlapping!RegistryNext \/ UNCHANGED Overlapping!rows
<1>1. CASE UNCHANGED tables
    BY <1>1 DEF tables, Overlapping!rows
<1>2. ASSUME NEW r \in Request, Writes(r), ~UNCHANGED tables
      PROVE  \/ Overlapping!Operation(req[r].call.user)
             \/ UNCHANGED Overlapping!rows
  <2> DEFINE c == req[r].call
             u == c.user
  <2>1. CASE WriteShipment(r)
    <3> DEFINE s == c.shipment
               row == Patched(shipments[s], req[r].row, c)
    <3>1. /\ s \in Overlapping!Own(shipments, u)
          /\ row.status \in ShipmentStatus /\ row.priority \in Priority
          /\ row.ref \in Overlapping!OwnRefs(u)
          /\ shipments' = [shipments EXCEPT ![s] =
                [shipments[s] EXCEPT !.status = row.status,
                     !.ref = row.ref, !.priority = row.priority]]
          /\ UNCHANGED <<alerts, fleet>>
        BY <1>2, <2>1, PatchedShipment, SameShipments
    <3>2. \/ row.status = shipments[s].status
          \/ <<shipments[s].status, row.status>> \in RacingEdges
        BY <1>2, <2>1, PatchedEdge
    <3> HIDE DEF row
    <3>3. Overlapping!PatchShipment(u)
        BY <3>1, <3>2 DEF Overlapping!PatchShipment
    <3> QED
        BY <3>3 DEF Overlapping!Operation
  <2>2. CASE EraseShipment(r)
    <3> DEFINE s == c.shipment
    <3>1. CASE UNCHANGED <<shipments, alerts, fleet>>
        BY <3>1 DEF Overlapping!rows
    <3>2. CASE /\ s \in OwnShipments(u)
               /\ shipments' = [shipments EXCEPT ![s] = GONE]
               /\ alerts' = [a \in AlertId |->
                               IF alerts[a] = s THEN GONE ELSE alerts[a]]
               /\ UNCHANGED fleet
      <4>1. shipments[s] \in ShipmentRow
        BY <3>2, LiveRows DEF OwnShipments, LiveShipments
      <4>2. <<shipments[s].status, "gone">> \in RacingEdges
        BY <4>1 DEF ShipmentRow, RacingEdges
      <4>3. Overlapping!DeleteShipment(u)
        BY <3>2, <4>2, SameShipments DEF Overlapping!DeleteShipment
      <4> QED
        BY <4>3 DEF Overlapping!Operation
    <3> QED
        BY <1>2, <2>2, <3>1, <3>2, ErasedShipment
  <2>3. ASSUME NEW k \in Kind, EraseFleet(r, k)
        PROVE  Overlapping!Operation(u)
    <3> DEFINE f == c.id
               cleared == req[r].seen \cap LiveShipments
    <3>1. /\ f \in FleetId
          /\ f \in Overlapping!Own(fleet[k], u) \/ fleet[k][f] = GONE
          /\ cleared \in SUBSET Overlapping!Own(shipments, u)
          /\ Overlapping!Holders(k, f) \subseteq cleared
          /\ shipments' = [s \in ShipmentId |->
                             IF s \in cleared
                             THEN [shipments[s] EXCEPT !.ref[k] = NULL]
                             ELSE shipments[s]]
          /\ fleet' = [fleet EXCEPT ![k][f] = GONE]
          /\ UNCHANGED alerts
        BY <1>2, <2>3, ErasedRow, SameShipments, SameRows, SameHolders
    <3> HIDE DEF cleared
    <3>2. Overlapping!DeleteFleet(u)
        BY <3>1 DEF Overlapping!DeleteFleet
    <3> QED
        BY <3>2 DEF Overlapping!Operation
  <2> QED
    BY <1>2, <2>1, <2>2, <2>3, Posted, Evaluated, PostedRow, PatchedRow
        DEF Writes, Overlapping!Operation
<1>3. ASSUME NEW r \in Request, Writes(r), ~UNCHANGED tables
      PROVE  req[r].call.user \in User
    BY <1>3, WriterActs, CallUser
<1> QED
    BY <1>1, <1>2, <1>3, OnlyWriters DEF Overlapping!RegistryNext

\* However requests overlap, every commit is one operation of one account on
\* the rows as they are: it creates, edits or deletes that account's row with
\* references to that account's rows and a key nobody has, and takes along what
\* belongs to it.
THEOREM OverlappingCorrect == Spec => RacingRegistry
<1>1. StoreInit => Overlapping!RegistryInit
    BY DEF StoreInit, Overlapping!RegistryInit
<1>2. TypeOK /\ LookupsHold /\ RefsOwned /\ OwnersHeld /\ NoOrphans
        /\ [Next]_vars => [Overlapping!RegistryNext]_(Overlapping!rows)
    BY OverlappingStep
<1> QED
    BY <1>1, <1>2, TypeCorrect, LookupsCorrect, ReferencesCorrect,
        OwnersHeldCorrect, OrphansCorrect, PTL
        DEF Spec, RacingRegistry, Overlapping!RegistrySpec
-----------------------------------------------------------------------------
\* A PATCH that is alone moves an open shipment along a documented edge.
LEMMA FreshEdge ==
    ASSUME TypeOK, AllFresh, [Next]_vars, NEW r \in Request, WriteShipment(r),
           NEW s \in ShipmentId, shipments'[s] # shipments[s]
    PROVE  LET old == shipments[s]
               new == shipments'[s]
           IN /\ s = req[r].call.shipment
              /\ old.status \notin {"delivered", "cancelled"}
              /\ \/ new.status = old.status
                 \/ <<old.status, new.status>> \in DocumentedEdges
<1> DEFINE c == req[r].call
           old == shipments[s]
           new == shipments'[s]
<1>1. /\ s = c.shipment /\ c \in UpdateShipmentCall
      /\ old \in ShipmentRow /\ new \in ShipmentRow /\ ~Refused(c, old)
      /\ new.status = IF c.status = UNSET THEN old.status ELSE c.status
    BY FreshPatch
<1>2. ~is_terminal(old.status)
  <2>1. s \in LiveShipments /\ fleet' = fleet
    BY <1>1, LiveShipmentRow DEF LiveShipments, WriteShipment, tables
  <2> QED
    BY <2>1, ClosedHolds DEF ClosedStep
<1>3. new.status = old.status \/ is_valid_transition(old.status, new.status)
    BY <1>1 DEF Refused
<1>4. old.status \in ShipmentStatus /\ new.status \in ShipmentStatus
    BY <1>1 DEF ShipmentRow
<1> HIDE DEF old, new
<1>5. \/ new.status = old.status
      \/ <<old.status, new.status>> \in DocumentedEdges
    BY <1>3, <1>4 DEF is_valid_transition, DocumentedEdges
<1> QED
    BY <1>1, <1>2, <1>5 DEF is_terminal, old, new

\* The deletion of a driver that is alone clears its references and no other.
LEMMA FreshRow ==
    ASSUME TypeOK, AllFresh, NEW r \in Request, NEW k \in Kind,
           EraseFleet(r, k)
    PROVE  LET f == req[r].call.id IN
           /\ fleet[k][f] # GONE
           /\ req[r].seen = Referencing(k, f)
           /\ \A s \in Referencing(k, f) :
                 shipments[s].status \notin {"pending", "in_transit"}
<1> DEFINE c == req[r].call
<1>1. Running(r) /\ c.op = "delete" /\ c.kind = k /\ req[r].step = "write"
    BY DEF EraseFleet, OnKind, At, Running, Step
<1>2. Fresh(req[r])
    BY <1>1 DEF AllFresh
<1> QED
    BY <1>1, <1>2 DEF Fresh, Live, Active

LEMMA SequentialStep ==
    ASSUME TypeOK, LookupsHold, RefsOwned, OwnersHeld, NoOrphans, AllFresh,
           [Next]_vars
    PROVE  Sequential!RegistryNext \/ UNCHANGED Sequential!rows
<1>1. CASE UNCHANGED tables
    BY <1>1 DEF tables, Sequential!rows
<1>2. ASSUME NEW r \in Request, Writes(r), ~UNCHANGED tables
      PROVE  \/ Sequential!Operation(req[r].call.user)
             \/ UNCHANGED Sequential!rows
  <2> DEFINE c == req[r].call
             u == c.user
  <2>1. CASE WriteShipment(r)
    <3> DEFINE s == c.shipment
               row == Patched(shipments[s], req[r].row, c)
    <3>1. /\ s \in Sequential!Own(shipments, u) /\ s \in ShipmentId
          /\ row.status \in ShipmentStatus /\ row.priority \in Priority
          /\ row.ref \in Sequential!OwnRefs(u)
          /\ shipments' = [shipments EXCEPT ![s] =
                [shipments[s] EXCEPT !.status = row.status,
                     !.ref = row.ref, !.priority = row.priority]]
          /\ UNCHANGED <<alerts, fleet>>
        BY <1>2, <2>1, PatchedShipment, SameShipments
            DEF OwnShipments, LiveShipments
    <3>2. CASE shipments'[s] = shipments[s]
      <4>1. shipments' = shipments
        BY <3>1, <3>2 DEF TypeOK
      <4> QED
        BY <3>1, <4>1 DEF Sequential!rows
    <3>3. CASE shipments'[s] # shipments[s]
      <4>1. shipments'[s] = row /\ shipments[s] \in ShipmentRow
        BY <1>2, <2>1, <3>1, WrittenShipment DEF TypeOK
      <4>2. /\ shipments[s].status \notin {"delivered", "cancelled"}
            /\ \/ row.status = shipments[s].status
               \/ <<shipments[s].status, row.status>> \in DocumentedEdges
        BY <2>1, <3>1, <3>3, <4>1, FreshEdge
      <4> HIDE DEF row
      <4>3. Sequential!PatchShipment(u)
        BY <3>1, <4>2 DEF Sequential!PatchShipment
      <4> QED
        BY <4>3 DEF Sequential!Operation
    <3> QED
        BY <3>2, <3>3
  <2>2. CASE EraseShipment(r)
    <3> DEFINE s == c.shipment
    <3>1. CASE UNCHANGED <<shipments, alerts, fleet>>
        BY <3>1 DEF Sequential!rows
    <3>2. CASE /\ s \in OwnShipments(u)
               /\ shipments' = [shipments EXCEPT ![s] = GONE]
               /\ alerts' = [a \in AlertId |->
                               IF alerts[a] = s THEN GONE ELSE alerts[a]]
               /\ UNCHANGED fleet
      <4>1. s \in ShipmentId /\ shipments'[s] # shipments[s]
        BY <3>2 DEF OwnShipments, LiveShipments, Live, TypeOK
      <4>2. <<shipments[s].status, "gone">> \in DocumentedEdges
        BY <2>2, <4>1, FreshErase DEF DocumentedEdges
      <4>3. Sequential!DeleteShipment(u)
        BY <3>2, <4>2, SameShipments DEF Sequential!DeleteShipment
      <4> QED
        BY <4>3 DEF Sequential!Operation
    <3> QED
        BY <1>2, <2>2, <3>1, <3>2, ErasedShipment
  <2>3. ASSUME NEW k \in Kind, EraseFleet(r, k)
        PROVE  Sequential!Operation(u)
    <3> DEFINE f == c.id
               cleared == req[r].seen \cap LiveShipments
    <3>1. /\ f \in FleetId /\ f \in Sequential!Own(fleet[k], u)
          /\ cleared \in SUBSET Sequential!Own(shipments, u)
          /\ shipments' = [s \in ShipmentId |->
                             IF s \in cleared
                             THEN [shipments[s] EXCEPT !.ref[k] = NULL]
                             ELSE shipments[s]]
          /\ fleet' = [fleet EXCEPT ![k][f] = GONE]
          /\ UNCHANGED alerts
        BY <1>2, <2>3, ErasedRow, FreshRow, SameShipments, SameRows
    <3>2. /\ cleared = Sequential!Holders(k, f)
          /\ \A s \in cleared :
                shipments[s].status \notin {"pending", "in_transit"}
        BY <2>3, FreshRow, SameHolders DEF Referencing
    <3> HIDE DEF cleared
    <3>3. Sequential!DeleteFleet(u)
        BY <3>1, <3>2 DEF Sequential!DeleteFleet
    <3> QED
        BY <3>3 DEF Sequential!Operation
  <2> QED
    BY <1>2, <2>1, <2>2, <2>3, Posted, Evaluated, PostedRow, PatchedRow
        DEF Writes, Sequential!Operation
<1>3. ASSUME NEW r \in Request, Writes(r), ~UNCHANGED tables
      PROVE  req[r].call.user \in User
    BY <1>3, WriterActs, CallUser
<1> QED
    BY <1>1, <1>2, <1>3, OnlyWriters DEF Sequential!RegistryNext

\* While requests do not overlap, PulseFleet implements the documented
\* operations: a closed shipment takes no edit, only a pending one is deleted,
\* a driver goes only without active shipments, and its deletion clears exactly
\* the references to it.
THEOREM SequentialCorrect == ASSUME Alone PROVE Spec => DocumentedRegistry
<1>1. StoreInit => Sequential!RegistryInit
    BY DEF StoreInit, Sequential!RegistryInit
<1>2. TypeOK /\ LookupsHold /\ RefsOwned /\ OwnersHeld /\ NoOrphans
        /\ AllFresh /\ [Next]_vars
        => [Sequential!RegistryNext]_(Sequential!rows)
    BY SequentialStep
<1> QED
    BY <1>1, <1>2, TypeCorrect, LookupsCorrect, ReferencesCorrect,
        OwnersHeldCorrect, OrphansCorrect, AllFreshCorrect, PTL
        DEF Spec, DocumentedRegistry, Sequential!RegistrySpec
=============================================================================
