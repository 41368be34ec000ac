------------------------------ MODULE Registry ------------------------------
(***************************************************************************)
(* What the API promises of the rows, without requests, statements or      *)
(* look-ups: a step is one operation of one account, done at once on the   *)
(* rows as they are.  How much of the rules is left when the checks are    *)
(* made on stale rows is a matter of the last five constants.              *)
(***************************************************************************)
CONSTANTS
    User, Kind, ShipmentId, FleetId, AlertId, Tracking, FleetKey,
    Label, Priority,
    Status, NULL, GONE,
    Edges,      \* the changes of status, and the deletions, that may happen
    Closed,     \* the statuses in which a shipment takes no edit
    Kept,       \* the statuses in which it keeps its driver from being deleted
    Late,       \* may a deletion come when the row is gone already, and clear
                \* the references its account's shipments hold by then?
    Initial     \* the status of a new shipment

VARIABLES shipments, alerts, fleet

rows == <<shipments, alerts, fleet>>

Live(row) == row \notin {NULL, GONE}
Own(table, u) == {x \in DOMAIN table : Live(table[x]) /\ table[x].owner = u}

\* An account's references, and everybody's references to one row.
OwnRefs(u) ==
    {ref \in [Kind -> FleetId \cup {NULL}] :
        \A k \in Kind : ref[k] \in {NULL} \cup Own(fleet[k], u)}
Holders(k, f) ==
    {s \in ShipmentId : Live(shipments[s]) /\ shipments[s].ref[k] = f}

KeyFree(k, key, f) ==
    \A g \in FleetId \ {f} : Live(fleet[k][g]) => fleet[k][g].key # key
-----------------------------------------------------------------------------
PostShipment(u) ==
    \E s \in ShipmentId, t \in Tracking, ref \in OwnRefs(u), p \in Priority :
        /\ shipments[s] = NULL
        /\ \A o \in ShipmentId : Live(shipments[o]) => shipments[o].tracking # t
        /\ shipments' = [shipments EXCEPT ![s] =
              [owner |-> u, tracking |-> t, status |-> Initial, ref |-> ref,
               priority |-> p]]
        /\ UNCHANGED <<alerts, fleet>>

PatchShipment(u) ==
    \E s \in Own(shipments, u), status \in Status, ref \in OwnRefs(u),
       p \in Priority :
        LET old == shipments[s] IN
        /\ old.status \notin Closed
        /\ status = old.status \/ <<old.status, status>> \in Edges
        /\ shipments' = [shipments EXCEPT ![s] =
              [old EXCEPT !.status = status, !.ref = ref, !.priority = p]]
        /\ UNCHANGED <<alerts, fleet>>

DeleteShipment(u) ==
    \E s \in Own(shipments, u) :
        /\ <<shipments[s].status, "gone">> \in Edges
        /\ shipments' = [shipments EXCEPT ![s] = GONE]
        /\ alerts' = [a \in AlertId |->
                        IF alerts[a] = s THEN GONE ELSE alerts[a]]
        /\ UNCHANGED fleet

EvaluateShipment(u) ==
    \E s \in Own(shipments, u), a \in AlertId :
        /\ alerts[a] = NULL
        /\ alerts' = [alerts EXCEPT ![a] = s]
        /\ UNCHANGED <<shipments, fleet>>
-----------------------------------------------------------------------------
PostFleet(u) ==
    \E k \in Kind, f \in FleetId, key \in FleetKey, label \in Label :
        /\ fleet[k][f] = NULL /\ KeyFree(k, key, f)
        /\ fleet' = [fleet EXCEPT ![k][f] =
              [owner |-> u, key |-> key, label |-> label]]
        /\ UNCHANGED <<shipments, alerts>>

PatchFleet(u) ==
    \E k \in Kind, key \in FleetKey, label \in Label :
      \E f \in Own(fleet[k], u) :
        /\ KeyFree(k, key, f)
        /\ fleet' = [fleet EXCEPT ![k][f] =
              [owner |-> u, key |-> key, label |-> label]]
        /\ UNCHANGED <<shipments, alerts>>

DeleteFleet(u) ==
    \E k \in Kind, f \in FleetId, cleared \in SUBSET Own(shipments, u) :
        /\ f \in Own(fleet[k], u) \/ (Late /\ fleet[k][f] = GONE)
        /\ Holders(k, f) \subseteq cleared
        /\ Late \/ cleared = Holders(k, f)
        /\ \A s \in cleared : shipments[s].status \notin Kept
        /\ shipments' = [s \in ShipmentId |->
                            IF s \in cleared
                            THEN [shipments[s] EXCEPT !.ref[k] = NULL]
                            ELSE shipments[s]]
        /\ fleet' = [fleet EXCEPT ![k][f] = GONE]
        /\ UNCHANGED alerts
-----------------------------------------------------------------------------
RegistryInit ==
    /\ shipments = [s \in ShipmentId |-> NULL]
    /\ alerts = [a \in AlertId |-> NULL]
    /\ fleet = [k \in Kind |-> [f \in FleetId |-> NULL]]

Operation(u) ==
    \/ PostShipment(u) \/ PatchShipment(u) \/ DeleteShipment(u)
    \/ EvaluateShipment(u)
    \/ PostFleet(u) \/ PatchFleet(u) \/ DeleteFleet(u)

RegistryNext == \E u \in User : Operation(u)

RegistrySpec == RegistryInit /\ [][RegistryNext]_rows
=============================================================================
