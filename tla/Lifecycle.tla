----------------------------- MODULE Lifecycle -----------------------------
(***************************************************************************)
(* What the API promises of shipments, without requests or tables: each    *)
(* shipment is at a stage, and a step moves one shipment along one of the  *)
(* Edges.                                                                  *)
(***************************************************************************)
CONSTANTS ShipmentId, Stage, Unborn, Edges

VARIABLE stage

LifecycleInit == stage = [s \in ShipmentId |-> Unborn]

Move(s) ==
    \E next \in Stage :
        /\ <<stage[s], next>> \in Edges
        /\ stage' = [stage EXCEPT ![s] = next]

LifecycleNext == \E s \in ShipmentId : Move(s)

LifecycleSpec == LifecycleInit /\ [][LifecycleNext]_stage
=============================================================================
