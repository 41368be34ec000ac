--------------------------- MODULE ShipmentState ---------------------------
(***************************************************************************)
(* The rules of the shipment lifecycle, as app/shipment_state.py states    *)
(* them: a shipment is created pending, moves to in_transit and then to    *)
(* delivered, may be cancelled from either of the first two, and rests in  *)
(* delivered and cancelled.                                                *)
(***************************************************************************)

ShipmentStatus == {"pending", "in_transit", "delivered", "cancelled"}

ALLOWED_TRANSITIONS ==
    [pending    |-> {"in_transit", "cancelled"},
     in_transit |-> {"delivered", "cancelled"},
     delivered  |-> {},
     cancelled  |-> {}]

\* Sending the status the shipment already has is a harmless no-op.
is_valid_transition(current, new) ==
    \/ current = new
    \/ new \in ALLOWED_TRANSITIONS[current]

is_terminal(status) == status \in {"delivered", "cancelled"}
=============================================================================
