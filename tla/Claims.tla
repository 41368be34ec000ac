------------------------------- MODULE Claims -------------------------------
(***************************************************************************)
(* Sentences of the documentation that the handlers do not keep when       *)
(* requests overlap: a run refutes each, and the README tells how.         *)
(***************************************************************************)
EXTENDS PulseFleet

\* docs/API.md:115: "delivered and cancelled are terminal".  Two PATCHes that
\* both loaded the shipment before it was closed are both accepted.
TerminalStep ==
    \A s \in LiveShipments :
        is_terminal(shipments[s].status) /\ Live(shipments'[s])
            => shipments'[s].status = shipments[s].status
TerminalIsFinal == [][TerminalStep]_vars

\* README.md:162: a driver or vehicle "cannot be deleted while it has any
\* `pending`/`in_transit` shipment attached".  One that is assigned after the
\* count and before the load of the referring shipments is detached instead.
ActiveStep ==
    \A k \in Kind : \A f \in LiveFleet(k) :
        ~Live(fleet'[k][f]) => \A s \in Referencing(k, f) : ~Active(s)
ActiveBlocksDeletion == [][ActiveStep]_vars
=============================================================================
