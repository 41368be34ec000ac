---------------------------- MODULE MCPulseFleet ----------------------------
(***************************************************************************)
(* Instances of PulseFleet for TLC: who exists, and which calls the        *)
(* clients make.                                                           *)
(***************************************************************************)
EXTENDS Claims, TLC

CONSTANTS u1, u2, s1, s2, f1, f2, a1, a2, t1, t2, p1, p2, r1, r2, r3,
          k1, k2, short_key, long_key, n1, short_label, long_label

Refs(d, v) == [driver |-> d, vehicle |-> v]
NoRefs == Refs(NULL, NULL)
KeepRefs == Refs(UNSET, UNSET)

CreateShipment(u, t, refs) ==
    [op |-> "create_shipment", user |-> u, tracking |-> t,
     ref |-> refs, priority |-> p1, fits |-> TRUE]
Patch(u, s, status, refs, priority) ==
    [op |-> "update_shipment", user |-> u, shipment |-> s,
     status |-> status, ref |-> refs, priority |-> priority]
On(op, u, s) == [op |-> op, user |-> u, shipment |-> s]
CreateFleet(k, u, key) ==
    [op |-> "create", kind |-> k, user |-> u, key |-> key, label |-> n1]
PatchFleet(k, u, f, key, label) ==
    [op |-> "update", kind |-> k, user |-> u, id |-> f, key |-> key,
     label |-> label]
OnFleet(op, k, u, f) == [op |-> op, kind |-> k, user |-> u, id |-> f]

\* Everything that can happen to one shipment, by its owner.
ShipmentCalls ==
    {CreateShipment(u1, t1, NoRefs)}
    \cup {Patch(u1, s1, status, KeepRefs, UNSET) : status \in ShipmentStatus}
    \cup {Patch(u1, s1, UNSET, KeepRefs, p2)}
    \cup {On(op, u1, s1) : op \in {"get_shipment", "delete_shipment",
                                   "evaluate_shipment"}}

\* Drivers come, are assigned to shipments, swapped, taken off, and go, while
\* another account tries to use and delete the same ids.
ReferenceCalls ==
    {CreateFleet("driver", u1, k) : k \in {k1, k2}}
    \cup {CreateFleet("driver", u2, k1)}
    \cup {OnFleet("delete", "driver", u, f1) : u \in {u1, u2}}
    \cup {CreateShipment(u1, t1, Refs(f1, NULL)),
           CreateShipment(u1, t2, NoRefs), CreateShipment(u2, t1, NoRefs)}
    \cup {Patch(u1, s1, UNSET, Refs(d, UNSET), UNSET) : d \in {f1, f2, NULL}}
    \cup {Patch(u1, s1, "cancelled", KeepRefs, UNSET)}
    \cup {On("delete_shipment", u, s1) : u \in {u1, u2}}

\* License and plate numbers: rows created and renamed, all to the same key,
\* and one of each operation on rows that disappear under it.
FleetCalls ==
    {CreateFleet("driver", u1, key) : key \in {k1, k2}}
    \cup {PatchFleet("driver", u1, f, k1, UNSET) : f \in {f1, f2}}
    \cup {OnFleet("delete", "driver", u1, f1)}
    \cup {CreateShipment(u1, t1, NoRefs), Patch(u1, s1, UNSET, KeepRefs, p2)}
    \cup {On(op, u1, s1) : op \in {"delete_shipment", "evaluate_shipment"}}

\* Two accounts, every operation, every field of a PATCH, and every kind of value
\* that pydantic lets through and the database or a response does not.
SerialCalls ==
    {CreateFleet(k, u1, k1) : k \in Kind}
    \cup {CreateFleet("driver", u2, k2),
          [CreateFleet("vehicle", u1, k2) EXCEPT !.label = long_label]}
    \cup {PatchFleet(k, u1, f1, key, UNSET) :
              k \in Kind, key \in {k1, k2, long_key, NULL}}
    \cup {PatchFleet("driver", u1, f1, key, UNSET) : key \in {short_key, UNSET}}
    \cup {PatchFleet("driver", u1, f1, k2, label) :
              label \in {n1, short_label, long_label, NULL}}
    \cup {PatchFleet("vehicle", u1, f1, UNSET, long_label)}
    \cup {[CreateShipment(u1, t2, NoRefs) EXCEPT !.fits = FALSE]}
    \cup {OnFleet(op, k, u1, f1) : op \in {"get", "delete"}, k \in Kind}
    \cup {CreateShipment(u1, t1, refs) : refs \in {NoRefs, Refs(f1, f1)}}
    \cup {Patch(u1, s1, status, KeepRefs, UNSET) :
              status \in ShipmentStatus \cup {NULL}}
    \cup {Patch(u1, s1, UNSET, Refs(d, v), UNSET) :
              d \in {f1, f2, NULL}, v \in {f1, UNSET}}
    \cup {Patch(u1, s1, UNSET, Refs(UNSET, NULL), p) :
              p \in {p1, p2, NULL, UNSET}}
    \cup {On(op, u, s1) : u \in {u1, u2},
              op \in {"get_shipment", "delete_shipment", "evaluate_shipment"}}
\* The slots are interchangeable (used where no liveness is checked).
Slots == Permutations(Request)
=============================================================================
