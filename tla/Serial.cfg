SPECIFICATION Spec
CONSTANTS
  u1 = u1  u2 = u2  s1 = s1  s2 = s2  f1 = f1  f2 = f2  a1 = a1  a2 = a2
  t1 = t1  t2 = t2  p1 = p1  p2 = p2
  r1 = r1  r2 = r2  r3 = r3  k1 = k1  k2 = k2  n1 = n1
  short_key = short_key  long_key = long_key
  short_label = short_label  long_label = long_label
  NULL = NULL  GONE = GONE  UNSET = UNSET
  User = {u1, u2}
  ShipmentId = {s1}
  FleetId = {f1, f2}
  AlertId = {a1}
  Tracking = {t1, t2}
  FleetKey = {k1, k2, short_key, long_key}
  Label = {n1, short_label, long_label}
  Short = {short_key, short_label}
  Long = {long_key, long_label}
  Priority = {p1, p2}
  Request = {r1}
  Calls <- SerialCalls
INVARIANTS TypeOK RefsOwned
PROPERTIES DocumentedRegistry DocumentedLifecycle ActiveKeepsRefs ClosedOnlyLosesRefs
  AcceptedEditIsStored AloneNoServerError
