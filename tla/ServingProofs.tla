--------------------------- MODULE ServingProofs ---------------------------
(***************************************************************************)
(* Serving for any number of requests and any pool: what the pool and the  *)
(* shell around the handlers guarantee.                                    *)
(*                                                                         *)
(* Every action but an outage changes at most one request and what it      *)
(* holds.  The invariant is therefore a bound on the pool and a predicate  *)
(* of one request and its connection, which each action is shown to keep   *)
(* for its own request.                                                    *)
(***************************************************************************)
EXTENDS Serving, FiniteSetTheorems, TLAPS

\* What is known of a request q that holds c.
Connected(q, c) ==
    /\ q.step \in {"idle"} \cup Waiting => c = "none"
    /\ q.step \in Holding => c # "none"
    /\ c = "live" => up
    /\ c = "dead" => q.disturbed
    /\ ~up /\ q.step # "idle" => q.disturbed

\* How far a request has come: the probe has no session.
Answers(q) ==
    /\ q.step # "closing" => q.status = "none"
    /\ q.kind = "health" => q.step \in {"connect", "ping", "closing"}

Entitled(q, c) ==
    /\ q.step \in Waiting \cup Holding =>
          q.name \in Name /\ (q.kind \in Protected => accounts[q.name] > 0)
    /\ q.kind \in Protected =>
          /\ q.status = "unauthorized" <=> q.token # "valid"
          /\ q.token # "valid" =>
                c = "none" /\ q.step \notin Waiting \cup Holding /\ ~q.stored
    /\ q.stored /\ q.kind \in Protected =>
          q.name \in Name /\ accounts[q.name] > 0

Shaped(q, c) == q \in Local /\ c \in Connection

Sound(q, c) == Shaped(q, c) /\ Connected(q, c) /\ Answers(q) /\ Entitled(q, c)

PoolInv ==
    /\ up \in BOOLEAN
    /\ idle \in [live: Nat, dead: Nat]
    /\ idle.live > 0 => up
    /\ Cardinality(Holders) + Pooled <= Capacity

AccountInv ==
    /\ accounts \in [Name -> Nat]
    /\ \A n \in Name : accounts[n] <= 1
    /\ tokens \in [Name -> Token]
    /\ \A n \in Name : tokens[n] # "none" => accounts[n] > 0

SlotInv ==
    /\ req \in [Request -> Local] /\ conn \in [Request -> Connection]
    /\ \A r \in Request : Sound(req[r], conn[r])

ServingInv == PoolInv /\ AccountInv /\ SlotInv
-----------------------------------------------------------------------------
\* An account, once there, stays.
Kept == /\ accounts' \in [Name -> Nat]
        /\ \A n \in Name : accounts[n] > 0 => accounts'[n] > 0

\* The request of an action goes on as q, holding c; the others do not move.
Becomes(r, q, c) ==
    /\ req' = [req EXCEPT ![r] = q]
    /\ conn' = [conn EXCEPT ![r] = c]
    /\ up' = up

\* The other requests stay sound when one moves.
LEMMA OthersSound ==
    ASSUME SlotInv, AccountInv, NEW r \in Request, NEW q, NEW c,
           Becomes(r, q, c), Kept, Sound(q, c)'
    PROVE  SlotInv'
<1>1. /\ req' \in [Request -> Local] /\ conn' \in [Request -> Connection]
      /\ req'[r] = q /\ conn'[r] = c
      /\ \A s \in Request \ {r} : req'[s] = req[s] /\ conn'[s] = conn[s]
  BY DEF SlotInv, Becomes, Sound, Shaped
<1>2. ASSUME NEW s \in Request \ {r} PROVE Sound(req[s], conn[s])'
  <2>1. Sound(req[s], conn[s]) /\ req[s] \in Local
    BY DEF SlotInv
  <2>3. Shaped(req[s], conn[s])' /\ Connected(req[s], conn[s])' /\ Answers(req[s])'
    BY <1>1, <2>1 DEF Sound, Shaped, Connected, Answers, Becomes
  <2>4. Entitled(req[s], conn[s])'
    BY <1>1, <2>1 DEF Sound, Entitled, Kept
  <2> QED BY <2>3, <2>4 DEF Sound
<1>3. Sound(req[r], conn[r])'
  BY <1>1
<1> QED BY <1>1, <1>2, <1>3 DEF SlotInv
-----------------------------------------------------------------------------
LEMMA CapacityNat == Capacity \in Nat
BY PoolAssumption DEF Capacity

LEMMA HoldersFinite == IsFiniteSet(Holders) /\ Cardinality(Holders) \in Nat
<1>1. IsFiniteSet(Holders)
  BY RequestAssumption, FS_Subset DEF Holders
<1> QED BY <1>1, FS_CardinalityType

\* Taking a connection is one holder more, giving one back is one less.
LEMMA HoldersChange ==
    ASSUME conn \in [Request -> Connection], NEW r \in Request, NEW c,
           conn' = [conn EXCEPT ![r] = c]
    PROVE  /\ Cardinality(Holders') \in Nat
           /\ conn[r] = "none" /\ c # "none" =>
                 Cardinality(Holders') = Cardinality(Holders) + 1
           /\ conn[r] # "none" /\ c = "none" =>
                 Cardinality(Holders') = Cardinality(Holders) - 1
           /\ (conn[r] = "none" <=> c = "none") => Holders' = Holders
<1>1. IsFiniteSet(Holders) /\ Cardinality(Holders) \in Nat
  BY HoldersFinite
<1>2. CASE conn[r] = "none" /\ c # "none"
  <2>1. Holders' = Holders \cup {r} /\ r \notin Holders
    BY <1>2 DEF Holders
  <2>2. /\ IsFiniteSet(Holders \cup {r})
        /\ Cardinality(Holders \cup {r}) = Cardinality(Holders) + 1
    BY <1>1, <2>1, FS_AddElement
  <2> QED BY <1>1, <1>2, <2>1, <2>2
<1>3. CASE conn[r] # "none" /\ c = "none"
  <2>1. Holders' = Holders \ {r} /\ r \in Holders
    BY <1>3 DEF Holders
  <2>2. Cardinality(Holders \ {r}) = Cardinality(Holders) - 1
    BY <1>1, <2>1, FS_RemoveElement
  <2>3. IsFiniteSet(Holders \ {r})
    BY <1>1, FS_RemoveElement
  <2> QED BY <1>3, <2>1, <2>2, <2>3, FS_CardinalityType
<1>4. CASE (conn[r] = "none" <=> c = "none")
  <2>1. Holders' = Holders
    BY <1>4 DEF Holders
  <2> QED BY <1>1, <1>4, <2>1
<1> QED BY <1>2, <1>3, <1>4

\* Checking a connection in keeps the pool within its limit.
LEMMA CheckInKeepsPool ==
    ASSUME PoolInv, conn \in [Request -> Connection], NEW r \in Request,
           conn[r] = "live" => up, CheckIn(r), up' = up
    PROVE  PoolInv' /\ conn' = [conn EXCEPT ![r] = "none"]
<1>1. conn' = [conn EXCEPT ![r] = "none"]
  BY DEF CheckIn, Take
<1>2. Cardinality(Holders) \in Nat /\ Cardinality(Holders') \in Nat
  BY <1>1, HoldersFinite, HoldersChange
<1>3. idle.live \in Nat /\ idle.dead \in Nat /\ Capacity \in Nat
  BY CapacityNat DEF PoolInv
<1>4. CASE conn[r] = "live" /\ Pooled < pool_size
  <2>1. idle' = [idle EXCEPT !.live = @ + 1]
    BY <1>4 DEF CheckIn
  <2>2. /\ idle' \in [live: Nat, dead: Nat] /\ idle'.live = idle.live + 1
        /\ idle'.dead = idle.dead
    BY <2>1, <1>3 DEF PoolInv
  <2>3. Cardinality(Holders') = Cardinality(Holders) - 1
    BY <1>1, <1>4, HoldersChange
  <2>4. Pooled' = Pooled + 1
    BY <2>2, <1>3 DEF Pooled
  <2>5. Pooled \in Nat /\ Cardinality(Holders) + Pooled <= Capacity
    BY <1>3 DEF Pooled, PoolInv
  <2>6. Cardinality(Holders') + Pooled' <= Capacity
    BY <2>3, <2>4, <2>5, <1>2, <1>3
  <2> QED BY <1>1, <1>4, <2>2, <2>6 DEF PoolInv, Capacity
<1>5. CASE ~(conn[r] = "live" /\ Pooled < pool_size)
  <2>1. idle' = idle
    BY <1>5 DEF CheckIn
  <2>2. Cardinality(Holders') <= Cardinality(Holders)
    <3>1. CASE conn[r] = "none"
      <4>1. Holders' = Holders
        BY <1>1, <3>1 DEF Holders
      <4> QED BY <4>1, <1>2
    <3>2. CASE conn[r] # "none"
      <4>1. Cardinality(Holders') = Cardinality(Holders) - 1
        BY <1>1, <3>2, HoldersChange
      <4> QED BY <4>1, <1>2
    <3> QED BY <3>1, <3>2
  <2>3. Pooled' = Pooled /\ Pooled \in Nat /\ Cardinality(Holders) + Pooled <= Capacity
    BY <2>1, <1>3 DEF Pooled, PoolInv
  <2>4. Cardinality(Holders') + Pooled' <= Capacity
    BY <2>2, <2>3, <1>2, <1>3
  <2> QED BY <1>1, <2>1, <2>4 DEF PoolInv, Capacity
<1> QED BY <1>4, <1>5

\* A request that waits is handed a live connection or none.
LEMMA CheckoutKeepsPool ==
    ASSUME PoolInv, conn \in [Request -> Connection], NEW r \in Request,
           conn[r] = "none", Checkout(r), up' = up
    PROVE  PoolInv' /\ up /\ conn' = [conn EXCEPT ![r] = "live"]
<1>1. conn' = [conn EXCEPT ![r] = "live"] /\ up
  BY DEF Checkout, Take, PoolInv
<1>2. /\ Cardinality(Holders) \in Nat
      /\ Cardinality(Holders') = Cardinality(Holders) + 1
  <2>1. "live" # "none"
    OBVIOUS
  <2> QED BY <1>1, <2>1, HoldersFinite, HoldersChange
<1>3. /\ idle.live \in Nat /\ idle.dead \in Nat /\ Capacity \in Nat
      /\ Pooled \in Nat /\ Cardinality(Holders) + Pooled <= Capacity
  BY CapacityNat DEF PoolInv, Pooled
<1>4. idle' \in [live: Nat, dead: Nat] /\ Cardinality(Holders') + Pooled' <= Capacity
  <2>1. CASE idle.live > 0 /\ idle' = [idle EXCEPT !.live = @ - 1]
    <3>1. /\ idle' \in [live: Nat, dead: Nat] /\ idle'.live = idle.live - 1
          /\ idle'.dead = idle.dead
      BY <2>1, <1>3 DEF PoolInv
    <3>2. Pooled' = Pooled - 1
      BY <3>1, <1>3 DEF Pooled
    <3> QED BY <3>1, <3>2, <1>2, <1>3
  <2>2. CASE idle.dead > 0 /\ idle' = [idle EXCEPT !.dead = @ - 1]
    <3>1. /\ idle' \in [live: Nat, dead: Nat] /\ idle'.live = idle.live
          /\ idle'.dead = idle.dead - 1
      BY <2>2, <1>3 DEF PoolInv
    <3>2. Pooled' = Pooled - 1
      BY <3>1, <1>3 DEF Pooled
    <3> QED BY <3>1, <3>2, <1>2, <1>3
  <2>3. CASE Pooled = 0 /\ ~Exhausted /\ idle' = idle
    <3>1. Cardinality(Holders) < Capacity
      BY <2>3, <1>2, <1>3 DEF Exhausted
    <3>2. Pooled' = 0
      BY <2>3 DEF Pooled
    <3> QED BY <2>3, <3>1, <3>2, <1>2, <1>3 DEF PoolInv
  <2> QED BY <2>1, <2>2, <2>3 DEF Checkout
<1> QED BY <1>1, <1>4 DEF PoolInv, Capacity

\* A step that leaves the pool alone.
LEMMA KeepKeepsPool ==
    ASSUME PoolInv, Keep, up' = up
    PROVE  PoolInv'
BY DEF PoolInv, Keep, Pooled, Holders, Capacity
-----------------------------------------------------------------------------
\* What one request does is enough.
LEMMA StepKeeps ==
    ASSUME ServingInv, NEW r \in Request, NEW q, NEW c,
           Becomes(r, q, c), Sound(q, c)', PoolInv', AccountInv', Kept
    PROVE  ServingInv'
BY OthersSound DEF ServingInv

LEMMA NothingKept ==
    ASSUME AccountInv, UNCHANGED <<accounts, tokens>>
    PROVE  AccountInv' /\ Kept
BY DEF AccountInv, Kept

LEMMA AccountsKept ==
    ASSUME AccountInv, UNCHANGED accounts
    PROVE  Kept
BY DEF AccountInv, Kept

LEMMA AnswerFields ==
    ASSUME NEW q \in Local, NEW status \in Status, NEW a,
           a = Answered(q, status)
    PROVE  /\ a \in Local /\ a.step = "closing" /\ a.kind = q.kind
           /\ a.name = q.name /\ a.token = q.token /\ a.stored = q.stored
           /\ a.status = status /\ a.disturbed = q.disturbed
BY DEF Answered, Local, Step

\* A request that was under way and has its answer is sound, whether or not it
\* still holds its connection.
LEMMA AnswerSound ==
    ASSUME ServingInv, NEW r \in Request, req[r].step \in Waiting \cup Holding,
           NEW status \in Status \ {"none"}, NEW a,
           a = Answered(req[r], status),
           status = "unauthorized" => req[r].kind \notin Protected,
           NEW c \in {"none", conn[r]}, up' = up, Kept
    PROVE  Sound(a, c)'
<1>1. Sound(req[r], conn[r])
  BY DEF ServingInv, SlotInv
<1>2. req[r] \in Local /\ conn[r] \in Connection
  BY <1>1 DEF Sound, Shaped
<1>3. /\ a \in Local /\ a.step = "closing" /\ a.kind = req[r].kind
      /\ a.name = req[r].name /\ a.token = req[r].token
      /\ a.stored = req[r].stored /\ a.status = status
      /\ a.disturbed = req[r].disturbed
  <2>1. status \in Status
    OBVIOUS
  <2> QED BY <1>2, <2>1, AnswerFields
<1>4. Shaped(a, c)'
  BY <1>2, <1>3 DEF Shaped, Connection
<1>5. Connected(a, c)'
  BY <1>1, <1>3 DEF Sound, Connected, Waiting, Holding
<1>6. Answers(a)'
  BY <1>3 DEF Answers
<1>7. Entitled(a, c)'
  <2>1. req[r].name \in Name /\ BAD \notin Name
    BY <1>1, ServingAssumption DEF Sound, Entitled
  <2>2. a.stored /\ a.kind \in Protected => accounts[a.name] > 0
    BY <1>1, <1>3 DEF Sound, Entitled
  <2>3. req[r].kind \in Protected => req[r].token = "valid"
    BY <1>1 DEF Sound, Entitled
  <2>4. a.kind \in Protected => a.token = "valid" /\ a.status # "unauthorized"
    BY <1>3, <2>3
  <2>5. a.step \notin Waiting \cup Holding
    BY <1>3 DEF Waiting, Holding
  <2> QED BY <1>3, <2>1, <2>2, <2>4, <2>5 DEF Entitled, Kept
<1> QED BY <1>4, <1>5, <1>6, <1>7 DEF Sound

\* A request that goes on to another step, with what the step needs.
LEMMA GoneOnSound ==
    ASSUME ServingInv, NEW r \in Request, req[r].step \in Waiting \cup Holding,
           NEW a \in Local, a.step \in Waiting \cup Holding,
           a.kind = req[r].kind, a.name = req[r].name, a.token = req[r].token,
           a.status = req[r].status, a.disturbed = req[r].disturbed,
           a.kind = "health" => a.step = "ping",
           NEW c \in Connection,
           a.step \in Waiting <=> c = "none", c \in {"none", "live", conn[r]},
           c = "live" => up, up' = up, Kept
    PROVE  Sound(a, c)'
<1>1. Sound(req[r], conn[r])
  BY DEF ServingInv, SlotInv
<1>2. Connected(a, c)'
  BY <1>1 DEF Sound, Connected, Waiting, Holding
<1>3. Answers(a)'
  BY <1>1 DEF Sound, Answers, Waiting, Holding
<1>4. Entitled(a, c)'
  BY <1>1, ServingAssumption DEF Sound, Entitled, Kept
<1> QED BY <1>2, <1>3, <1>4 DEF Sound, Shaped

LEMMA RaiseKeeps ==
    ASSUME ServingInv, NEW r \in Request, req[r].step \in Waiting \cup Holding,
           NEW status \in Status \ {"none"}, Raise(r, status), up' = up,
           status = "unauthorized" => req[r].kind \notin Protected,
           AccountInv', Kept
    PROVE  ServingInv'
<1>1. PICK a : a = Answered(req[r], status)
  OBVIOUS
<1>2. Sound(req[r], conn[r]) /\ PoolInv /\ req \in [Request -> Local]
      /\ conn \in [Request -> Connection]
  BY DEF ServingInv, SlotInv
<1>3. PoolInv' /\ conn' = [conn EXCEPT ![r] = "none"]
  BY <1>2, CheckInKeepsPool DEF Raise, Sound, Connected
<1>4. Becomes(r, a, "none")
  BY <1>1, <1>2, <1>3 DEF Raise, Becomes
<1>5. Sound(a, "none")'
  <2>1. "none" \in {"none", conn[r]}
    OBVIOUS
  <2> QED BY <1>1, <2>1, AnswerSound
<1> QED BY <1>3, <1>4, <1>5, StepKeeps

LEMMA ReturnKeeps ==
    ASSUME ServingInv, NEW r \in Request, req[r].step \in Waiting \cup Holding,
           NEW status \in Status \ {"none"}, Return(r, status), up' = up,
           status = "unauthorized" => req[r].kind \notin Protected,
           AccountInv', Kept
    PROVE  ServingInv'
<1>1. PICK a : a = Answered(req[r], status)
  OBVIOUS
<1>2. PoolInv /\ req \in [Request -> Local] /\ conn \in [Request -> Connection]
  BY DEF ServingInv, SlotInv
<1>3. PoolInv'
  BY <1>2, KeepKeepsPool DEF Return
<1>4. Becomes(r, a, conn[r])
  BY <1>1, <1>2 DEF Return, Keep, Becomes
<1>5. PICK c \in {"none", conn[r]} : c = conn[r]
  OBVIOUS
<1>6. Sound(a, c)'
  BY <1>1, AnswerSound
<1>7. Becomes(r, a, c)
  BY <1>4, <1>5
<1> QED BY <1>3, <1>6, <1>7, StepKeeps

\* From one statement to the next, with the same connection.
LEMMA GotoKeeps ==
    ASSUME ServingInv, NEW r \in Request, req[r].step \in Holding,
           NEW step \in Holding, Goto(r, step), Keep, ~Is(r, "health"),
           UNCHANGED <<up, accounts, tokens>>
    PROVE  ServingInv'
<1>1. /\ PoolInv /\ AccountInv /\ req \in [Request -> Local]
      /\ conn \in [Request -> Connection] /\ Sound(req[r], conn[r])
  BY DEF ServingInv, SlotInv
<1>2. PICK a : a = [req[r] EXCEPT !.step = step]
  OBVIOUS
<1>3. /\ a \in Local /\ a.step = step /\ a.kind = req[r].kind
      /\ a.name = req[r].name /\ a.token = req[r].token
      /\ a.status = req[r].status /\ a.disturbed = req[r].disturbed
  BY <1>1, <1>2 DEF Local, Step
<1>4. PICK c : c = conn[r]
  OBVIOUS
<1>5. Becomes(r, a, c)
  BY <1>1, <1>2, <1>4 DEF Goto, Keep, Becomes
<1>6. PoolInv' /\ AccountInv' /\ Kept
  BY <1>1, KeepKeepsPool, NothingKept
<1>7. /\ c \in Connection /\ c # "none"
      /\ c = "live" => up
      /\ a.step \notin Waiting
  BY <1>1, <1>3, <1>4 DEF Sound, Shaped, Connected, Holding, Waiting
<1>8. Sound(a, c)'
  <2>1. /\ req[r].step \in Waiting \cup Holding /\ a.step \in Waiting \cup Holding
        /\ (a.step \in Waiting <=> c = "none") /\ up' = up
        /\ c \in {"none", "live", conn[r]}
    <3>1. req[r].step \in Waiting \cup Holding /\ a.step \in Waiting \cup Holding
      BY <1>3
    <3>2. a.step \in Waiting <=> c = "none"
      BY <1>7
    <3>3. c \in {"none", "live", conn[r]}
      BY <1>4
    <3> QED BY <3>1, <3>2, <3>3
  <2>2. a.kind # "health"
    BY <1>3 DEF Is
  <2> QED BY <1>3, <1>6, <1>7, <2>1, <2>2, GoneOnSound
<1> QED BY <1>5, <1>6, <1>8, StepKeeps

\* A connection is handed to a request that waits.
LEMMA ConnectKeeps ==
    ASSUME ServingInv, NEW r \in Request, Connect(r)
    PROVE  ServingInv'
<1>1. /\ PoolInv /\ AccountInv /\ req \in [Request -> Local]
      /\ conn \in [Request -> Connection] /\ Sound(req[r], conn[r])
      /\ req[r].step \in Waiting
  BY DEF ServingInv, SlotInv, Connect
<1>2. PICK step : step = NextStep(req[r])
  OBVIOUS
<1>3. step \in Holding
  BY <1>2 DEF NextStep, Holding
<1>4. PICK a : a = [req[r] EXCEPT !.step = step]
  OBVIOUS
<1>5. /\ a \in Local /\ a.step = step /\ a.kind = req[r].kind
      /\ a.name = req[r].name /\ a.token = req[r].token
      /\ a.status = req[r].status /\ a.disturbed = req[r].disturbed
  BY <1>1, <1>3, <1>4 DEF Local, Step
<1>6. conn[r] = "none"
  BY <1>1 DEF Sound, Connected
<1>7. PoolInv' /\ up /\ conn' = [conn EXCEPT ![r] = "live"]
  BY <1>1, <1>6, CheckoutKeepsPool DEF Connect
<1>8. Becomes(r, a, "live")
  BY <1>2, <1>4, <1>7 DEF Connect, Goto, Becomes
<1>9. AccountInv' /\ Kept /\ up' = up
  BY <1>1, NothingKept DEF Connect
<1>10. /\ "live" \in Connection /\ "live" \in {"none", "live", conn[r]}
       /\ a.step \notin Waiting /\ "live" # "none" /\ a.step \in Waiting \cup Holding
  BY <1>3, <1>5 DEF Connection, Waiting, Holding
<1>11. a.kind = "health" => a.step = "ping"
  <2>1. req[r].kind = "health" => req[r].step # "reconnect"
    BY <1>1 DEF Sound, Answers
  <2> QED BY <1>2, <1>5, <2>1 DEF NextStep
<1>12. Sound(a, "live")'
  BY <1>1, <1>5, <1>7, <1>9, <1>10, <1>11, GoneOnSound
<1> QED BY <1>7, <1>8, <1>9, <1>12, StepKeeps

LEMMA OtherwiseNothing ==
    ASSUME ServingInv
    PROVE  /\ PoolInv /\ AccountInv /\ SlotInv
           /\ UNCHANGED <<accounts, tokens>> => AccountInv' /\ Kept
BY NothingKept DEF ServingInv

\* Before a connection is there, and when it breaks.
LEMMA WaitingKeeps ==
    ASSUME ServingInv, NEW r \in Request, ConnectFails(r) \/ GiveUp(r)
    PROVE  ServingInv'
<1>1. AccountInv' /\ Kept /\ up' = up /\ req[r].step \in Waiting \cup Holding
  BY OtherwiseNothing DEF ConnectFails, GiveUp
<1>2. PICK status \in {"unreachable", "timeout", "internal_error"} : Raise(r, status)
  BY DEF ConnectFails, GiveUp, Failed
<1>3. status \in Status \ {"none"}
  BY DEF Status
<1> QED BY <1>1, <1>2, <1>3, RaiseKeeps

LEMMA BreaksKeeps ==
    ASSUME ServingInv, NEW r \in Request, Breaks(r)
    PROVE  ServingInv'
<1>1. up' = up /\ req[r].step \in Waiting \cup Holding /\ AccountInv
  BY DEF Breaks, ServingInv
<1>2. PICK status \in {"unreachable", "internal_error"} : Raise(r, status)
  BY DEF Breaks, Failed
<1>3. status \in Status \ {"none"}
  BY DEF Status
<1>4. AccountInv' /\ Kept
  <2>1. CASE UNCHANGED accounts
    BY <2>1, OtherwiseNothing DEF Breaks
  <2>2. CASE accounts' = [accounts EXCEPT ![req[r].name] = 1]
    <3>1. /\ accounts' \in [Name -> Nat]
          /\ \A n \in Name : accounts'[n] = accounts[n] \/ accounts'[n] = 1
      BY <1>1, <2>2 DEF AccountInv
    <3>2. tokens' = tokens
      BY DEF Breaks
    <3> QED BY <1>1, <3>1, <3>2 DEF AccountInv, Kept
  <2> QED BY <2>1, <2>2 DEF Breaks
<1> QED BY <1>1, <1>2, <1>3, <1>4, RaiseKeeps

\* The look-ups and what follows them, up to the commit.
LEMMA SelectKeeps ==
    ASSUME ServingInv, NEW r \in Request, Refuse(r) \/ Read(r) \/ Proceed(r)
    PROVE  ServingInv'
<1>1. /\ AccountInv' /\ Kept /\ up' = up /\ req[r].step \in Waiting \cup Holding
      /\ req[r].step \in Holding /\ UNCHANGED <<up, accounts, tokens>>
  BY OtherwiseNothing DEF Refuse, Read, Proceed, Statement, At, Holding
<1>2. CASE Refuse(r)
  <2>1. PICK status \in {"unauthorized", "refused"} :
           Raise(r, status) /\ (status = "unauthorized" => Is(r, "login"))
    BY <1>2 DEF Refuse
  <2>2. status \in Status \ {"none"}
    BY DEF Status
  <2>3. status = "unauthorized" => req[r].kind \notin Protected
    BY <2>1 DEF Is, Protected
  <2> QED BY <1>1, <2>1, <2>2, <2>3, RaiseKeeps
<1>3. CASE Read(r)
  <2>1. "ok" \in Status \ {"none"} /\ Return(r, "ok")
    BY <1>3 DEF Status, Read
  <2> QED BY <1>1, <2>1, ReturnKeeps
<1>4. CASE Proceed(r)
  <2>1. PICK step \in {"commit", "weather"} : Goto(r, step) /\ Keep
    BY <1>4 DEF Proceed
  <2>2. step \in Holding
    BY DEF Holding
  <2>3. ~Is(r, "health")
    BY <1>4 DEF Proceed, Is
  <2> QED BY <1>1, <2>1, <2>2, <2>3, GotoKeeps
<1> QED BY <1>2, <1>3, <1>4

LEMMA LoginKeeps ==
    ASSUME ServingInv, NEW r \in Request, login(r)
    PROVE  ServingInv'
<1>1. AccountInv /\ Sound(req[r], conn[r]) /\ req[r].step \in Holding
      /\ up' = up /\ accounts' = accounts
  BY DEF ServingInv, SlotInv, login, Statement, At, Holding
<1>2. req[r].name \in Name
  BY <1>1 DEF Sound, Entitled
<1>3. AccountInv' /\ Kept
  BY <1>1, <1>2 DEF login, AccountInv, Token, Kept
<1>4. "ok" \in Status \ {"none"} /\ Return(r, "ok")
  BY DEF Status, login
<1> QED BY <1>1, <1>3, <1>4, ReturnKeeps

LEMMA WeatherKeeps ==
    ASSUME ServingInv, NEW r \in Request, Weather(r)
    PROVE  ServingInv'
<1>1. /\ AccountInv' /\ Kept /\ up' = up /\ req[r].step \in Waiting \cup Holding
      /\ req[r].step \in Holding /\ UNCHANGED <<up, accounts, tokens>>
  BY OtherwiseNothing DEF Weather, At, Holding
<1>2. "ok" \in Status \ {"none"} /\ "commit" \in Holding
  BY DEF Status, Holding
<1>3. CASE Return(r, "ok")
  BY <1>1, <1>2, <1>3, ReturnKeeps
<1>4. CASE Goto(r, "commit") /\ Keep
  <2>1. ~Is(r, "health")
    BY DEF Weather, At, Is, ServingInv, SlotInv, Sound, Answers
  <2> QED BY <1>1, <1>2, <1>4, <2>1, GotoKeeps
<1> QED BY <1>3, <1>4 DEF Weather

\* Closing, and what comes in on the free slot.
LEMMA BlankFields ==
    /\ Blank \in Local /\ Blank.step = "idle" /\ Blank.status = "none"
    /\ Blank.stored = FALSE /\ Blank.kind = "root"
BY DEF Blank, Local, Token, Step, Kind, Status

LEMMA CloseKeeps ==
    ASSUME ServingInv, NEW r \in Request, Close(r)
    PROVE  ServingInv'
<1>1. /\ PoolInv /\ req \in [Request -> Local] /\ Sound(req[r], conn[r])
      /\ conn \in [Request -> Connection] /\ AccountInv' /\ Kept /\ up' = up
  BY OtherwiseNothing DEF SlotInv, Close
<1>2. PoolInv' /\ conn' = [conn EXCEPT ![r] = "none"]
  BY <1>1, CheckInKeepsPool DEF Close, Sound, Connected
<1>3. PICK b : b = Blank
  OBVIOUS
<1>4. Sound(b, "none")'
  BY <1>3, BlankFields DEF Sound, Shaped, Connection, Connected, Answers,
     Entitled, Waiting, Holding, Protected
<1>5. Becomes(r, b, "none")
  BY <1>1, <1>2, <1>3 DEF Close, Becomes
<1> QED BY <1>1, <1>2, <1>4, <1>5, StepKeeps

LEMMA ArriveKeeps ==
    ASSUME ServingInv, NEW r \in Request, NEW c \in Calls[r], Arrive(r, c)
    PROVE  ServingInv'
<1> DEFINE q == Arrived(c)
<1>1. /\ PoolInv /\ AccountInv /\ req \in [Request -> Local]
      /\ conn \in [Request -> Connection] /\ Sound(req[r], conn[r])
      /\ AccountInv' /\ Kept /\ up' = up /\ accounts' = accounts /\ conn' = conn
  BY OtherwiseNothing DEF SlotInv, Arrive
<1>2. conn[r] = "none"
  BY <1>1 DEF Arrive, Running, Sound, Connected
<1>3. /\ c.kind \in Kind /\ c.name \in Name \cup {BAD}
      /\ c.kind \notin Protected => c.name \in Name
  <2>1. c \in Call
    BY ServingAssumption
  <2> QED BY <2>1 DEF Call, Kind, Protected
<1>4. up \in BOOLEAN
  BY <1>1 DEF PoolInv
<1>5. /\ q \in Local /\ q.step = "connect" /\ q.kind = c.kind /\ q.name = c.name
      /\ q.disturbed = ~up /\ q.status = "none" /\ q.stored = FALSE
      /\ q.token = Bearer(c)
  <2>1. Bearer(c) \in Token
    BY <1>1, <1>3 DEF Bearer, AccountInv, Token
  <2> QED BY <1>3, <1>4, <2>1 DEF Arrived, Local, Step, Status, Waiting
<1> HIDE DEF q
<1>6. Admitted(q) =>
         /\ c.kind \in Protected => q.token = "valid"
         /\ c.name \in Name /\ (c.kind \in Protected => accounts[c.name] > 0)
  BY <1>1, <1>3, <1>5 DEF Admitted, Bearer, AccountInv
<1>7. PoolInv'
  <2>1. Keep
    BY DEF Arrive, Keep
  <2> QED BY <1>1, <2>1, KeepKeepsPool
<1>8. CASE Admitted(q) /\ req' = [req EXCEPT ![r] = q]
  <2>1. PICK a : a = q
    OBVIOUS
  <2>2. Sound(a, "none")'
    BY <1>1, <1>2, <1>4, <1>5, <1>6, <1>8, <2>1, ServingAssumption DEF Sound,
       Shaped, Connection, Connected, Answers, Entitled, Waiting, Holding
  <2>3. Becomes(r, a, "none")
    BY <1>1, <1>2, <1>8, <2>1 DEF Becomes
  <2> QED BY <1>1, <1>7, <2>2, <2>3, StepKeeps
<1>9. ASSUME NEW status \in {"ok", "unauthorized"},
             req' = [req EXCEPT ![r] = Answered(q, status)],
             status = "unauthorized" => ~Admitted(q),
             c.kind \in Protected => status = "unauthorized"
      PROVE  ServingInv'
  <2>1. PICK a : a = Answered(q, status)
    OBVIOUS
  <2>2. status \in Status /\ status # "none" /\ status # "internal_error"
    BY DEF Status
  <2>3. /\ a \in Local /\ a.step = "closing" /\ a.kind = q.kind
        /\ a.name = q.name /\ a.token = q.token /\ a.stored = q.stored
        /\ a.status = status /\ a.disturbed = q.disturbed
    BY <1>5, <2>1, <2>2, AnswerFields
  <2>4. Sound(a, "none")'
    <3>1. Shaped(a, "none")' /\ Connected(a, "none")'
      BY <1>1, <1>4, <1>5, <2>3 DEF Shaped, Connection, Connected, Waiting, Holding
    <3>2. Answers(a)'
      BY <1>5, <2>2, <2>3 DEF Answers
    <3>3. Entitled(a, "none")'
      BY <1>5, <1>9, <2>3 DEF Admitted, Entitled, Waiting, Holding
    <3> QED BY <3>1, <3>2, <3>3 DEF Sound
  <2>5. Becomes(r, a, "none")
    BY <1>1, <1>2, <1>9, <2>1 DEF Becomes
  <2> QED BY <1>1, <1>7, <2>4, <2>5, StepKeeps
<1>10. CASE c.kind = "root" /\ req' = [req EXCEPT ![r] = Answered(q, "ok")]
  BY <1>9, <1>10 DEF Protected
<1>11. CASE ~Admitted(q) /\ req' = [req EXCEPT ![r] = Answered(q, "unauthorized")]
  BY <1>9, <1>11
<1> QED BY <1>8, <1>10, <1>11 DEF Arrive, q

\* What is stored is stored for an account that exists, and the connection is
\* back in the pool.
LEMMA StoredKeeps ==
    ASSUME ServingInv, NEW r \in Request, At(r, "commit"), Stored(r), up' = up,
           AccountInv', Kept
    PROVE  ServingInv'
<1>1. /\ PoolInv /\ req \in [Request -> Local] /\ Sound(req[r], conn[r])
      /\ conn \in [Request -> Connection] /\ req[r] \in Local
  BY DEF ServingInv, SlotInv
<1>2. req[r].step = "commit" /\ req[r].step \in Waiting \cup Holding
  BY DEF At, Holding
<1>3. PoolInv' /\ conn' = [conn EXCEPT ![r] = "none"]
  BY <1>1, CheckInKeepsPool DEF Stored, Sound, Connected
<1>4. /\ req[r].name \in Name /\ (req[r].kind \in Protected => accounts[req[r].name] > 0)
      /\ req[r].name # BAD
  BY <1>1, <1>2, ServingAssumption DEF Sound, Entitled
<1>5. /\ req[r].status = "none" /\ req[r].kind # "health"
      /\ req[r].kind \in Protected => req[r].token = "valid"
  BY <1>1, <1>2 DEF Sound, Answers, Entitled
<1>6. CASE Is(r, "delete")
  <2>1. PICK b : b = Answered(req[r], "ok")
    OBVIOUS
  <2>2. "ok" \in Status /\ "ok" \in Status \ {"none"} /\ "none" \in {"none", conn[r]}
    BY DEF Status
  <2>3. /\ b \in Local /\ b.step = "closing" /\ b.kind = req[r].kind
        /\ b.name = req[r].name /\ b.token = req[r].token /\ b.status = "ok"
        /\ b.disturbed = req[r].disturbed
    BY <1>1, <2>1, <2>2, AnswerFields
  <2>4. PICK a : a = [b EXCEPT !.stored = TRUE]
    OBVIOUS
  <2>5. /\ a \in Local /\ a.step = b.step /\ a.kind = b.kind /\ a.name = b.name
        /\ a.token = b.token /\ a.status = b.status
        /\ a.disturbed = b.disturbed
    BY <2>3, <2>4 DEF Local
  <2>6. Sound(b, "none")'
    BY <1>2, <2>1, <2>2, AnswerSound
  <2>7. Sound(a, "none")'
    <3>1. Shaped(a, "none")' /\ Connected(a, "none")' /\ Answers(a)'
      BY <2>3, <2>5, <2>6 DEF Sound, Shaped, Connected, Answers
    <3>2. Entitled(a, "none")'
      BY <1>4, <1>5, <2>3, <2>5 DEF Entitled, Kept, Waiting, Holding
    <3> QED BY <3>1, <3>2 DEF Sound
  <2>8. Becomes(r, a, "none")
    BY <1>1, <1>3, <1>6, <2>1, <2>4 DEF Stored, Becomes
  <2> QED BY <1>3, <2>7, <2>8, StepKeeps
<1>7. CASE ~Is(r, "delete")
  <2>1. PICK b : b = [req[r] EXCEPT !.stored = TRUE]
    OBVIOUS
  <2>2. /\ b \in Local /\ b.kind = req[r].kind /\ b.name = req[r].name
        /\ b.token = req[r].token /\ b.status = req[r].status
        /\ b.disturbed = req[r].disturbed
    BY <1>1, <2>1 DEF Local
  <2>3. PICK a : a = [b EXCEPT !.step = "reconnect"]
    OBVIOUS
  <2>4. /\ a \in Local /\ a.step = "reconnect" /\ a.kind = req[r].kind
        /\ a.name = req[r].name /\ a.token = req[r].token
        /\ a.status = req[r].status /\ a.disturbed = req[r].disturbed
    BY <2>2, <2>3 DEF Local, Step, Waiting
  <2>5. /\ a.step \in Waiting /\ a.step \in Waiting \cup Holding
        /\ "none" \in Connection /\ "none" \in {"none", "live", conn[r]}
        /\ "none" # "live"
    BY <2>4 DEF Waiting, Connection
  <2>6. Sound(a, "none")'
    BY <1>2, <1>5, <2>4, <2>5, GoneOnSound
  <2>7. a = [req[r] EXCEPT !.stored = TRUE, !.step = "reconnect"]
    BY <2>1, <2>3, Zenon
  <2>8. Becomes(r, a, "none")
    BY <1>1, <1>3, <1>7, <2>7 DEF Stored, Becomes
  <2> QED BY <1>3, <2>6, <2>8, StepKeeps
<1> QED BY <1>6, <1>7

LEMMA CommitKeeps ==
    ASSUME ServingInv, NEW r \in Request, Commit(r) \/ Register(r)
    PROVE  ServingInv'
<1>1. /\ At(r, "commit") /\ req[r].step \in Waiting \cup Holding
      /\ up' = up /\ AccountInv
  BY DEF Commit, Register, Statement, At, Holding, ServingInv
<1>2. AccountInv' /\ Kept
  <2>1. CASE UNCHANGED <<accounts, tokens>>
    BY <2>1, OtherwiseNothing
  <2>2. CASE accounts' = [accounts EXCEPT ![req[r].name] = 1] /\ tokens' = tokens
    <3>1. /\ accounts' \in [Name -> Nat]
          /\ \A n \in Name : accounts'[n] = accounts[n] \/ accounts'[n] = 1
      BY <1>1, <2>2 DEF AccountInv
    <3> QED BY <1>1, <2>2, <3>1 DEF AccountInv, Kept
  <2> QED BY <2>1, <2>2 DEF Commit, Register
<1>3. "refused" \in Status \ {"none"}
  BY DEF Status
<1>4. CASE Stored(r)
  BY <1>1, <1>2, <1>4, StoredKeeps
<1>5. CASE Raise(r, "refused")
  BY <1>1, <1>2, <1>3, <1>5, RaiseKeeps
<1> QED BY <1>4, <1>5 DEF Commit, Register

LEMMA LastKeeps ==
    ASSUME ServingInv, NEW r \in Request,
           Refresh(r) \/ health_check(r) \/ HealthTimeout(r)
    PROVE  ServingInv'
<1>1. /\ AccountInv' /\ Kept /\ up' = up /\ req[r].step \in Waiting \cup Holding
  BY OtherwiseNothing DEF Refresh, health_check, HealthTimeout, Statement, At,
     Waiting, Holding
<1>2. "ok" \in Status \ {"none"} /\ "timeout" \in Status \ {"none"}
  BY DEF Status
<1>3. Return(r, "ok") \/ Raise(r, "ok") \/ Raise(r, "timeout")
  BY DEF Refresh, health_check, HealthTimeout
<1> QED BY <1>1, <1>2, <1>3, RaiseKeeps, ReturnKeeps

\* An outage breaks what is pooled and what is held, and disturbs who is running.
LEMMA OutageKeeps ==
    ASSUME ServingInv, GoDown
    PROVE  ServingInv'
<1>1. PoolInv /\ AccountInv /\ SlotInv
  BY DEF ServingInv
<1>2. PoolInv'
  <2>1. Holders' = Holders
    BY <1>1 DEF SlotInv, GoDown, Outage, Broken, Holders
  <2>2. Pooled \in Nat /\ Pooled' = Pooled
    BY <1>1 DEF PoolInv, GoDown, Outage, Pooled
  <2>3. /\ up' = FALSE /\ idle'.live = 0 /\ idle' \in [live: Nat, dead: Nat]
    BY <2>2 DEF GoDown, Outage
  <2>4. Cardinality(Holders') + Pooled' <= Capacity
    BY <1>1, <2>1, <2>2 DEF PoolInv
  <2>5. up' \in BOOLEAN /\ (idle'.live > 0 => up')
    <3>1. up' \in BOOLEAN
      BY <2>3
    <3>2. ~(idle'.live > 0)
      BY <2>3
    <3> QED BY <3>1, <3>2
  <2>6. Capacity' = Capacity
    BY DEF Capacity
  <2> QED BY <2>3, <2>4, <2>5, <2>6 DEF PoolInv
<1>3. AccountInv'
  BY <1>1, NothingKept DEF GoDown
<1>4. ASSUME NEW r \in Request PROVE Sound(req[r], conn[r])'
  <2>1. PICK q \in Local : q = req[r]
    BY <1>1 DEF SlotInv
  <2>2. PICK a : a = req'[r]
    OBVIOUS
  <2>3. PICK c \in Connection : c = conn[r]
    BY <1>1 DEF SlotInv
  <2>4. Sound(q, c)
    BY <1>1, <2>1, <2>3 DEF SlotInv
  <2>5. conn'[r] = Broken(c) /\ up' = FALSE /\ accounts' = accounts
    BY <2>3 DEF GoDown, Outage
  <2>6. a = IF q.step # "idle" THEN [q EXCEPT !.disturbed = TRUE] ELSE q
    BY <2>1, <2>2 DEF GoDown, Running
  <2>7. /\ a \in Local /\ a.step = q.step /\ a.kind = q.kind /\ a.name = q.name
        /\ a.token = q.token /\ a.stored = q.stored /\ a.status = q.status
        /\ (q.step # "idle" => a.disturbed = TRUE)
    BY <2>6 DEF Local
  <2>8. PICK d : d = Broken(c)
    OBVIOUS
  <2>9. d \in Connection /\ d # "live" /\ (d = "none" <=> c = "none")
    BY <2>8 DEF Broken, Connection
  <2>10. Sound(a, d)'
    <3>1. Shaped(a, d)' /\ Connected(a, d)'
      BY <2>4, <2>5, <2>7, <2>9 DEF Sound, Shaped, Connected, Waiting, Holding
    <3>2. Answers(a)'
      BY <2>4, <2>7 DEF Sound, Answers
    <3>3. Entitled(a, d)'
      BY <2>4, <2>5, <2>7, <2>9 DEF Sound, Entitled
    <3> QED BY <3>1, <3>2, <3>3 DEF Sound
  <2> QED BY <2>2, <2>5, <2>8, <2>10
<1>5. req' \in [Request -> Local] /\ conn' \in [Request -> Connection]
  BY <1>1 DEF SlotInv, GoDown, Outage, Broken, Connection, Local
<1> QED BY <1>2, <1>3, <1>4, <1>5 DEF ServingInv, SlotInv

LEMMA RecoveryKeeps ==
    ASSUME ServingInv, ComeUp
    PROVE  ServingInv'
<1>1. /\ PoolInv /\ AccountInv /\ SlotInv
      /\ UNCHANGED <<idle, conn, accounts, tokens, req>> /\ ~up /\ up' = TRUE
  BY DEF ServingInv, ComeUp, Recovery, Keep
<1>2. PoolInv'
  BY <1>1 DEF PoolInv, Holders, Pooled, Capacity
<1>3. ASSUME NEW r \in Request PROVE Sound(req[r], conn[r])'
  <2>1. Sound(req[r], conn[r])
    BY <1>1 DEF SlotInv
  <2> QED BY <1>1, <2>1 DEF Sound, Shaped, Connected, Answers, Entitled
<1> QED BY <1>1, <1>2, <1>3, NothingKept DEF ServingInv, SlotInv

LEMMA ExpiryKeeps ==
    ASSUME ServingInv, NEW n \in Name, Expire(n)
    PROVE  ServingInv'
<1>1. /\ PoolInv /\ AccountInv /\ SlotInv
      /\ UNCHANGED <<up, idle, conn, accounts, req>>
      /\ tokens[n] = "valid" /\ tokens' = [tokens EXCEPT ![n] = "expired"]
  BY DEF ServingInv, Expire
<1>2. PoolInv' /\ AccountInv'
  BY <1>1 DEF PoolInv, Holders, Pooled, Capacity, AccountInv, Token
<1>3. ASSUME NEW r \in Request PROVE Sound(req[r], conn[r])'
  <2>1. Sound(req[r], conn[r])
    BY <1>1 DEF SlotInv
  <2> QED BY <1>1, <2>1 DEF Sound, Shaped, Connected, Answers, Entitled
<1> QED BY <1>1, <1>2, <1>3 DEF ServingInv, SlotInv

LEMMA NothingKeeps ==
    ASSUME ServingInv, UNCHANGED servingVars
    PROVE  ServingInv'
<1>1. /\ PoolInv /\ AccountInv /\ SlotInv
      /\ UNCHANGED <<up, idle, conn, accounts, tokens, req>>
  BY DEF ServingInv, servingVars
<1>2. PoolInv' /\ AccountInv'
  BY <1>1 DEF PoolInv, Holders, Pooled, Capacity, AccountInv
<1>3. ASSUME NEW r \in Request PROVE Sound(req[r], conn[r])'
  <2>1. Sound(req[r], conn[r])
    BY <1>1 DEF SlotInv
  <2> QED BY <1>1, <2>1 DEF Sound, Shaped, Connected, Answers, Entitled
<1> QED BY <1>1, <1>2, <1>3 DEF ServingInv, SlotInv
-----------------------------------------------------------------------------
LEMMA ServingInitially == ServingInit => ServingInv
<1> SUFFICES ASSUME ServingInit PROVE ServingInv
  OBVIOUS
<1>1. Cardinality(Holders) + Pooled <= Capacity
  <2>1. Holders = {}
    BY DEF ServingInit, PoolInit, Holders
  <2>2. Cardinality({}) = 0
    BY FS_EmptySet
  <2>3. Pooled = 0
    BY DEF ServingInit, PoolInit, Pooled
  <2> QED BY <2>1, <2>2, <2>3, CapacityNat
<1>2. PoolInv /\ AccountInv
  BY <1>1 DEF ServingInit, PoolInit, PoolInv, AccountInv, Token
<1>3. ASSUME NEW r \in Request PROVE Sound(req[r], conn[r])
  <2>1. req[r] = Blank /\ conn[r] = "none"
    BY DEF ServingInit, PoolInit
  <2>2. Sound(Blank, "none")
    BY BlankFields DEF Sound, Shaped, Connection, Connected, Answers, Entitled,
       Waiting, Holding, Protected
  <2> QED BY <2>1, <2>2
<1>4. req \in [Request -> Local] /\ conn \in [Request -> Connection]
  BY BlankFields DEF ServingInit, PoolInit, Connection
<1> QED BY <1>2, <1>3, <1>4 DEF ServingInv, SlotInv

LEMMA ServingStep == ServingInv /\ [ServingNext]_servingVars => ServingInv'
<1> SUFFICES ASSUME ServingInv, [ServingNext]_servingVars PROVE ServingInv'
  OBVIOUS
<1>1. ASSUME NEW r \in Request, Serve(r) PROVE ServingInv'
  BY <1>1, ConnectKeeps, WaitingKeeps, BreaksKeeps, SelectKeeps, LoginKeeps,
     WeatherKeeps, CommitKeeps, LastKeeps, CloseKeeps DEF Serve
<1>2. ASSUME NEW r \in Request, NEW c \in Calls[r], Arrive(r, c) PROVE ServingInv'
  BY <1>2, ArriveKeeps
<1> QED
  BY <1>1, <1>2, ExpiryKeeps, OutageKeeps, RecoveryKeeps, NothingKeeps
  DEF ServingNext

\* The invariant the theorems below rest on.
LEMMA ServingInvariant == ServingSpec => []ServingInv
BY ServingInitially, ServingStep, PTL DEF ServingSpec

\* Shapes, for any number of requests and any pool.
THEOREM ServingTypeCorrect == ServingSpec => []ServingTypeOK
<1>1. ServingInv => ServingTypeOK
  BY DEF ServingInv, PoolInv, AccountInv, SlotInv, Sound, Connected, ServingTypeOK
<1> QED BY ServingInvariant, <1>1, PTL

\* The pool never exceeds its limit and always drains.
THEOREM PoolCorrect == ServingSpec => []PoolSound
<1>1. ServingInv => PoolSound
  BY DEF ServingInv, PoolInv, SlotInv, Sound, Connected, PoolSound
<1> QED BY ServingInvariant, <1>1, PTL

\* Without a token that is valid a protected route answers 401 and nothing else,
\* and takes no connection; only accounts that exist store anything.
THEOREM StrangersCorrect == ServingSpec => []StrangersKeptOut
<1>1. ServingInv => StrangersKeptOut
  BY DEF ServingInv, AccountInv, SlotInv, Sound, Entitled, StrangersKeptOut
<1> QED BY ServingInvariant, <1>1, PTL

\* A user name is registered once, however the registrations overlap.
THEOREM AccountsCorrect == ServingSpec => []OneAccountPerName
<1>1. ServingInv => OneAccountPerName
  BY DEF ServingInv, AccountInv, OneAccountPerName
<1> QED BY ServingInvariant, <1>1, PTL
-----------------------------------------------------------------------------
LEMMA OnlyOwnMoves ==
    ASSUME ServingInv, NEW s \in Request,
           Serve(s) \/ \E c \in Calls[s] : Arrive(s, c),
           NEW r \in Request, r # s
    PROVE  req'[r] = req[r]
<1>1. req \in [Request -> Local]
  BY DEF ServingInv, SlotInv
<1> QED
  BY <1>1 DEF Serve, Connect, ConnectFails, GiveUp, Breaks, Refuse, Read, login,
     Proceed, Weather, Commit, Register, Refresh, health_check, HealthTimeout,
     Close, Arrive, Failed, Raise, Return, Goto, Stored

\* What the probe may answer.
Probed(r, status) ==
    status # "none" =>
        /\ status \in {"ok", "timeout", "unreachable"}
        /\ status = "ok" => up
        /\ status = "unreachable" =>
              req[r].disturbed /\ ~(At(r, "connect") /\ Exhausted)

\* What an answer of the shell can be: internal_error comes from a connection
\* that cannot be had or breaks, unreachable likewise, ok after a ping from a
\* live connection.
LEMMA FailureCauses ==
    ASSUME ServingInv, NEW r \in Request, Serve(r), req[r].status = "none"
    PROVE  /\ req'[r].status = "internal_error" =>
                 \/ req[r].disturbed
                 \/ Exhausted /\ req[r].step \in Waiting
           /\ Is(r, "health") => Probed(r, req'[r].status)
<1>1. /\ req \in [Request -> Local] /\ req[r] \in Local
      /\ Connected(req[r], conn[r])
      /\ Is(r, "health") => req[r].step \in {"connect", "ping", "closing"}
  BY DEF ServingInv, SlotInv, Sound, Shaped, Answers, Is
<1>2. \A status \in Status : Answered(req[r], status).status = status
  BY <1>1, AnswerFields
<1>3. /\ "ok" \in Status /\ "refused" \in Status /\ "unauthorized" \in Status
      /\ "timeout" \in Status
  BY DEF Status
<1>4. CASE ConnectFails(r) \/ Breaks(r)
  <2>1. req[r].disturbed
    BY <1>1, <1>4 DEF ConnectFails, Breaks, CannotConnect, Connected, Waiting, Holding
  <2>2. ~(At(r, "connect") /\ Exhausted)
    BY <1>4 DEF ConnectFails, Breaks, CannotConnect, At, Holding
  <2>3. PICK why \in {"unreachable", "internal_error"} :
           Raise(r, why) /\ (Is(r, "health") => why = "unreachable")
    BY <1>4 DEF ConnectFails, Breaks, Failed
  <2>4. req'[r].status = why
    BY <1>1, <1>2, <2>3 DEF Raise, Status
  <2> QED BY <2>1, <2>2, <2>3, <2>4 DEF Probed
<1>5. CASE GiveUp(r)
  <2>1. CASE Is(r, "health")
    <3>1. req'[r].status = "timeout"
      BY <1>1, <1>2, <1>3, <1>5, <2>1 DEF GiveUp, Failed, Raise
    <3> QED BY <3>1 DEF Probed
  <2> QED BY <1>5, <2>1 DEF GiveUp
<1>6. CASE Connect(r)
  <2>1. req'[r].status = req[r].status
    BY <1>1, <1>6 DEF Connect, Goto, Local
  <2> QED BY <2>1 DEF Probed
<1>7. CASE Refuse(r) \/ Read(r) \/ login(r) \/ Refresh(r) \/ HealthTimeout(r)
  <2>1. PICK status \in {"ok", "refused", "unauthorized", "timeout"} :
            /\ req' = [req EXCEPT ![r] = Answered(@, status)]
            /\ Is(r, "health") => status = "timeout"
    BY <1>1, <1>7 DEF Refuse, Read, login, Refresh, HealthTimeout, Raise, Return,
       Statement, At
  <2>2. req'[r].status = status
    BY <1>1, <1>2, <1>3, <2>1
  <2> QED BY <2>1, <2>2 DEF Probed
<1>8. CASE health_check(r)
  <2>1. up /\ req'[r].status = "ok"
    BY <1>1, <1>2, <1>3, <1>8 DEF health_check, Statement, Raise, Connected
  <2> QED BY <2>1 DEF Probed
<1>9. CASE Proceed(r) \/ Weather(r)
  <2>1. PICK q : req' = [req EXCEPT ![r] = q]
                 /\ \/ q = Answered(req[r], "ok")
                    \/ \E step \in Holding : q = [req[r] EXCEPT !.step = step]
    BY <1>9 DEF Proceed, Weather, Return, Goto, Holding
  <2>2. q.status \in {"ok", req[r].status}
    BY <1>1, <1>2, <1>3, <2>1 DEF Local
  <2>3. ~Is(r, "health")
    BY <1>1, <1>9 DEF Proceed, Weather, Statement, At
  <2> QED BY <1>1, <2>1, <2>2, <2>3
<1>10. CASE Commit(r) \/ Register(r)
  <2>1. ~Is(r, "health")
    BY <1>1, <1>10 DEF Commit, Register, Statement, At
  <2>2. CASE Raise(r, "refused")
    <3>1. req'[r].status = "refused"
      BY <1>1, <1>2, <1>3, <2>2 DEF Raise
    <3> QED BY <2>1, <3>1
  <2>3. CASE Stored(r) /\ Is(r, "delete")
    <3>1. PICK b : b = Answered(req[r], "ok")
      OBVIOUS
    <3>2. b \in Local /\ b.status = "ok"
      <4>1. req[r] \in Local /\ "ok" \in Status
        BY <1>1, <1>3
      <4> QED BY <3>1, <4>1, AnswerFields
    <3>3. req' = [req EXCEPT ![r] = [b EXCEPT !.stored = TRUE]]
      BY <2>3, <3>1 DEF Stored
    <3>4. req'[r].status = "ok"
      BY <1>1, <3>2, <3>3 DEF Local
    <3> QED BY <2>1, <3>4
  <2>4. CASE Stored(r) /\ ~Is(r, "delete")
    <3>1. PICK b : b = [req[r] EXCEPT !.stored = TRUE]
      OBVIOUS
    <3>2. b \in Local /\ b.status = "none"
      BY <1>1, <3>1 DEF Local
    <3>3. [req[r] EXCEPT !.stored = TRUE, !.step = "reconnect"]
              = [b EXCEPT !.step = "reconnect"]
      BY <3>1, Zenon
    <3>4. req' = [req EXCEPT ![r] = [b EXCEPT !.step = "reconnect"]]
      BY <2>4, <3>3 DEF Stored
    <3>5. req'[r].status = "none"
      BY <1>1, <3>2, <3>4 DEF Local
    <3> QED BY <2>1, <3>5
  <2> QED BY <1>10, <2>2, <2>3, <2>4 DEF Commit, Register
<1>11. CASE Close(r)
  <2>1. req'[r].status = "none"
    BY <1>1, <1>11, BlankFields DEF Close
  <2> QED BY <2>1 DEF Probed
<1> QED
  BY <1>4, <1>5, <1>6, <1>7, <1>8, <1>9, <1>10, <1>11 DEF Serve

\* Whoever waits while the pool is used up is one more than it can serve.
LEMMA CrowdExceedsPool ==
    ASSUME ServingInv, NEW r \in Request, Exhausted, req[r].step \in Waiting
    PROVE  Cardinality(Served) > Capacity
<1>1. Holders \cup {r} \subseteq Served /\ r \notin Holders
  BY DEF ServingInv, SlotInv, Sound, Connected, Holders, Served, Running, Waiting
<1>2. IsFiniteSet(Served)
  BY RequestAssumption, FS_Subset DEF Served
<1>3. IsFiniteSet(Holders) /\ Cardinality(Holders) \in Nat
  BY HoldersFinite
<1>4. Cardinality(Holders \cup {r}) = Cardinality(Holders) + 1
  BY <1>1, <1>3, FS_AddElement
<1>5. Cardinality(Holders \cup {r}) <= Cardinality(Served) /\ Cardinality(Served) \in Nat
  BY <1>1, <1>2, FS_Subset, FS_CardinalityType
<1> QED BY <1>3, <1>4, <1>5, CapacityNat DEF Exhausted

LEMMA AnswerStep ==
    ServingInv /\ [ServingNext]_servingVars => ErrorStep /\ ProbeStep
<1> SUFFICES ASSUME ServingInv, [ServingNext]_servingVars,
                    NEW r \in Request
             PROVE  /\ Running(r) /\ req[r].status = "none"
                       /\ req'[r].status = "internal_error"
                          => req[r].disturbed \/ Cardinality(Served) > Capacity
                    /\ Running(r) /\ Is(r, "health") /\ req[r].status = "none"
                          => Probed(r, req'[r].status)
  BY DEF ErrorStep, ProbeStep, Probed
<1>2. CASE Serve(r)
  BY <1>2, FailureCauses, CrowdExceedsPool
<1>3. CASE \E c \in Calls[r] : Arrive(r, c)
  BY <1>3 DEF Arrive, Running, At
<1>4. CASE \E s \in Request \ {r} : Serve(s) \/ \E c \in Calls[s] : Arrive(s, c)
  <2>1. req'[r] = req[r]
    BY <1>4, OnlyOwnMoves
  <2> QED BY <2>1 DEF Probed
<1>5. CASE GoDown
  <2>1. req'[r].status = req[r].status
    BY <1>5 DEF GoDown, ServingInv, SlotInv, Local
  <2> QED BY <2>1 DEF Probed
<1>6. CASE req' = req
  BY <1>6 DEF Probed
<1> QED
  BY <1>2, <1>3, <1>4, <1>5, <1>6 DEF ServingNext, Expire, ComeUp, servingVars

\* A 500 of the shell means an outage during the request or more requests than
\* connections, for any number of requests and any pool.
THEOREM ServerErrorsCorrect == ServingSpec => ServerErrorsExplained
<1>1. ServingInv /\ [ServingNext]_servingVars => [ErrorStep]_servingVars
  BY AnswerStep
<1> QED BY ServingInvariant, <1>1, PTL DEF ServingSpec, ServerErrorsExplained

\* Whatever /health waits for when it answers, "ok" means a server that answers,
\* and "unreachable" one that was away, with a connection to be had.
THEOREM HealthCorrect == ServingSpec => HealthTruthful
<1>1. ServingInv /\ [ServingNext]_servingVars => [ProbeStep]_servingVars
  BY AnswerStep
<1> QED BY ServingInvariant, <1>1, PTL DEF ServingSpec, HealthTruthful
=============================================================================
