----------------------- MODULE PaymentInitiation_proofs ----------------------
(***************************************************************************)
(* For any number of requests, keys and orders, used in any combination,   *)
(* with crashes and purges: a gateway is asked to authorise an order, and  *)
(* a key, once; one request at a time owns a key; a key marked FAILED has  *)
(* no payment that may go through; and the rows follow the lifecycle.      *)
(*                                                                         *)
(* The argument: a gateway is asked only for a stored row (RowInv), and    *)
(* the constraints of the table keep stored rows apart (UniqueInv).  The   *)
(* owner of a key finds it PROCESSING (KeyInv), and whoever holds the      *)
(* advisory lock on a free key knows that nobody owns it (LockInv).        *)
(***************************************************************************)
EXTENDS PaymentInitiation, TLAPS

USE InitiationAssumption

(* From the insertion of its row to its end a request has a row. *)
HasRow == Owning \ {"acquired"}

RowInv ==
  /\ \A r \in Request : Stored(r) => pc[r] # "new"
  /\ \A r \in Request : pc[r] \in HasRow => Stored(r)
  /\ \A r \in asked : Stored(r)

UniqueInv ==
  \A q, r \in Request :
    /\ Stored(q) /\ Stored(r)
    /\ args[q].key = args[r].key \/ args[q].order = args[r].order
    => q = r

KeyStored(k) == \E q \in Request : Stored(q) /\ args[q].key = k

KeyInv ==
  /\ \A r \in Request : pc[r] \in Owning => keyStatus[args[r].key] = "PROCESSING"
  /\ \A k \in Key : keyStatus[k] = "COMPLETED" => KeyStored(k)
  /\ \A r \in Request : pc[r] = "replaying" => seen[r] = "COMPLETED"
  /\ \A r \in Request :
       pc[r] \in {"locked", "replaying"} /\ seen[r] = "COMPLETED" => KeyStored(args[r].key)

LockInv ==
  /\ \A q, r \in Request :
       pc[q] = "locked" /\ pc[r] = "locked" /\ args[q].key = args[r].key => q = r
  /\ \A q, r \in Request :
       pc[q] \in Owning /\ pc[r] = "locked" /\ seen[r] \in {"NONE", "FAILED"} =>
         args[q].key # args[r].key

FailingInv ==
  \A r \in Request : pc[r] = "failing" => state[r] \in {"AUTH_FAILED", "AUTH_TIMEOUT"}

Inv == /\ TypeOK /\ RowInv /\ UniqueInv /\ KeyInv /\ LockInv
       /\ OneOwnerPerKey /\ FailingInv /\ FailedKeyHasFailedPayment

------------------------------------------------------------------------------
LEMMA InitInv == Init => Inv
<1> SUFFICES ASSUME Init PROVE Inv
  OBVIOUS
<1>1. TypeOK
  BY DEF Init, TypeOK, KeyStatus
<1>2. RowInv /\ UniqueInv /\ FailingInv
  BY DEF Init, RowInv, UniqueInv, FailingInv, Stored, HasRow, Owning
<1>3. KeyInv /\ LockInv /\ OneOwnerPerKey /\ FailedKeyHasFailedPayment
  BY DEF Init, KeyInv, LockInv, OneOwnerPerKey, FailedKeyHasFailedPayment, Owning
<1> QED
  BY <1>1, <1>2, <1>3 DEF Inv

(* transition() writes a state of the enumeration, and only to a row. *)
LEMMA TransitionType ==
  ASSUME TypeOK, NEW r \in Request, NEW to \in TransactionState, transition(r, to)
  PROVE  /\ state' \in [Request -> TransactionState \cup {NoRow}]
         /\ Stored(r)
         /\ \A q \in Request : Stored(q)' <=> Stored(q)
BY DEF TypeOK, transition, accepts, assertValidTransition, VALID_TRANSITIONS,
       TransactionState, NoRow, Stored

(***************************************************************************)
(* What the steps of a request that has a row have in common: they leave   *)
(* the keys, the arguments and the rows of the others alone, and the       *)
(* request either goes on owning its key or is done with it.               *)
(***************************************************************************)
OwnerStep(r, where) ==
  /\ pc[r] \in HasRow
  /\ where \in (Owning \ {"acquired", "failing"}) \cup Done
  /\ go(r, where)
  /\ UNCHANGED <<keyStatus, args, seen>>
  /\ asked' \subseteq asked \cup {r}
  /\ \A q \in Request : Stored(q)' <=> Stored(q)
  /\ \A q \in Request \ {r} : state'[q] = state[q]

LEMMA OwnerStepInv ==
  ASSUME Inv, NEW r \in Request, NEW where, OwnerStep(r, where), TypeOK'
  PROVE  Inv'
<1>1. args[r] \in Args /\ keyStatus[args[r].key] = "PROCESSING"
  BY DEF Inv, TypeOK, KeyInv, OwnerStep, HasRow, Owning
<1>2. RowInv' /\ UniqueInv'
  BY DEF Inv, TypeOK, RowInv, UniqueInv, OwnerStep, go, HasRow, Owning, Done
<1>3. \A k \in Key : KeyStored(k)' <=> KeyStored(k)
  BY DEF OwnerStep, KeyStored
<1>4. \A q \in Request : pc[q] # "new" => args[q].key \in Key
  BY DEF Inv, TypeOK, Args
<1>5. KeyInv'
  BY <1>3, <1>4 DEF Inv, TypeOK, KeyInv, OwnerStep, go, HasRow, Owning, Done
<1>6. LockInv' /\ OneOwnerPerKey'
  BY DEF Inv, TypeOK, LockInv, OneOwnerPerKey, OwnerStep, go, HasRow, Owning, Done
<1>7. FailingInv'
  BY DEF Inv, TypeOK, FailingInv, OwnerStep, go, HasRow, Owning, Done
<1>8. FailedKeyHasFailedPayment'
  BY <1>1 DEF Inv, FailedKeyHasFailedPayment, OwnerStep
<1> QED
  BY <1>2, <1>5, <1>6, <1>7, <1>8 DEF Inv

(* The steps that call transition() and keep, or give up, the key. *)
LEMMA RoutingInv ==
  ASSUME Inv, NEW r \in Request,
         \/ noGateway(r) \/ routeFailed(r) \/ gatewaySelected(r)
         \/ authInitiated(r) \/ completeAuthorisation(r)
  PROVE  Inv'
<1>1. CASE noGateway(r)
  <2>1. "ROUTE_SELECTED" \in TransactionState /\ transition(r, "ROUTE_SELECTED")
    BY <1>1 DEF noGateway, TransactionState
  <2>2. /\ state' \in [Request -> TransactionState \cup {NoRow}]
        /\ \A q \in Request : Stored(q)' <=> Stored(q)
    BY <2>1, TransitionType DEF Inv
  <2>3. TypeOK'
    BY <1>1, <2>1, <2>2
    DEF Inv, TypeOK, noGateway, transition, go, keys, rows, local, Live, Owning,
           Done
  <2>4. OwnerStep(r, "unrouted")
    BY <1>1, <2>1, <2>2
    DEF Inv, TypeOK, OwnerStep, noGateway, transition, go, keys, local, HasRow,
           Owning, Done
  <2> QED
    BY <2>3, <2>4, OwnerStepInv
<1>2. CASE routeFailed(r)
  <2>1. "ROUTE_FAILED" \in TransactionState /\ transition(r, "ROUTE_FAILED")
    BY <1>2 DEF routeFailed, TransactionState
  <2>2. /\ state' \in [Request -> TransactionState \cup {NoRow}]
        /\ \A q \in Request : Stored(q)' <=> Stored(q)
    BY <2>1, TransitionType DEF Inv
  <2>3. TypeOK'
    BY <1>2, <2>1, <2>2
    DEF Inv, TypeOK, routeFailed, transition, go, keys, rows, local, Live,
           Owning, Done
  <2>4. OwnerStep(r, "failed")
    BY <1>2, <2>1, <2>2
    DEF Inv, TypeOK, OwnerStep, routeFailed, transition, go, keys, local,
           HasRow, Owning, Done
  <2> QED
    BY <2>3, <2>4, OwnerStepInv
<1>3. CASE gatewaySelected(r)
  <2>1. "ROUTE_SELECTED" \in TransactionState /\ transition(r, "ROUTE_SELECTED")
    BY <1>3 DEF gatewaySelected, TransactionState
  <2>2. /\ state' \in [Request -> TransactionState \cup {NoRow}]
        /\ \A q \in Request : Stored(q)' <=> Stored(q)
    BY <2>1, TransitionType DEF Inv
  <2>3. TypeOK'
    BY <1>3, <2>1, <2>2
    DEF Inv, TypeOK, gatewaySelected, transition, go, keys, rows, local, Live,
           Owning, Done
  <2>4. OwnerStep(r, "routed")
    BY <1>3, <2>1, <2>2
    DEF Inv, TypeOK, OwnerStep, gatewaySelected, transition, go, keys, local,
           HasRow, Owning, Done
  <2> QED
    BY <2>3, <2>4, OwnerStepInv
<1>4. CASE authInitiated(r)
  <2>1. "AUTH_INITIATED" \in TransactionState /\ transition(r, "AUTH_INITIATED")
    BY <1>4 DEF authInitiated, TransactionState
  <2>2. /\ state' \in [Request -> TransactionState \cup {NoRow}]
        /\ \A q \in Request : Stored(q)' <=> Stored(q)
    BY <2>1, TransitionType DEF Inv
  <2>3. TypeOK'
    BY <1>4, <2>1, <2>2
    DEF Inv, TypeOK, authInitiated, transition, go, keys, rows, local, Live,
           Owning, Done
  <2>4. OwnerStep(r, "initiated")
    BY <1>4, <2>1, <2>2
    DEF Inv, TypeOK, OwnerStep, authInitiated, transition, go, keys, local,
           HasRow, Owning, Done
  <2> QED
    BY <2>3, <2>4, OwnerStepInv
<1>5. CASE completeAuthorisation(r)
  <2>1. "AUTHORISED" \in TransactionState /\ transition(r, "AUTHORISED")
    BY <1>5 DEF completeAuthorisation, TransactionState
  <2>2. /\ state' \in [Request -> TransactionState \cup {NoRow}]
        /\ \A q \in Request : Stored(q)' <=> Stored(q)
    BY <2>1, TransitionType DEF Inv
  <2>3. TypeOK'
    BY <1>5, <2>1, <2>2
    DEF Inv, TypeOK, completeAuthorisation, transition, go, keys, rows, local,
           Live, Owning, Done
  <2>4. OwnerStep(r, "unreferenced")
    BY <1>5, <2>1, <2>2
    DEF Inv, TypeOK, OwnerStep, completeAuthorisation, transition, go, keys,
           local, HasRow, Owning, Done
  <2> QED
    BY <2>3, <2>4, OwnerStepInv
<1> QED
  BY <1>1, <1>2, <1>3, <1>4, <1>5

(* The steps around the gateway call that leave the state column alone. *)
LEMMA CallingInv ==
  ASSUME Inv, NEW r \in Request,
         \/ nameGateway(r) \/ authorise(r)
         \/ pendingAuthorisation(r) \/ updateReferences(r) \/ outcomeRefused(r)
  PROVE  Inv'
<1>1. CASE nameGateway(r)
  <2>1. TypeOK'
    BY <1>1 DEF Inv, TypeOK, nameGateway, go, keys, rows, local, Live, Owning, Done
  <2>2. OwnerStep(r, "calling")
    BY <1>1
    DEF Inv, TypeOK, OwnerStep, nameGateway, go, keys, rows, local, Stored,
           HasRow, Owning, Done
  <2> QED
    BY <2>1, <2>2, OwnerStepInv
<1>2. CASE authorise(r)
  <2>1. TypeOK'
    BY <1>2 DEF Inv, TypeOK, authorise, go, keys, rows, local, Live, Owning, Done
  <2>2. OwnerStep(r, "answered")
    BY <1>2
    DEF Inv, TypeOK, OwnerStep, authorise, go, keys, rows, local, Stored,
           HasRow, Owning, Done
  <2> QED
    BY <2>1, <2>2, OwnerStepInv
<1>3. CASE pendingAuthorisation(r)
  <2>1. TypeOK'
    BY <1>3 DEF Inv, TypeOK, pendingAuthorisation, go, keys, rows, local, Live,
           Owning, Done
  <2>2. OwnerStep(r, "completing")
    BY <1>3
    DEF Inv, TypeOK, OwnerStep, pendingAuthorisation, go, keys, rows, local,
           Stored, HasRow, Owning, Done
  <2> QED
    BY <2>1, <2>2, OwnerStepInv
<1>4. CASE updateReferences(r)
  <2>1. TypeOK'
    BY <1>4 DEF Inv, TypeOK, updateReferences, go, keys, rows, local, Live,
           Owning, Done
  <2>2. OwnerStep(r, "completing")
    BY <1>4
    DEF Inv, TypeOK, OwnerStep, updateReferences, go, keys, rows, local, Stored,
           HasRow, Owning, Done
  <2> QED
    BY <2>1, <2>2, OwnerStepInv
<1>5. CASE outcomeRefused(r)
  <2>1. TypeOK'
    BY <1>5 DEF Inv, TypeOK, outcomeRefused, go, keys, rows, local, Live,
           Owning, Done
  <2>2. OwnerStep(r, "failed")
    BY <1>5
    DEF Inv, TypeOK, OwnerStep, outcomeRefused, go, keys, rows, local, Stored,
           HasRow, Owning, Done
  <2> QED
    BY <2>1, <2>2, OwnerStepInv
<1> QED
  BY <1>1, <1>2, <1>3, <1>4, <1>5

(***************************************************************************)
(* What the steps by which a request gives up, or begins to replay, have   *)
(* in common: nothing but its own progress changes.                        *)
(***************************************************************************)
LeaveStep(r, where) ==
  /\ pc[r] \in Live
  /\ \/ where \in Done
     \/ where = "replaying" /\ pc[r] = "locked" /\ seen[r] = "COMPLETED"
  /\ go(r, where)
  /\ UNCHANGED <<keyStatus, state, asked, args, seen>>

LEMMA LeaveStepInv ==
  ASSUME Inv, NEW r \in Request, NEW where, LeaveStep(r, where), TypeOK'
  PROVE  Inv'
<1>1. \A q \in Request : pc'[q] # pc[q] => pc'[q] \in Done \cup {"replaying"}
  BY DEF Inv, TypeOK, LeaveStep, go
<1>2. RowInv' /\ UniqueInv'
  BY DEF Inv, TypeOK, RowInv, UniqueInv, Stored, LeaveStep, go, HasRow, Owning, Done, Live
<1>3. KeyInv'
  BY DEF Inv, TypeOK, KeyInv, KeyStored, Stored, LeaveStep, go, Owning, Done
<1>4. LockInv' /\ OneOwnerPerKey'
  BY <1>1 DEF Inv, TypeOK, LockInv, OneOwnerPerKey, LeaveStep, go, Owning, Done
<1>5. FailingInv' /\ FailedKeyHasFailedPayment'
  BY <1>1 DEF Inv, FailingInv, FailedKeyHasFailedPayment, Stored, LeaveStep, Done
<1> QED
  BY <1>2, <1>3, <1>4, <1>5 DEF Inv

LEMMA LeavingInv ==
  ASSUME Inv, NEW r \in Request,
         replayKey(r) \/ conflictKey(r) \/ replayOrder(r) \/ createRefused(r) \/ crash(r)
  PROVE  Inv'
<1>1. CASE replayKey(r)
  <2>1. TypeOK'
    BY <1>1 DEF Inv, TypeOK, replayKey, go, keys, rows, local, Live, Owning, Done
  <2>2. LeaveStep(r, "replaying")
    BY <1>1 DEF LeaveStep, replayKey, go, keys, rows, local, Live, Done
  <2> QED
    BY <2>1, <2>2, LeaveStepInv
<1>2. CASE conflictKey(r)
  <2>1. TypeOK'
    BY <1>2 DEF Inv, TypeOK, conflictKey, go, keys, rows, local, Live, Owning, Done
  <2>2. "conflict" \in Done /\ pc[r] \in Live
    BY <1>2 DEF conflictKey, Live, Done
  <2>3. LeaveStep(r, "conflict")
    BY <1>2, <2>2 DEF LeaveStep, conflictKey, go, keys, rows, local
  <2> QED
    BY <2>1, <2>3, LeaveStepInv
<1>3. CASE replayOrder(r)
  <2>1. TypeOK'
    BY <1>3 DEF Inv, TypeOK, replayOrder, go, keys, rows, local, Live, Owning, Done
  <2>2. "succeeded" \in Done /\ pc[r] \in Live
    BY <1>3 DEF replayOrder, Live, Done
  <2>3. LeaveStep(r, "succeeded")
    BY <1>3, <2>2 DEF LeaveStep, replayOrder, go, keys, rows, local
  <2> QED
    BY <2>1, <2>3, LeaveStepInv
<1>4. CASE createRefused(r)
  <2>1. TypeOK'
    BY <1>4 DEF Inv, TypeOK, createRefused, inserts, go, keys, rows, local,
           Live, Owning, Done
  <2>2. "duplicate" \in Done /\ pc[r] \in Live
    BY <1>4 DEF createRefused, inserts, Owning, Live, Done
  <2>3. LeaveStep(r, "duplicate")
    BY <1>4, <2>2 DEF LeaveStep, createRefused, go, keys, rows, local
  <2> QED
    BY <2>1, <2>3, LeaveStepInv
<1>5. CASE crash(r)
  <2>1. TypeOK'
    BY <1>5 DEF Inv, TypeOK, crash, go, keys, rows, local, Live, Owning, Done
  <2>2. "crashed" \in Done /\ pc[r] \in Live
    BY <1>5 DEF crash, Live, Done
  <2>3. LeaveStep(r, "crashed")
    BY <1>5, <2>2 DEF LeaveStep, crash, go, keys, rows, local
  <2> QED
    BY <2>1, <2>3, LeaveStepInv
<1> QED
  BY <1>1, <1>2, <1>3, <1>4, <1>5

LEMMA ReceiveInv ==
  ASSUME Inv, NEW r \in Request, receive(r)
  PROVE  Inv'
<1>1. TypeOK'
  BY DEF Inv, TypeOK, receive, go, keys, rows, local, Live, Owning, Done, Args,
         KeyStatus
<1>2. RowInv' /\ UniqueInv'
  BY DEF Inv, TypeOK, receive, go, keys, rows, local, RowInv, UniqueInv, HasRow,
         Owning, Stored
<1>3. KeyInv'
  BY DEF Inv, TypeOK, receive, go, keys, rows, local, RowInv, KeyInv, KeyStored,
         HasRow, Owning, Stored
<1>4. LockInv' /\ OneOwnerPerKey'
  BY DEF Inv, TypeOK, receive, go, keys, rows, local, KeyInv, LockInv,
         OneOwnerPerKey, KeyStored, Owning, Stored
<1>5. FailingInv' /\ FailedKeyHasFailedPayment'
  BY DEF Inv, TypeOK, receive, go, keys, rows, local, RowInv, UniqueInv, KeyInv,
         FailingInv, FailedKeyHasFailedPayment, HasRow, Owning, Stored
<1> QED
  BY <1>1, <1>2, <1>3, <1>4, <1>5 DEF Inv

LEMMA LookUpKeyInv ==
  ASSUME Inv, NEW r \in Request, lookUpKey(r)
  PROVE  Inv'
<1>1. TypeOK'
  BY DEF Inv, TypeOK, lookUpKey, go, keys, rows, local, advisoryLocked, Live,
         Owning, Done, Args, KeyStatus
<1>2. RowInv' /\ UniqueInv'
  BY DEF Inv, TypeOK, lookUpKey, go, keys, rows, local, advisoryLocked, RowInv,
         UniqueInv, HasRow, Owning, Stored
<1>3. KeyInv'
  <2>1. \A k \in Key : KeyStored(k)' <=> KeyStored(k)
    BY DEF lookUpKey, rows, local, KeyStored, Stored
  <2>2. args[r].key \in Key /\ \A q \in Request : pc'[q] # "new" => args'[q].key \in Key
    BY <1>1 DEF Inv, TypeOK, Args, lookUpKey
  <2>3. \A q \in Request : pc'[q] \in Owning => keyStatus'[args'[q].key] = "PROCESSING"
    BY <2>2 DEF Inv, TypeOK, lookUpKey, go, keys, rows, local, KeyInv, Owning
  <2>4. \A k \in Key : keyStatus'[k] = "COMPLETED" => KeyStored(k)
    BY <2>2 DEF Inv, TypeOK, lookUpKey, go, keys, rows, local, KeyInv, Owning
  <2>5. \A q \in Request : pc'[q] = "replaying" => seen'[q] = "COMPLETED"
    BY DEF Inv, TypeOK, lookUpKey, go, keys, rows, local, KeyInv
  <2>6. \A q \in Request :
          pc'[q] \in {"locked", "replaying"} /\ seen'[q] = "COMPLETED" => KeyStored(args'[q].key)
    BY <2>2 DEF Inv, TypeOK, lookUpKey, go, keys, rows, local, KeyInv
  <2> QED
    BY <2>1, <2>2, <2>3, <2>4, <2>5, <2>6 DEF KeyInv
<1>4. LockInv' /\ OneOwnerPerKey'
  BY DEF Inv, TypeOK, lookUpKey, go, keys, rows, local, advisoryLocked, KeyInv,
         LockInv, OneOwnerPerKey, KeyStored, Owning, Stored
<1>5. FailingInv' /\ FailedKeyHasFailedPayment'
  BY DEF Inv, TypeOK, lookUpKey, go, keys, rows, local, advisoryLocked, RowInv,
         UniqueInv, KeyInv, FailingInv, FailedKeyHasFailedPayment, HasRow, Owning, Stored
<1> QED
  BY <1>1, <1>2, <1>3, <1>4, <1>5 DEF Inv

LEMMA AcquireKeyInv ==
  ASSUME Inv, NEW r \in Request, acquireKey(r)
  PROVE  Inv'
<1>1. TypeOK'
  BY DEF Inv, TypeOK, acquireKey, go, keys, rows, local, Live, Owning, Done,
         Args, KeyStatus
<1>2. RowInv' /\ UniqueInv'
  BY DEF Inv, TypeOK, acquireKey, go, keys, rows, local, RowInv, UniqueInv,
         HasRow, Owning, Stored
<1>3. KeyInv'
  <2>1. \A k \in Key : KeyStored(k)' <=> KeyStored(k)
    BY DEF acquireKey, rows, local, KeyStored, Stored
  <2>2. args[r].key \in Key /\ \A q \in Request : pc'[q] # "new" => args'[q].key \in Key
    BY <1>1 DEF Inv, TypeOK, Args, acquireKey
  <2>3. \A q \in Request : pc'[q] \in Owning => keyStatus'[args'[q].key] = "PROCESSING"
    BY <2>2 DEF Inv, TypeOK, acquireKey, go, keys, rows, local, KeyInv, LockInv,
           Owning
  <2>4. \A k \in Key : keyStatus'[k] = "COMPLETED" => KeyStored(k)
    BY <2>2 DEF Inv, TypeOK, acquireKey, go, keys, rows, local, KeyInv, Owning
  <2>5. \A q \in Request : pc'[q] = "replaying" => seen'[q] = "COMPLETED"
    BY DEF Inv, TypeOK, acquireKey, go, keys, rows, local, KeyInv
  <2>6. \A q \in Request :
          pc'[q] \in {"locked", "replaying"} /\ seen'[q] = "COMPLETED" => KeyStored(args'[q].key)
    BY <2>2 DEF Inv, TypeOK, acquireKey, go, keys, rows, local, KeyInv
  <2> QED
    BY <2>1, <2>2, <2>3, <2>4, <2>5, <2>6 DEF KeyInv
<1>4. LockInv' /\ OneOwnerPerKey'
  BY DEF Inv, TypeOK, acquireKey, go, keys, rows, local, KeyInv, LockInv,
         OneOwnerPerKey, KeyStored, Owning, Stored
<1>5. FailingInv' /\ FailedKeyHasFailedPayment'
  BY DEF Inv, TypeOK, acquireKey, go, keys, rows, local, RowInv, UniqueInv,
         KeyInv, FailingInv, FailedKeyHasFailedPayment, HasRow, Owning, Stored
<1> QED
  BY <1>1, <1>2, <1>3, <1>4, <1>5 DEF Inv

LEMMA CreateInv ==
  ASSUME Inv, NEW r \in Request, create(r)
  PROVE  Inv'
<1>1. TypeOK'
  BY DEF Inv, TypeOK, create, go, keys, rows, local, inserts, alreadyStored,
         Live, Owning, Done, Args, KeyStatus, TransactionState
<1>2. RowInv' /\ UniqueInv'
  <2>1. \A q \in Request : Stored(q)' <=> Stored(q) \/ q = r
    BY DEF Inv, TypeOK, create, Stored, NoRow
  <2>2. RowInv'
    BY <2>1 DEF Inv, TypeOK, create, inserts, go, local, RowInv, HasRow, Owning
  <2>3. UniqueInv'
    BY <2>1 DEF Inv, create, alreadyStored, local, UniqueInv
  <2> QED
    BY <2>2, <2>3
<1>3. KeyInv'
  BY DEF Inv, TypeOK, create, go, keys, rows, local, inserts, alreadyStored,
         RowInv, KeyInv, KeyStored, HasRow, Owning, Stored
<1>4. LockInv' /\ OneOwnerPerKey'
  BY DEF Inv, TypeOK, create, go, keys, rows, local, inserts, alreadyStored,
         KeyInv, LockInv, OneOwnerPerKey, KeyStored, Owning, Stored
<1>5. FailingInv' /\ FailedKeyHasFailedPayment'
  <2>1. pc[r] = "acquired"
    BY DEF Inv, TypeOK, Args, create, inserts, alreadyStored, KeyInv, KeyStored
  <2>2. keyStatus[args[r].key] = "PROCESSING"
    BY <2>1 DEF Inv, KeyInv, Owning
  <2>3. FailedKeyHasFailedPayment'
    BY <2>2 DEF Inv, TypeOK, create, keys, local, Stored, FailedKeyHasFailedPayment
  <2>4. FailingInv'
    BY DEF Inv, TypeOK, create, go, FailingInv
  <2> QED
    BY <2>3, <2>4
<1> QED
  BY <1>1, <1>2, <1>3, <1>4, <1>5 DEF Inv

LEMMA FailAuthorisationInv ==
  ASSUME Inv, NEW r \in Request, failAuthorisation(r)
  PROVE  Inv'
<1>0. failureState(r) \in TransactionState /\ transition(r, failureState(r))
  BY DEF failAuthorisation, failureState, TransactionState
<1>t. /\ state' \in [Request -> TransactionState \cup {NoRow}]
      /\ Stored(r)
      /\ \A q \in Request : Stored(q)' <=> Stored(q)
  BY <1>0, TransitionType DEF Inv
<1>1. TypeOK'
  BY <1>t DEF Inv, TypeOK, failAuthorisation, go, keys, rows, local,
         failureState, Unsuccessful, Live, Owning, Done, Args, KeyStatus, transition
<1>2. RowInv' /\ UniqueInv'
  BY <1>t DEF Inv, TypeOK, failAuthorisation, go, keys, rows, local,
         failureState, Unsuccessful, RowInv, UniqueInv, HasRow, Owning
<1>3. KeyInv'
  BY <1>t DEF Inv, TypeOK, failAuthorisation, go, keys, rows, local,
         failureState, Unsuccessful, RowInv, KeyInv, KeyStored, HasRow, Owning
<1>4. LockInv' /\ OneOwnerPerKey'
  BY <1>t DEF Inv, TypeOK, failAuthorisation, go, keys, rows, local,
         failureState, Unsuccessful, KeyInv, LockInv, OneOwnerPerKey, KeyStored, Owning
<1>5. FailingInv' /\ FailedKeyHasFailedPayment'
  BY <1>t DEF Inv, TypeOK, failAuthorisation, go, keys, rows, local,
         failureState, Unsuccessful, RowInv, UniqueInv, KeyInv, FailingInv,
         FailedKeyHasFailedPayment, HasRow, Owning, transition
<1> QED
  BY <1>1, <1>2, <1>3, <1>4, <1>5 DEF Inv

LEMMA MarkFailedInv ==
  ASSUME Inv, NEW r \in Request, markFailed(r)
  PROVE  Inv'
<1>1. TypeOK'
  BY DEF Inv, TypeOK, markFailed, go, keys, rows, local, markedAs, Live, Owning,
         Done, Args, KeyStatus
<1>2. RowInv' /\ UniqueInv'
  BY DEF Inv, TypeOK, markFailed, go, keys, rows, local, markedAs, RowInv,
         UniqueInv, HasRow, Owning, Stored
<1>3. KeyInv'
  <2>1. \A k \in Key : KeyStored(k)' <=> KeyStored(k)
    BY DEF markFailed, rows, local, KeyStored, Stored
  <2>2. args[r].key \in Key /\ \A q \in Request : pc'[q] # "new" => args'[q].key \in Key
    BY <1>1 DEF Inv, TypeOK, Args, markFailed
  <2>3. \A q \in Request : pc'[q] \in Owning => keyStatus'[args'[q].key] = "PROCESSING"
    BY <2>2 DEF Inv, TypeOK, markFailed, go, keys, rows, local, KeyInv,
           markedAs, OneOwnerPerKey, Owning
  <2>4. \A k \in Key : keyStatus'[k] = "COMPLETED" => KeyStored(k)
    BY <2>2 DEF Inv, TypeOK, markFailed, go, keys, rows, local, KeyInv, markedAs
  <2>5. \A q \in Request : pc'[q] = "replaying" => seen'[q] = "COMPLETED"
    BY DEF Inv, TypeOK, markFailed, go, keys, rows, local, KeyInv
  <2>6. \A q \in Request :
          pc'[q] \in {"locked", "replaying"} /\ seen'[q] = "COMPLETED" => KeyStored(args'[q].key)
    BY <2>2 DEF Inv, TypeOK, markFailed, go, keys, rows, local, KeyInv
  <2> QED
    BY <2>1, <2>2, <2>3, <2>4, <2>5, <2>6 DEF KeyInv
<1>4. LockInv' /\ OneOwnerPerKey'
  BY DEF Inv, TypeOK, markFailed, go, keys, rows, local, markedAs, KeyInv,
         LockInv, OneOwnerPerKey, KeyStored, Owning, Stored
<1>5. FailingInv' /\ FailedKeyHasFailedPayment'
  BY DEF Inv, TypeOK, markFailed, go, keys, rows, local, markedAs, RowInv,
         UniqueInv, KeyInv, FailingInv, FailedKeyHasFailedPayment, HasRow, Owning, Stored
<1> QED
  BY <1>1, <1>2, <1>3, <1>4, <1>5 DEF Inv

LEMMA MarkCompletedInv ==
  ASSUME Inv, NEW r \in Request, markCompleted(r)
  PROVE  Inv'
<1>1. TypeOK'
  BY DEF Inv, TypeOK, markCompleted, go, keys, rows, local, markedAs, Live,
         Owning, Done, Args, KeyStatus
<1>2. RowInv' /\ UniqueInv'
  BY DEF Inv, TypeOK, markCompleted, go, keys, rows, local, markedAs, RowInv,
         UniqueInv, HasRow, Owning, Stored
<1>3. KeyInv'
  <2>1. \A k \in Key : KeyStored(k)' <=> KeyStored(k)
    BY DEF markCompleted, rows, local, KeyStored, Stored
  <2>2. args[r].key \in Key /\ \A q \in Request : pc'[q] # "new" => args'[q].key \in Key
    BY <1>1 DEF Inv, TypeOK, Args, markCompleted
  <2>3. \A q \in Request : pc'[q] \in Owning => keyStatus'[args'[q].key] = "PROCESSING"
    BY <2>2 DEF Inv, TypeOK, markCompleted, go, keys, rows, local, KeyInv,
           markedAs, OneOwnerPerKey, Owning
  <2>4. \A k \in Key : keyStatus'[k] = "COMPLETED" => KeyStored(k)
    BY <2>2 DEF Inv, TypeOK, markCompleted, go, keys, rows, local, KeyInv,
           markedAs, RowInv, KeyStored, HasRow, Owning
  <2>5. \A q \in Request : pc'[q] = "replaying" => seen'[q] = "COMPLETED"
    BY DEF Inv, TypeOK, markCompleted, go, keys, rows, local, KeyInv
  <2>6. \A q \in Request :
          pc'[q] \in {"locked", "replaying"} /\ seen'[q] = "COMPLETED" => KeyStored(args'[q].key)
    BY <2>2 DEF Inv, TypeOK, markCompleted, go, keys, rows, local, KeyInv
  <2> QED
    BY <2>1, <2>2, <2>3, <2>4, <2>5, <2>6 DEF KeyInv
<1>4. LockInv' /\ OneOwnerPerKey'
  BY DEF Inv, TypeOK, markCompleted, go, keys, rows, local, markedAs, KeyInv,
         LockInv, OneOwnerPerKey, KeyStored, Owning, Stored
<1>5. FailingInv' /\ FailedKeyHasFailedPayment'
  BY DEF Inv, TypeOK, markCompleted, go, keys, rows, local, markedAs, RowInv,
         UniqueInv, KeyInv, FailingInv, FailedKeyHasFailedPayment, HasRow, Owning, Stored
<1> QED
  BY <1>1, <1>2, <1>3, <1>4, <1>5 DEF Inv

(***************************************************************************)
(* The moves that come from outside the handler: webhooks, reconciliation  *)
(* and the merchant.  They leave the requests and the keys alone, follow   *)
(* the map, and so never touch a payment that failed or was not routed.    *)
(***************************************************************************)
LEMMA OutsideMoves ==
  ASSUME TypeOK, NEW r \in Request, advanceTransaction(r) \/ operate(r)
  PROVE  /\ \E to \in TransactionState : transition(r, to)
         /\ \A q \in Request \ {r} : state'[q] = state[q]
         /\ state[r] \notin {NoRow, "CREATED", "ROUTE_SELECTED", "AUTH_FAILED", "AUTH_TIMEOUT"}
         /\ state'[r] \in AfterAuthorisation \cup {"AUTH_FAILED"}
         /\ state[r] \in AfterAuthorisation => state'[r] \in AfterAuthorisation
         /\ referenced' \in {referenced, referenced \cup {r}}
         /\ UNCHANGED <<keys, named, asked, pc, local>>
<1>1. PICK to \in ReportedStates \cup OperationStates : moveAlong(r, to)
  BY DEF advanceTransaction, operate
<1>2. to \in TransactionState /\ transition(r, to)
  BY <1>1 DEF ReportedStates, OperationStates, TransactionState, moveAlong, transition, accepts
<1>3. /\ \A q \in Request \ {r} : state'[q] = state[q]
      /\ state'[r] = to /\ assertValidTransition(state[r], to)
  BY <1>1 DEF TypeOK, moveAlong
<1>4. to \in AfterAuthorisation \cup {"AUTH_FAILED"}
  BY DEF ReportedStates, OperationStates, AfterAuthorisation, TransactionState
<1>5. state[r] \notin {NoRow, "CREATED", "ROUTE_SELECTED", "AUTH_FAILED", "AUTH_TIMEOUT"}
  BY <1>3 DEF ReportedStates, OperationStates, assertValidTransition, VALID_TRANSITIONS, NoRow
<1>6. to = "AUTH_FAILED" => state[r] = "AUTH_INITIATED"
  BY <1>3 DEF assertValidTransition, VALID_TRANSITIONS
<1>7. state[r] \in AfterAuthorisation => to \in AfterAuthorisation
  BY <1>4, <1>6 DEF AfterAuthorisation
<1> QED
  BY <1>2, <1>3, <1>4, <1>5, <1>7 DEF advanceTransaction, operate

LEMMA OutsideInv ==
  ASSUME Inv, NEW r \in Request, advanceTransaction(r) \/ operate(r)
  PROVE  Inv'
<1>t. /\ state' \in [Request -> TransactionState \cup {NoRow}]
      /\ Stored(r)
      /\ \A q \in Request : Stored(q)' <=> Stored(q)
  BY OutsideMoves, TransitionType DEF Inv
<1>m. /\ \A q \in Request \ {r} : state'[q] = state[q]
      /\ state[r] \notin {"AUTH_FAILED", "AUTH_TIMEOUT"}
      /\ referenced' \in {referenced, referenced \cup {r}}
      /\ UNCHANGED <<keys, named, asked, pc, local>>
  BY OutsideMoves DEF Inv
<1>1. TypeOK'
  <2>1. referenced' \subseteq Request
    BY <1>m DEF Inv, TypeOK
  <2>2. UNCHANGED <<keyStatus, keyTxn, named, asked, pc, args, seen, answer, reply>>
    BY <1>m DEF keys, local
  <2> QED
    BY <1>t, <2>1, <2>2 DEF Inv, TypeOK
<1>2. RowInv' /\ UniqueInv'
  BY <1>t, <1>m DEF Inv, TypeOK, RowInv, UniqueInv, local
<1>3. KeyInv'
  BY <1>t, <1>m DEF Inv, KeyInv, KeyStored, keys, local
<1>4. LockInv' /\ OneOwnerPerKey'
  BY <1>m DEF Inv, LockInv, OneOwnerPerKey, local
<1>5. FailingInv' /\ FailedKeyHasFailedPayment'
  BY <1>t, <1>m DEF Inv, FailingInv, FailedKeyHasFailedPayment, keys, local
<1> QED
  BY <1>1, <1>2, <1>3, <1>4, <1>5 DEF Inv

LEMMA PurgeExpiredInv ==
  ASSUME Inv, NEW k \in Key, purgeExpired(k)
  PROVE  Inv'
<1>1. TypeOK'
  BY DEF Inv, TypeOK, purgeExpired, rows, local, KeyStatus
<1>2. RowInv' /\ UniqueInv'
  BY DEF Inv, RowInv, UniqueInv, purgeExpired, rows, local, Stored
<1>3. KeyInv'
  <2>1. \A l \in Key : KeyStored(l)' <=> KeyStored(l)
    BY DEF purgeExpired, rows, local, KeyStored, Stored
  <2>2. \A q \in Request : pc[q] # "new" => args[q].key \in Key
    BY DEF Inv, TypeOK, Args
  <2> QED
    BY <2>1, <2>2 DEF Inv, TypeOK, KeyInv, purgeExpired, local, Owning
<1>4. LockInv' /\ OneOwnerPerKey'
  BY DEF Inv, LockInv, OneOwnerPerKey, purgeExpired, local
<1>5. FailingInv' /\ FailedKeyHasFailedPayment'
  BY DEF Inv, TypeOK, FailingInv, FailedKeyHasFailedPayment, purgeExpired, rows, local,
         Stored
<1> QED
  BY <1>1, <1>2, <1>3, <1>4, <1>5 DEF Inv

LEMMA StutterInv == Inv /\ UNCHANGED vars => Inv'
BY DEF Inv, TypeOK, RowInv, UniqueInv, KeyInv, KeyStored, LockInv, OneOwnerPerKey,
       FailingInv, FailedKeyHasFailedPayment, Stored, vars, keys, rows, local

LEMMA StepInv == Inv /\ [Next]_vars => Inv'
<1> SUFFICES ASSUME Inv, [Next]_vars PROVE Inv'
  OBVIOUS
<1>1. CASE UNCHANGED vars
  BY <1>1, StutterInv
<1>2. ASSUME NEW k \in Key, purgeExpired(k) PROVE Inv'
  BY <1>2, PurgeExpiredInv
<1>3. ASSUME NEW r \in Request, step(r) PROVE Inv'
  BY <1>3, LookUpKeyInv, AcquireKeyInv, LeavingInv, CreateInv, RoutingInv, CallingInv,
     FailAuthorisationInv,
     MarkFailedInv, MarkCompletedInv
  DEF step
<1>4. ASSUME NEW r \in Request,
             receive(r) \/ crash(r) \/ advanceTransaction(r) \/ operate(r)
      PROVE Inv'
  BY <1>4, ReceiveInv, LeavingInv, OutsideInv
<1> QED
  BY <1>1, <1>2, <1>3, <1>4 DEF Next

LEMMA InvariantHolds == Spec => []Inv
BY InitInv, StepInv, PTL DEF Spec

------------------------------------------------------------------------------
(* Every variable keeps its type. *)
THEOREM InitiationTypeCorrect == Spec => []TypeOK
<1>1. Inv => TypeOK
  BY DEF Inv
<1> QED
  BY <1>1, InvariantHolds, PTL

(* A gateway is asked to authorise an order, and under a key, at most once, *)
(* also when clients use a key for more orders.                             *)
THEOREM PaymentIsAuthorisedOnce == Spec => []AuthorisedOnce
<1>1. Inv => AuthorisedOnce
  BY DEF Inv, TypeOK, RowInv, UniqueInv, AuthorisedOnce
<1> QED
  BY <1>1, InvariantHolds, PTL

(* One request at a time owns a key. *)
THEOREM KeyHasOneOwner == Spec => []OneOwnerPerKey
<1>1. Inv => OneOwnerPerKey
  BY DEF Inv
<1> QED
  BY <1>1, InvariantHolds, PTL

(* The payments of a key marked FAILED have failed. *)
THEOREM FailedKeysAreFree == Spec => []FailedKeyHasFailedPayment
<1>1. Inv => FailedKeyHasFailedPayment
  BY DEF Inv
<1> QED
  BY <1>1, InvariantHolds, PTL

------------------------------------------------------------------------------
(***************************************************************************)
(* What a completed key says of its payment.  A request is named before it *)
(* calls its gateway; from then on its row is past routing; one that was   *)
(* told it is authorised has been through AUTHORISED, behind which there   *)
(* is no way back on the map; and a request that has completed its key     *)
(* does nothing any more.                                                  *)
(***************************************************************************)
PastRouting == AfterAuthorisation \cup {"AUTH_INITIATED", "AUTH_FAILED"}

CalledOK(r) ==
  /\ pc[r] \in {"calling", "answered", "unreferenced", "completing"} => r \in named
  /\ pc[r] \in {"initiated", "calling", "answered", "unreferenced", "completing"} =>
       state[r] \in PastRouting
  /\ pc[r] \in {"unreferenced", "completing"} => r \in referenced
  /\ pc[r] \in {"unreferenced", "completing"} /\ answer[r] = "authorised" =>
       state[r] \in AfterAuthorisation

CalledInv == asked \subseteq named /\ \A r \in Request : CalledOK(r)

CompletedInv ==
  \A k \in Key : keyStatus[k] = "COMPLETED" =>
    LET q == keyTxn[k] IN
    /\ q \in Request /\ args[q].key = k /\ pc[q] = "succeeded"
    /\ q \in named /\ q \in referenced
    /\ state[q] \in PastRouting
    /\ answer[q] = "authorised" => state[q] \in AfterAuthorisation

BookInv == CalledInv /\ CompletedInv

(* What a step of request r leaves alone. *)
Aside(r) ==
  /\ \A q \in Request \ {r} : /\ state'[q] = state[q] /\ answer'[q] = answer[q]
                              /\ pc'[q] = pc[q] /\ args'[q] = args[q]
  /\ named \subseteq named' /\ referenced \subseteq referenced'
  /\ \/ asked' = asked
     \/ asked' = asked \cup {r} /\ r \in named

LEMMA AsideCalled ==
  ASSUME CalledInv, NEW r \in Request, Aside(r), CalledOK(r)'
  PROVE  CalledInv'
<1>1. ASSUME NEW q \in Request \ {r} PROVE CalledOK(q)'
  BY <1>1 DEF CalledInv, CalledOK, Aside
<1>2. (asked \subseteq named)'
  BY DEF CalledInv, Aside
<1> QED
  BY <1>1, <1>2 DEF CalledInv

(* The completed keys are those of before, and r is done with none of them. *)
LEMMA AsideBook ==
  ASSUME TypeOK, BookInv, NEW r \in Request, Aside(r), CalledOK(r)', pc[r] # "succeeded",
         \A k \in Key : keyStatus'[k] = "COMPLETED" =>
                          keyStatus[k] = "COMPLETED" /\ keyTxn'[k] = keyTxn[k]
  PROVE  BookInv'
<1>1. CalledInv'
  BY AsideCalled DEF BookInv
<1>2. ASSUME NEW k \in Key, keyStatus'[k] = "COMPLETED"
      PROVE  LET q == keyTxn[k] IN
             /\ keyTxn'[k] = q
             /\ q \in Request /\ args'[q].key = k /\ pc'[q] = "succeeded"
             /\ q \in named' /\ q \in referenced'
             /\ state'[q] \in PastRouting
             /\ answer'[q] = "authorised" => state'[q] \in AfterAuthorisation
  BY <1>2 DEF BookInv, CompletedInv, Aside
<1> QED
  BY <1>1, <1>2 DEF BookInv, CompletedInv

(* The steps of a request before its gateway has answered. *)
LEMMA EarlyBook ==
  ASSUME TypeOK, BookInv, NEW r \in Request,
         \/ receive(r) \/ lookUpKey(r) \/ replayKey(r) \/ conflictKey(r) \/ acquireKey(r)
         \/ replayOrder(r) \/ create(r) \/ createRefused(r) \/ noGateway(r) \/ routeFailed(r)
         \/ gatewaySelected(r) \/ authInitiated(r) \/ nameGateway(r)
         \/ authorise(r)
  PROVE  BookInv'
<1> USE DEF local, keys, rows, go
<1>0. CalledOK(r)
  BY DEF BookInv, CalledInv
<1>1. CASE receive(r) \/ lookUpKey(r) \/ replayKey(r) \/ conflictKey(r) \/ replayOrder(r) \/ createRefused(r)
  <2>1. Aside(r) /\ pc[r] # "succeeded" /\ UNCHANGED keys
    BY <1>1 DEF TypeOK, receive, lookUpKey, replayKey, conflictKey, replayOrder, createRefused, inserts, Aside
  <2>2. pc'[r] \in {"waiting", "locked", "replaying", "conflict", "succeeded", "duplicate"}
    BY <1>1 DEF TypeOK, receive, lookUpKey, replayKey, conflictKey, replayOrder, createRefused
  <2>3. answer' = answer
    BY <1>1 DEF receive, lookUpKey, replayKey, conflictKey, replayOrder, createRefused
  <2>4. CalledOK(r)'
    BY <1>0, <2>2, <2>3 DEF CalledOK
  <2> QED
    BY <2>1, <2>4, AsideBook
<1>2. CASE acquireKey(r)
  <2>1. Aside(r) /\ pc[r] # "succeeded" /\ CalledOK(r)'
    BY <1>0, <1>2 DEF TypeOK, acquireKey, Aside, CalledOK
  <2>2. \A k \in Key : keyStatus'[k] = "COMPLETED" => keyStatus[k] = "COMPLETED" /\ keyTxn'[k] = keyTxn[k]
    BY <1>2 DEF TypeOK, acquireKey
  <2> QED
    BY <2>1, <2>2, AsideBook
<1>3. CASE create(r) \/ noGateway(r) \/ routeFailed(r) \/ gatewaySelected(r)
  <2>1. Aside(r) /\ pc[r] # "succeeded" /\ UNCHANGED keys
    BY <1>3 DEF TypeOK, create, inserts, noGateway, routeFailed, gatewaySelected, transition, Aside
  <2>2. pc'[r] \in {"created", "unrouted", "failed", "routed"} /\ answer' = answer
    BY <1>3 DEF TypeOK, create, noGateway, routeFailed, gatewaySelected
  <2>3. CalledOK(r)'
    BY <1>0, <2>2 DEF CalledOK
  <2> QED
    BY <2>1, <2>3, AsideBook
<1>4. CASE authInitiated(r) \/ nameGateway(r)
  <2>1. Aside(r) /\ pc[r] # "succeeded" /\ UNCHANGED keys
    BY <1>4 DEF TypeOK, authInitiated, nameGateway, transition, Aside
  <2>2. CalledOK(r)'
    BY <1>0, <1>4 DEF TypeOK, authInitiated, nameGateway, transition, CalledOK, PastRouting
  <2> QED
    BY <2>1, <2>2, AsideBook
<1>5. CASE authorise(r)
  <2>1. Aside(r) /\ pc[r] # "succeeded" /\ UNCHANGED keys
    BY <1>0, <1>5 DEF TypeOK, authorise, Aside, CalledOK
  <2>2. CalledOK(r)'
    BY <1>0, <1>5 DEF TypeOK, authorise, CalledOK
  <2> QED
    BY <2>1, <2>2, AsideBook
<1> QED
  BY <1>1, <1>2, <1>3, <1>4, <1>5

(* Those after it, and a crash at any stage. *)
LEMMA LateBook ==
  ASSUME TypeOK, BookInv, NEW r \in Request,
         \/ failAuthorisation(r) \/ pendingAuthorisation(r) \/ completeAuthorisation(r)
         \/ updateReferences(r) \/ outcomeRefused(r) \/ markFailed(r) \/ crash(r)
  PROVE  BookInv'
<1> USE DEF local, keys, rows, go
<1>0. CalledOK(r)
  BY DEF BookInv, CalledInv
<1>1. CASE failAuthorisation(r) \/ outcomeRefused(r) \/ crash(r)
  <2>1. Aside(r) /\ pc[r] # "succeeded" /\ UNCHANGED keys
    BY <1>1 DEF TypeOK, failAuthorisation, outcomeRefused, crash, transition, Aside, Live, Owning
  <2>2. pc'[r] \in {"failing", "failed", "crashed"} /\ answer' = answer
    BY <1>1 DEF TypeOK, failAuthorisation, outcomeRefused, crash
  <2>3. CalledOK(r)'
    BY <1>0, <2>2 DEF CalledOK
  <2> QED
    BY <2>1, <2>3, AsideBook
<1>2. CASE pendingAuthorisation(r) \/ updateReferences(r)
  <2>1. Aside(r) /\ pc[r] # "succeeded" /\ UNCHANGED keys
    BY <1>2 DEF TypeOK, pendingAuthorisation, updateReferences, Aside
  <2>2. CalledOK(r)'
    BY <1>0, <1>2 DEF TypeOK, pendingAuthorisation, updateReferences, CalledOK
  <2> QED
    BY <2>1, <2>2, AsideBook
<1>3. CASE completeAuthorisation(r)
  <2>1. Aside(r) /\ pc[r] # "succeeded" /\ UNCHANGED keys
    BY <1>3 DEF TypeOK, completeAuthorisation, transition, Aside
  <2>2. CalledOK(r)'
    BY <1>0, <1>3
    DEF TypeOK, completeAuthorisation, transition, CalledOK, PastRouting, AfterAuthorisation,
        TransactionState
  <2> QED
    BY <2>1, <2>2, AsideBook
<1>4. CASE markFailed(r)
  <2>1. Aside(r) /\ pc[r] # "succeeded" /\ CalledOK(r)'
    BY <1>0, <1>4 DEF TypeOK, markFailed, Aside, CalledOK
  <2>2. \A k \in Key : keyStatus'[k] = "COMPLETED" => keyStatus[k] = "COMPLETED" /\ keyTxn'[k] = keyTxn[k]
    BY <1>4 DEF TypeOK, markFailed, markedAs
  <2> QED
    BY <2>1, <2>2, AsideBook
<1> QED
  BY <1>1, <1>2, <1>3, <1>4

LEMMA MarkCompletedBook ==
  ASSUME TypeOK, BookInv, NEW r \in Request, markCompleted(r)
  PROVE  BookInv'
<1> USE DEF local, keys, rows, go
<1>1. /\ pc[r] = "completing" /\ pc' = [pc EXCEPT ![r] = "succeeded"]
      /\ UNCHANGED <<state, named, referenced, asked, args, answer>>
  BY DEF markCompleted
<1>2. CalledOK(r)
  BY DEF BookInv, CalledInv
<1>3. CalledInv'
  <2>1. Aside(r) /\ CalledOK(r)'
    BY <1>1, <1>2 DEF TypeOK, Aside, CalledOK
  <2> QED
    BY <2>1, AsideCalled DEF BookInv
<1>4. ASSUME NEW k \in Key, keyStatus'[k] = "COMPLETED"
      PROVE  \/ k = args[r].key /\ keyTxn'[k] = r
             \/ keyStatus[k] = "COMPLETED" /\ keyTxn'[k] = keyTxn[k]
  BY <1>4 DEF TypeOK, markCompleted, markedAs
<1>5. ASSUME NEW k \in Key, keyStatus'[k] = "COMPLETED"
      PROVE  LET q == keyTxn'[k] IN
             /\ q \in Request /\ args'[q].key = k /\ pc'[q] = "succeeded"
             /\ q \in named' /\ q \in referenced'
             /\ state'[q] \in PastRouting
             /\ answer'[q] = "authorised" => state'[q] \in AfterAuthorisation
  <2>1. CASE k = args[r].key /\ keyTxn'[k] = r
    BY <1>1, <1>2, <2>1 DEF TypeOK, CalledOK
  <2>2. CASE keyStatus[k] = "COMPLETED" /\ keyTxn'[k] = keyTxn[k]
    BY <1>1, <2>2 DEF TypeOK, BookInv, CompletedInv
  <2> QED
    BY <1>4, <1>5, <2>1, <2>2
<1> QED
  BY <1>3, <1>5 DEF BookInv, CompletedInv

(* Webhooks, reconciliation, the merchant and the purge. *)
LEMMA OutsideBook ==
  ASSUME TypeOK, BookInv,
         \/ \E r \in Request : advanceTransaction(r) \/ operate(r)
         \/ \E k \in Key : purgeExpired(k)
  PROVE  BookInv'
<1> USE DEF local, keys, rows, go
<1>1. ASSUME NEW r \in Request, advanceTransaction(r) \/ operate(r) PROVE BookInv'
  <2>0. /\ \A q \in Request \ {r} : state'[q] = state[q]
        /\ state'[r] \in PastRouting
        /\ state[r] \in AfterAuthorisation => state'[r] \in AfterAuthorisation
        /\ referenced \subseteq referenced'
        /\ UNCHANGED <<keyStatus, keyTxn, named, asked, pc, args, answer>>
    BY <1>1, OutsideMoves DEF PastRouting
  <2>1. \A q \in Request : CalledOK(q)
    BY DEF BookInv, CalledInv
  <2>2. CalledOK(r)'
    BY <2>0, <2>1 DEF CalledOK
  <2>3. CalledInv'
    <3>1. Aside(r)
      BY <2>0 DEF Aside
    <3> QED
      BY <3>1, <2>2, AsideCalled DEF BookInv
  <2>4. ASSUME NEW q \in Request, state[q] \in PastRouting,
               answer[q] = "authorised" => state[q] \in AfterAuthorisation
        PROVE  /\ state'[q] \in PastRouting
               /\ answer'[q] = "authorised" => state'[q] \in AfterAuthorisation
    BY <2>0, <2>4
  <2>5. ASSUME NEW k \in Key, keyStatus'[k] = "COMPLETED"
        PROVE  LET q == keyTxn'[k] IN
               /\ q \in Request /\ args'[q].key = k /\ pc'[q] = "succeeded"
               /\ q \in named' /\ q \in referenced'
               /\ state'[q] \in PastRouting
               /\ answer'[q] = "authorised" => state'[q] \in AfterAuthorisation
    BY <2>0, <2>4, <2>5 DEF BookInv, CompletedInv
  <2> QED
    BY <2>3, <2>5 DEF BookInv, CompletedInv
<1>2. ASSUME NEW k \in Key, purgeExpired(k) PROVE BookInv'
  <2>1. \A l \in Key : keyStatus'[l] = "COMPLETED" => keyStatus[l] = "COMPLETED" /\ keyTxn'[l] = keyTxn[l]
    BY <1>2 DEF TypeOK, purgeExpired
  <2>2. UNCHANGED <<state, named, referenced, asked, pc, args, answer>>
    BY <1>2 DEF purgeExpired
  <2>3. CalledInv'
    BY <2>2 DEF BookInv, CalledInv, CalledOK
  <2> QED
    BY <2>1, <2>2, <2>3 DEF BookInv, CompletedInv
<1> QED
  BY <1>1, <1>2

LEMMA StepBook == TypeOK /\ BookInv /\ [Next]_vars => BookInv'
<1> SUFFICES ASSUME TypeOK, BookInv, [Next]_vars PROVE BookInv'
  OBVIOUS
<1>1. CASE UNCHANGED vars
  BY <1>1 DEF vars, keys, rows, local, BookInv, CalledInv, CalledOK, CompletedInv
<1>2. ASSUME NEW r \in Request, receive(r) \/ step(r) \/ crash(r) PROVE BookInv'
  BY <1>2, EarlyBook, LateBook, MarkCompletedBook DEF step
<1> QED
  BY <1>1, <1>2, OutsideBook DEF Next

LEMMA BookHolds == Spec => []BookInv
<1>1. Init => BookInv
  BY DEF Init, BookInv, CalledInv, CalledOK, CompletedInv
<1> QED
  BY <1>1, StepBook, InitiationTypeCorrect, PTL DEF Spec

(* A key marked COMPLETED names a payment of its own that can be found and  *)
(* was not turned down.                                                     *)
THEOREM CompletedKeysHavePayments == Spec => []CompletedKeyHasPayment
<1>1. BookInv => CompletedKeyHasPayment
  BY DEF BookInv, CompletedInv, CompletedKeyHasPayment, PastRouting,
     AfterAuthorisation, TransactionState, NoRow
<1> QED
  BY <1>1, BookHolds, PTL

(* What the idempotency table says of a payment its row bears out. *)
THEOREM KeysAgreeWithPayments == Spec => []KeyAgreesWithPayment
<1>1. CompletedKeyHasPayment /\ FailedKeyHasFailedPayment => KeyAgreesWithPayment
  BY DEF KeyAgreesWithPayment
<1> QED
  BY <1>1, CompletedKeysHavePayments, FailedKeysAreFree, PTL

------------------------------------------------------------------------------
(***************************************************************************)
(* A request whose gateway was asked has a row past routing: it had one    *)
(* when it called (CalledOK), its own handler writes only outcomes from    *)
(* then on, and so do the webhooks.                                        *)
(***************************************************************************)
AfterRouting == PastRouting \cup {"AUTH_TIMEOUT"}

(* Whoever is at these stages has not called its gateway yet. *)
NotCalled == {"new", "waiting", "locked", "replaying", "acquired", "created",
              "unrouted", "routed", "initiated", "calling"}

AskedInv ==
  /\ \A r \in asked : state[r] \in AfterRouting
  /\ \A r \in Request : pc[r] \in NotCalled => r \notin asked

LEMMA StepAsked == TypeOK /\ BookInv /\ AskedInv /\ [Next]_vars => AskedInv'
<1> SUFFICES ASSUME TypeOK, BookInv, AskedInv, [Next]_vars PROVE AskedInv'
  OBVIOUS
<1> USE DEF local, keys, rows, go
<1>1. CASE UNCHANGED vars
  BY <1>1 DEF vars, AskedInv
<1>2. ASSUME NEW k \in Key, purgeExpired(k) PROVE AskedInv'
  BY <1>2 DEF purgeExpired, AskedInv
<1>3. ASSUME NEW r \in Request,
             \/ receive(r) \/ lookUpKey(r) \/ replayKey(r) \/ conflictKey(r) \/ acquireKey(r)
             \/ replayOrder(r) \/ createRefused(r) \/ nameGateway(r)
      PROVE  AskedInv'
  <2>1. pc[r] \in NotCalled /\ pc' = [pc EXCEPT ![r] = pc'[r]] /\ UNCHANGED <<state, asked>>
    BY <1>3 DEF TypeOK, receive, lookUpKey, replayKey, conflictKey, acquireKey, replayOrder,
                createRefused, inserts, nameGateway, NotCalled
  <2> QED
    BY <2>1 DEF TypeOK, AskedInv
<1>4. ASSUME NEW r \in Request,
             \/ create(r) \/ noGateway(r) \/ routeFailed(r)
             \/ gatewaySelected(r) \/ authInitiated(r)
      PROVE  AskedInv'
  <2>1. /\ pc[r] \in NotCalled /\ pc' = [pc EXCEPT ![r] = pc'[r]] /\ UNCHANGED asked
        /\ \A q \in Request \ {r} : state'[q] = state[q]
    BY <1>4 DEF TypeOK, create, inserts, noGateway, routeFailed, gatewaySelected, authInitiated,
                transition, NotCalled
  <2>2. r \notin asked
    BY <2>1 DEF AskedInv
  <2> QED
    BY <2>1, <2>2 DEF TypeOK, AskedInv
<1>5. ASSUME NEW r \in Request, authorise(r) PROVE AskedInv'
  <2>1. state[r] \in AfterRouting
    BY <1>5 DEF authorise, BookInv, CalledInv, CalledOK, AfterRouting
  <2>2. /\ pc' = [pc EXCEPT ![r] = "answered"] /\ asked' = asked \cup {r}
        /\ UNCHANGED state
    BY <1>5 DEF authorise
  <2> QED
    BY <2>1, <2>2 DEF TypeOK, AskedInv, NotCalled
<1>6. ASSUME NEW r \in Request,
             \/ pendingAuthorisation(r) \/ updateReferences(r) \/ outcomeRefused(r)
             \/ markFailed(r) \/ markCompleted(r) \/ crash(r)
      PROVE  AskedInv'
  <2>1. UNCHANGED <<state, asked>>
    BY <1>6 DEF pendingAuthorisation, updateReferences, outcomeRefused, markFailed,
                markCompleted, crash
  <2>2. \A q \in Request : pc'[q] # pc[q] => pc'[q] \notin NotCalled
    BY <1>6 DEF TypeOK, pendingAuthorisation, updateReferences, outcomeRefused, markFailed,
                markCompleted, crash, NotCalled
  <2> QED
    BY <2>1, <2>2 DEF AskedInv
<1>7. ASSUME NEW r \in Request, failAuthorisation(r) \/ completeAuthorisation(r)
      PROVE  AskedInv'
  <2>1. /\ \A q \in Request \ {r} : state'[q] = state[q]
        /\ state'[r] \in AfterRouting /\ UNCHANGED asked
    BY <1>7 DEF TypeOK, failAuthorisation, completeAuthorisation, transition, failureState,
                AfterRouting, PastRouting, AfterAuthorisation, TransactionState
  <2>2. \A q \in Request : pc'[q] # pc[q] => pc'[q] \notin NotCalled
    BY <1>7 DEF TypeOK, failAuthorisation, completeAuthorisation, NotCalled
  <2> QED
    BY <2>1, <2>2 DEF TypeOK, AskedInv
<1>8. ASSUME NEW r \in Request, advanceTransaction(r) \/ operate(r) PROVE AskedInv'
  <2>1. /\ \A q \in Request \ {r} : state'[q] = state[q]
        /\ state'[r] \in PastRouting /\ UNCHANGED <<asked, pc>>
    BY <1>8, OutsideMoves DEF PastRouting
  <2> QED
    BY <2>1 DEF TypeOK, AskedInv, AfterRouting
<1> QED
  BY <1>1, <1>2, <1>3, <1>4, <1>5, <1>6, <1>7, <1>8 DEF Next, step

LEMMA AskedHolds == Spec => []AskedInv
<1>1. Init => AskedInv
  BY DEF Init, AskedInv
<1> QED
  BY <1>1, StepAsked, BookHolds, InitiationTypeCorrect, PTL DEF Spec

(* A payment whose gateway was asked is named and past routing for ever. *)
THEOREM AskedGatewaysAreNamed == Spec => []AskedGatewayIsNamed
<1>1. BookInv /\ AskedInv => AskedGatewayIsNamed
  BY DEF BookInv, CalledInv, AskedInv, AskedGatewayIsNamed, AfterRouting, PastRouting,
     AfterAuthorisation, TransactionState, NoRow
<1> QED
  BY <1>1, BookHolds, AskedHolds, PTL

------------------------------------------------------------------------------
(***************************************************************************)
(* A row stays, and with it the key and the order it was stored for; so    *)
(* what a client was shown stays an answer to what it asked.               *)
(***************************************************************************)
LEMMA RowsStay ==
  ASSUME Inv, [Next]_vars, NEW q \in Request, Stored(q)
  PROVE  Stored(q)' /\ args'[q] = args[q]
<1> USE DEF local, keys, rows
<1>1. args'[q] = args[q]
  <2>1. ASSUME NEW r \in Request, receive(r) PROVE args'[q] = args[q]
    BY <2>1 DEF Inv, TypeOK, RowInv, receive
  <2> QED
    BY <2>1
    DEF Next, step, lookUpKey, replayKey, conflictKey, acquireKey, replayOrder, create,
        createRefused, noGateway, routeFailed, gatewaySelected, authInitiated, nameGateway,
        authorise, failAuthorisation, pendingAuthorisation,
        completeAuthorisation, updateReferences, outcomeRefused, markFailed, markCompleted,
        crash, advanceTransaction, operate, purgeExpired, vars
<1>2. ASSUME NEW r \in Request, NEW to \in TransactionState, transition(r, to)
      PROVE  Stored(q)'
  BY <1>2, TransitionType DEF Inv
<1>3. ASSUME NEW r \in Request, create(r) PROVE Stored(q)'
  BY <1>3 DEF Inv, TypeOK, create, Stored, NoRow
<1>4. ASSUME NEW r \in Request,
             \/ noGateway(r) \/ routeFailed(r) \/ gatewaySelected(r) \/ authInitiated(r)
             \/ failAuthorisation(r) \/ completeAuthorisation(r)
             \/ advanceTransaction(r) \/ operate(r)
      PROVE  \E to \in TransactionState : transition(r, to)
  BY <1>4, OutsideMoves
  DEF Inv, noGateway, routeFailed, gatewaySelected, authInitiated, failAuthorisation,
      completeAuthorisation, failureState, TransactionState
<1>5. ASSUME UNCHANGED state PROVE Stored(q)'
  BY <1>5 DEF Stored
<1>6. Stored(q)'
  BY <1>2, <1>3, <1>4, <1>5
  DEF Next, step, receive, lookUpKey, replayKey, conflictKey, acquireKey, replayOrder,
      createRefused, nameGateway, authorise, pendingAuthorisation,
      updateReferences, outcomeRefused, markFailed, markCompleted, crash,
      purgeExpired, vars
<1> QED
  BY <1>1, <1>6

AnswersOrder(r, q) == q \in Request /\ Stored(q) /\ args[q].order = args[r].order

ReplyInv == \A r \in Request : pc[r] = "succeeded" => AnswersOrder(r, reply[r])

(* Only a replay and the completion of a payment answer a client. *)
LEMMA OthersDoNotReply ==
  ASSUME TypeOK, [Next]_vars, NEW r \in Request, pc'[r] = "succeeded",
         ~ replayOrder(r), ~ markCompleted(r)
  PROVE  pc[r] = "succeeded" /\ reply'[r] = reply[r] /\ args'[r] = args[r]
<1> USE DEF local, keys, rows, go
<1>1. CASE UNCHANGED vars
  BY <1>1 DEF vars
<1>2. ASSUME NEW k \in Key, purgeExpired(k)
      PROVE pc[r] = "succeeded" /\ reply'[r] = reply[r] /\ args'[r] = args[r]
  BY <1>2 DEF purgeExpired
<1>3. ASSUME NEW q \in Request, replayOrder(q) \/ markCompleted(q)
      PROVE pc[r] = "succeeded" /\ reply'[r] = reply[r] /\ args'[r] = args[r]
  BY <1>3 DEF TypeOK, replayOrder, markCompleted
<1>4. ASSUME NEW q \in Request, receive(q)
      PROVE pc[r] = "succeeded" /\ reply'[r] = reply[r] /\ args'[r] = args[r]
  BY <1>4 DEF TypeOK, receive
<1>5. ASSUME NEW q \in Request, advanceTransaction(q) \/ operate(q)
      PROVE pc[r] = "succeeded" /\ reply'[r] = reply[r] /\ args'[r] = args[r]
  BY <1>5 DEF advanceTransaction, operate
<1>6. ASSUME NEW q \in Request, crash(q) \/ step(q), ~ replayOrder(q), ~ markCompleted(q)
      PROVE pc[r] = "succeeded" /\ reply'[r] = reply[r] /\ args'[r] = args[r]
  <2>1. pc'[q] # "succeeded" /\ pc' = [pc EXCEPT ![q] = pc'[q]] /\ UNCHANGED <<reply, args>>
    BY <1>6
    DEF TypeOK, step, lookUpKey, replayKey, conflictKey, acquireKey, create, createRefused,
        noGateway, routeFailed, gatewaySelected, authInitiated, nameGateway, authorise,
        failAuthorisation, pendingAuthorisation, completeAuthorisation,
        updateReferences, outcomeRefused, markFailed, crash
  <2> QED
    BY <2>1 DEF TypeOK
<1> QED
  BY <1>1, <1>2, <1>3, <1>4, <1>5, <1>6 DEF Next, step

LEMMA StepReply == Inv /\ ReplyInv /\ [Next]_vars => ReplyInv'
<1> SUFFICES ASSUME Inv, ReplyInv, [Next]_vars, NEW r \in Request, pc'[r] = "succeeded"
             PROVE  AnswersOrder(r, reply[r])'
  BY DEF ReplyInv
<1>1. CASE replayOrder(r)
  <2>1. PICK q \in Request : AnswersOrder(r, q) /\ reply' = [reply EXCEPT ![r] = q]
    BY <1>1 DEF replayOrder, AnswersOrder
  <2> QED
    BY <1>1, <2>1 DEF Inv, TypeOK, replayOrder, rows, AnswersOrder, Stored
<1>2. CASE markCompleted(r)
  BY <1>2 DEF Inv, TypeOK, RowInv, HasRow, Owning, markCompleted, rows, AnswersOrder, Stored
<1>3. CASE ~ replayOrder(r) /\ ~ markCompleted(r)
  <2>1. pc[r] = "succeeded" /\ reply'[r] = reply[r] /\ args'[r] = args[r]
    BY <1>3, OthersDoNotReply DEF Inv
  <2>2. AnswersOrder(r, reply[r])
    BY <2>1 DEF ReplyInv
  <2>3. PICK q \in Request : q = reply[r] /\ Stored(q) /\ args[q].order = args[r].order
    BY <2>2 DEF AnswersOrder
  <2>4. Stored(q)' /\ args'[q] = args[q]
    BY <2>3, RowsStay
  <2> QED
    BY <2>1, <2>3, <2>4 DEF AnswersOrder, Stored
<1> QED
  BY <1>1, <1>2, <1>3

LEMMA ReplyHolds == Spec => []ReplyInv
<1>1. Init => ReplyInv
  BY DEF Init, ReplyInv
<1> QED
  BY <1>1, StepReply, InvariantHolds, PTL DEF Spec

(* Clients are shown a payment of the order they asked for, and those that  *)
(* ask for one order are shown the same payment.                            *)
THEOREM ClientsAreToldTheSame == Spec => []RepliesAgree
<1>1. Inv /\ ReplyInv => RepliesAgree
  BY DEF Inv, UniqueInv, ReplyInv, AnswersOrder, RepliesAgree
<1> QED
  BY <1>1, InvariantHolds, ReplyHolds, PTL

------------------------------------------------------------------------------
LEMMA InitLifecycle == Init => Lifecycle!Init
BY DEF Init, Lifecycle!Init, Lifecycle!NoRow, NoRow

(* transition() moves the row along an edge, or leaves it where it is. *)
LEMMA TransitionLifecycle ==
  ASSUME TypeOK, NEW r \in Request, NEW to \in TransactionState, transition(r, to)
  PROVE  [Lifecycle!Next]_state
<1>1. CASE state[r] = to
  BY <1>1 DEF TypeOK, transition
<1>2. CASE assertValidTransition(state[r], to)
  <2>1. state[r] # NoRow
    BY <1>2 DEF assertValidTransition, VALID_TRANSITIONS, NoRow
  <2>2. Lifecycle!move(r, to)
    BY <1>2, <2>1
    DEF transition, Lifecycle!move, Lifecycle!assertValidTransition, assertValidTransition,
        Lifecycle!VALID_TRANSITIONS, VALID_TRANSITIONS, Lifecycle!TERMINAL_STATES,
        TERMINAL_STATES, Lifecycle!NoRow, NoRow
  <2> QED
    BY <2>2 DEF Lifecycle!Next, Lifecycle!TransactionState, TransactionState
<1> QED
  BY <1>1, <1>2 DEF transition, accepts

LEMMA CreateLifecycle ==
  ASSUME NEW r \in Request, create(r)
  PROVE  [Lifecycle!Next]_state
<1>1. CASE Stored(r)
  BY <1>1 DEF create, alreadyStored
<1>2. CASE ~ Stored(r)
  BY <1>2 DEF create, Stored, Lifecycle!create, Lifecycle!Next, Lifecycle!NoRow, NoRow
<1> QED
  BY <1>1, <1>2

LEMMA StepLifecycle == Inv /\ [Next]_vars => [Lifecycle!Next]_state
<1> SUFFICES ASSUME Inv, [Next]_vars PROVE [Lifecycle!Next]_state
  OBVIOUS
<1>1. CASE UNCHANGED vars
  BY <1>1 DEF vars, rows
<1>2. ASSUME NEW k \in Key, purgeExpired(k) PROVE [Lifecycle!Next]_state
  BY <1>2 DEF purgeExpired, rows
<1>3. ASSUME NEW r \in Request, NEW to \in TransactionState, transition(r, to)
      PROVE [Lifecycle!Next]_state
  BY <1>3, TransitionLifecycle DEF Inv
<1>4. ASSUME NEW r \in Request, step(r) PROVE [Lifecycle!Next]_state
  <2>1. CASE create(r)
    BY <2>1, CreateLifecycle
  <2>2. CASE \/ noGateway(r) \/ routeFailed(r) \/ gatewaySelected(r)
             \/ authInitiated(r) \/ failAuthorisation(r) \/ completeAuthorisation(r)
    <3>1. \E to \in TransactionState : transition(r, to)
      BY <2>2 DEF noGateway, routeFailed, gatewaySelected, authInitiated, failAuthorisation,
                  completeAuthorisation, failureState, TransactionState
    <3> QED
      BY <1>3, <3>1
  <2>3. CASE UNCHANGED state
    BY <2>3
  <2> QED
    BY <1>4, <2>1, <2>2, <2>3
    DEF step, lookUpKey, replayKey, conflictKey, acquireKey, replayOrder, createRefused,
        nameGateway, authorise, pendingAuthorisation, updateReferences,
        outcomeRefused, markFailed, markCompleted, rows
<1>5. ASSUME NEW r \in Request,
             receive(r) \/ crash(r) \/ advanceTransaction(r) \/ operate(r)
      PROVE [Lifecycle!Next]_state
  <2>1. CASE advanceTransaction(r) \/ operate(r)
    <3>1. \E to \in TransactionState : transition(r, to)
      BY <2>1, OutsideMoves DEF Inv
    <3> QED
      BY <1>3, <3>1
  <2> QED
    BY <1>5, <2>1 DEF receive, crash, rows
<1> QED
  BY <1>1, <1>2, <1>4, <1>5 DEF Next

(* The rows that payment requests insert, route and authorise, together    *)
(* with the webhooks that advance them, implement the abstract lifecycle.  *)
THEOREM InitiationRefinesLifecycle == Spec => ImplementsLifecycle
<1>1. Init => Lifecycle!Init
  BY InitLifecycle
<1>2. Inv /\ [Next]_vars => [Lifecycle!Next]_state
  BY StepLifecycle
<1> QED
  BY <1>1, <1>2, InvariantHolds, PTL DEF Spec, ImplementsLifecycle, Lifecycle!Spec
==============================================================================
