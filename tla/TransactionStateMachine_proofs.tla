-------------------- MODULE TransactionStateMachine_proofs -------------------
(***************************************************************************)
(* Proofs about transition(), for any number of callers and rows.          *)
(*                                                                         *)
(* The argument: the row lock has at most one owner, and its owner is a    *)
(* caller inside its transaction on that row (LockInv); hence the state    *)
(* read under the lock is still the committed one at the COMMIT            *)
(* (ReadStaysCurrent); hence the entry that is appended starts where the   *)
(* log ended, and the write is an edge of the map (LogIsAPath, and the     *)
(* refinement of the lifecycle).                                           *)
(***************************************************************************)
EXTENDS TransactionStateMachine, SequenceTheorems, TLAPS

USE StateMachineAssumption

(* A caller inside its transaction owns the lock of the row it works on.   *)
LockInv ==
  \A c \in Caller : stage[c] \in Holding =>
    /\ rowLock[call[c].txn] = c
    /\ state[call[c].txn] # NoRow

(* Past the validation, the move is known to be an edge of the map.        *)
ValidatedInv ==
  \A c \in Caller : stage[c] \in {"updated", "logged"} =>
    assertValidTransition(fromState[c], call[c].to)

RowInv ==
  \A t \in Txn :
    /\ state[t] = NoRow => log[t] = <<>>
    /\ state[t] # NoRow => state[t] = LastLogged(t)

Inv == TypeOK /\ LockInv /\ ReadStaysCurrent /\ ValidatedInv /\ RowInv /\ LogIsAPath

------------------------------------------------------------------------------
(* The steps that write no row differ in little; this is what they share.  *)
LEMMA StatesAreNotNoRow == NoRow \notin TransactionState /\ "CREATED" \in TransactionState
BY DEF NoRow, TransactionState

LEMMA ValidIsTyped ==
  ASSUME NEW from, NEW to, assertValidTransition(from, to)
  PROVE  from \in TransactionState /\ to \in TransactionState
BY DEF assertValidTransition, VALID_TRANSITIONS, TransactionState

LEMMA InitInv == Init => Inv
BY StatesAreNotNoRow
   DEF Init, Inv, TypeOK, LockInv, ReadStaysCurrent, ValidatedInv, RowInv, LogIsAPath,
       Stage, Holding, NoCall, LastLogged

LEMMA FinishType ==
  ASSUME TypeOK, NEW c \in Caller, finish(c)
  PROVE  /\ rowLock' \in [Txn -> Caller \cup {NoCaller}]
         /\ stage' \in [Caller -> Stage]
         /\ call' \in [Caller -> Calls \cup {NoCall}]
         /\ fromState' \in [Caller -> TransactionState \cup {NoRow}]
         /\ \A d \in Caller : stage'[d] # "idle" => call'[d] \in Calls
         /\ \A d \in Caller : stage'[d] \in Holding => fromState'[d] \in TransactionState
BY DEF TypeOK, finish, Stage, Holding

(***************************************************************************)
(* A call that ends without a COMMIT disturbs nothing.                     *)
(***************************************************************************)
LEMMA EndWithoutCommit ==
  ASSUME Inv, NEW c \in Caller, finish(c), UNCHANGED rows
  PROVE  Inv'
<1>1. TypeOK'
  BY FinishType DEF Inv, TypeOK, rows
<1>2. ASSUME NEW d \in Caller, stage'[d] # "idle"
      PROVE  d # c /\ stage'[d] = stage[d] /\ call'[d] = call[d] /\ fromState'[d] = fromState[d]
  BY <1>2 DEF Inv, TypeOK, finish
<1>3. LockInv'
  BY <1>2 DEF Inv, TypeOK, LockInv, Holding, finish, rows, Calls
<1>4. ReadStaysCurrent'
  BY <1>2 DEF Inv, ReadStaysCurrent, Holding, rows
<1>5. ValidatedInv'
  BY <1>2 DEF Inv, ValidatedInv
<1>6. RowInv' /\ LogIsAPath'
  BY DEF Inv, RowInv, LogIsAPath, LastLogged, rows
<1> QED
  BY <1>1, <1>3, <1>4, <1>5, <1>6 DEF Inv

(***************************************************************************)
(* Inserting a row: its log is empty, so the path starts in CREATED.       *)
(***************************************************************************)
LEMMA CreateInv ==
  ASSUME Inv, NEW t \in Txn, create(t)
  PROVE  Inv'
<1>1. TypeOK'
  BY StatesAreNotNoRow DEF Inv, TypeOK, create, calls
<1>2. LockInv'
  BY StatesAreNotNoRow DEF Inv, TypeOK, LockInv, Holding, create, calls
<1>3. ReadStaysCurrent'
  BY DEF Inv, TypeOK, LockInv, ReadStaysCurrent, create, calls
<1>4. ValidatedInv'
  BY DEF Inv, ValidatedInv, create, calls
<1>5. RowInv'
  BY StatesAreNotNoRow DEF Inv, TypeOK, RowInv, LastLogged, create
<1>6. LogIsAPath'
  BY DEF Inv, LogIsAPath, create
<1> QED
  BY <1>1, <1>2, <1>3, <1>4, <1>5, <1>6 DEF Inv

LEMMA CallInv ==
  ASSUME Inv, NEW c \in Caller, NEW t \in Txn, NEW to \in TransactionState,
         transition(c, t, to)
  PROVE  Inv'
<1>1. TypeOK'
  BY DEF Inv, TypeOK, transition, rows, Calls, Stage, Holding
<1>2. LockInv' /\ ReadStaysCurrent' /\ ValidatedInv'
  BY DEF Inv, TypeOK, LockInv, ReadStaysCurrent, ValidatedInv, Holding, transition, rows
<1>3. RowInv' /\ LogIsAPath'
  BY DEF Inv, RowInv, LogIsAPath, LastLogged, transition, rows
<1> QED
  BY <1>1, <1>2, <1>3 DEF Inv

(***************************************************************************)
(* Taking the lock: it was free, so no other caller is inside a            *)
(* transaction on this row.                                                *)
(***************************************************************************)
LEMMA LockRowInv ==
  ASSUME Inv, NEW c \in Caller, lockRow(c)
  PROVE  Inv'
<1>1. call[c] \in Calls /\ state[call[c].txn] \in TransactionState
  BY DEF Inv, TypeOK, lockRow, canLock, Calls
<1>2. TypeOK'
  BY <1>1 DEF Inv, TypeOK, lockRow, rows, Calls, Stage, Holding
<1>3. LockInv'
  BY <1>1 DEF Inv, TypeOK, LockInv, Holding, lockRow, canLock, rows, Calls
<1>4. ReadStaysCurrent'
  BY <1>1 DEF Inv, TypeOK, ReadStaysCurrent, Holding, lockRow, rows
<1>5. ValidatedInv'
  BY DEF Inv, TypeOK, ValidatedInv, lockRow
<1>6. RowInv' /\ LogIsAPath'
  BY DEF Inv, RowInv, LogIsAPath, LastLogged, lockRow, rows
<1> QED
  BY <1>2, <1>3, <1>4, <1>5, <1>6 DEF Inv

LEMMA UpdateRowInv ==
  ASSUME Inv, NEW c \in Caller, updateRow(c) \/ saveLogEntry(c)
  PROVE  Inv'
<1>1. TypeOK'
  BY DEF Inv, TypeOK, updateRow, saveLogEntry, rows, Stage, Holding
<1>2. LockInv' /\ ReadStaysCurrent'
  BY DEF Inv, TypeOK, LockInv, ReadStaysCurrent, Holding, updateRow, saveLogEntry, rows
<1>3. ValidatedInv'
  BY DEF Inv, TypeOK, ValidatedInv, updateRow, saveLogEntry
<1>4. RowInv' /\ LogIsAPath'
  BY DEF Inv, RowInv, LogIsAPath, LastLogged, updateRow, saveLogEntry, rows
<1> QED
  BY <1>1, <1>2, <1>3, <1>4 DEF Inv

(***************************************************************************)
(* The COMMIT: the state read under the lock is current and is where the   *)
(* log ends, so the new entry continues the path; and the callers on other *)
(* rows are the only ones inside a transaction.                            *)
(***************************************************************************)
LEMMA CommitInv ==
  ASSUME Inv, NEW c \in Caller, commit(c)
  PROVE  /\ Inv'
         /\ assertValidTransition(state[call[c].txn], call[c].to)
<1>0. call[c] \in Calls
  BY DEF Inv, TypeOK, commit
<1> PICK t \in Txn : t = call[c].txn
  BY <1>0 DEF Calls
<1>1. /\ call[c] \in Calls
      /\ fromState[c] = state[t] /\ rowLock[t] = c /\ state[t] # NoRow
      /\ assertValidTransition(state[t], call[c].to)
  BY DEF Inv, TypeOK, LockInv, ReadStaysCurrent, ValidatedInv, Holding, commit, Calls
<1>2. entryOf(c) \in LogEntry
  BY <1>1, ValidIsTyped DEF entryOf, LogEntry, Calls
<1>3. /\ log' = [log EXCEPT ![t] = Append(log[t], entryOf(c))]
      /\ log[t] \in Seq(LogEntry)
      /\ log'[t] = Append(log[t], entryOf(c))
      /\ \A u \in Txn \ {t} : log'[u] = log[u] /\ state'[u] = state[u]
      /\ state'[t] = call[c].to
  BY <1>1 DEF Inv, TypeOK, commit
<1>4. /\ Len(log'[t]) = Len(log[t]) + 1
      /\ log'[t][Len(log[t]) + 1] = entryOf(c)
      /\ \A i \in 1 .. Len(log[t]) : log'[t][i] = log[t][i]
      /\ log'[t] # <<>>
  <2>1. /\ Len(log[t]) \in Nat
        /\ Len(Append(log[t], entryOf(c))) = Len(log[t]) + 1
        /\ \A i \in 1 .. Len(log[t]) : Append(log[t], entryOf(c))[i] = log[t][i]
        /\ Append(log[t], entryOf(c))[Len(log[t]) + 1] = entryOf(c)
    BY <1>2, <1>3, AppendProperties
  <2>2. log'[t] # <<>>
    BY <1>3, <2>1
  <2> QED
    BY <1>3, <2>1, <2>2
<1>5. TypeOK'
  <2>1. log' \in [Txn -> Seq(LogEntry)]
    BY <1>2, <1>3 DEF Inv, TypeOK
  <2>2. state' \in [Txn -> TransactionState \cup {NoRow}]
    BY <1>1 DEF Inv, TypeOK, commit, Calls
  <2> QED
    BY <2>1, <2>2, FinishType DEF Inv, TypeOK, commit
<1>6. ASSUME NEW d \in Caller, stage'[d] # "idle"
      PROVE  d # c /\ stage'[d] = stage[d] /\ call'[d] = call[d] /\ fromState'[d] = fromState[d]
  BY <1>6 DEF Inv, TypeOK, commit, finish
<1>7. ASSUME NEW d \in Caller, stage'[d] \in Holding
      PROVE  /\ call[d].txn \in Txn \ {t}
             /\ rowLock[call[d].txn] = d
  BY <1>1, <1>6, <1>7 DEF Inv, TypeOK, LockInv, Holding, Calls
<1>8. LockInv'
  BY <1>3, <1>6, <1>7 DEF Inv, TypeOK, LockInv, Holding, commit, finish
<1>9. ReadStaysCurrent'
  BY <1>3, <1>6, <1>7 DEF Inv, ReadStaysCurrent, Holding
<1>10. ValidatedInv'
  BY <1>6 DEF Inv, ValidatedInv
<1>11. RowInv'
  <2>1. LastLogged(t)' = state'[t]
    BY <1>3, <1>4 DEF LastLogged, entryOf
  <2>2. state'[t] # NoRow
    BY <1>1, <1>3, StatesAreNotNoRow DEF Calls
  <2> QED
    BY <1>3, <2>1, <2>2 DEF Inv, RowInv, LastLogged
<1>12. LogIsAPath'
  <2>1. ASSUME NEW i \in 1 .. Len(log'[t])
        PROVE  /\ assertValidTransition(log'[t][i].from, log'[t][i].to)
               /\ log'[t][i].from = IF i = 1 THEN "CREATED" ELSE log'[t][i - 1].to
    <3>1. CASE i \in 1 .. Len(log[t])
      BY <1>1, <1>3, <1>4, <3>1 DEF Inv, LogIsAPath
    <3>2. CASE i = Len(log[t]) + 1
      <4>1. log'[t][i].from = state[t] /\ log'[t][i].to = call[c].to
        BY <1>1, <1>4, <3>2 DEF entryOf
      <4>2. state[t] = IF i = 1 THEN "CREATED" ELSE log[t][i - 1].to
        BY <1>1, <1>3, <3>2 DEF Inv, RowInv, LastLogged
      <4>3. assertValidTransition(log'[t][i].from, log'[t][i].to)
        BY <1>1, <4>1
      <4>4. i # 1 => log'[t][i - 1] = log[t][i - 1]
        <5> SUFFICES ASSUME i # 1 PROVE log'[t][i - 1] = log[t][i - 1]
          OBVIOUS
        <5>1. i - 1 \in 1 .. Len(log[t])
          BY <1>4, <3>2
        <5> QED
          BY <1>4, <5>1
      <4> QED
        BY <4>1, <4>2, <4>3, <4>4, Zenon
    <3> QED
      BY <1>3, <1>4, <3>1, <3>2
  <2> QED
    BY <1>3, <2>1 DEF Inv, LogIsAPath
<1> QED
  BY <1>1, <1>5, <1>8, <1>9, <1>10, <1>11, <1>12 DEF Inv

LEMMA StepInv == Inv /\ [Next]_vars => Inv'
<1> SUFFICES ASSUME Inv, [Next]_vars PROVE Inv'
  OBVIOUS
<1>1. ASSUME NEW t \in Txn, create(t) PROVE Inv'
  BY <1>1, CreateInv
<1>2. ASSUME NEW c \in Caller, NEW t \in Txn, NEW to \in TransactionState,
             transition(c, t, to)
      PROVE  Inv'
  BY <1>2, CallInv
<1>3. ASSUME NEW c \in Caller, step(c) \/ rollback(c) PROVE Inv'
  <2>1. CASE rowMissing(c) \/ ignoreDuplicate(c) \/ reject(c) \/ rollback(c)
    BY <2>1, EndWithoutCommit DEF rowMissing, ignoreDuplicate, reject, rollback
  <2>2. CASE lockRow(c)
    BY <2>2, LockRowInv
  <2>3. CASE updateRow(c) \/ saveLogEntry(c)
    BY <2>3, UpdateRowInv
  <2>4. CASE commit(c)
    BY <2>4, CommitInv
  <2> QED
    BY <1>3, <2>1, <2>2, <2>3, <2>4 DEF step
<1>4. CASE UNCHANGED vars
  <2>1. TypeOK' /\ LockInv' /\ ReadStaysCurrent' /\ ValidatedInv'
    BY <1>4 DEF Inv, TypeOK, LockInv, ReadStaysCurrent, ValidatedInv, vars
  <2>2. RowInv' /\ LogIsAPath'
    BY <1>4 DEF Inv, RowInv, LogIsAPath, LastLogged, vars
  <2> QED
    BY <2>1, <2>2 DEF Inv
<1> QED
  BY <1>1, <1>2, <1>3, <1>4 DEF Next

THEOREM InvariantHolds == Spec => []Inv
BY InitInv, StepInv, PTL DEF Spec

(* Every variable keeps its type.                                          *)
THEOREM TypeCorrect == Spec => []TypeOK
<1>1. Inv => TypeOK
  BY DEF Inv
<1> QED
  BY <1>1, InvariantHolds, PTL

(* The row lock isolates transition(): what a caller validated against is  *)
(* still the committed state when it commits, for any number of callers.   *)
THEOREM ReadIsIsolated == Spec => []ReadStaysCurrent
<1>1. Inv => ReadStaysCurrent
  BY DEF Inv
<1> QED
  BY <1>1, InvariantHolds, PTL

(* The audit log of every row is an unbroken path of permitted edges.      *)
THEOREM AuditLogIsAPath == Spec => []LogIsAPath
<1>1. Inv => LogIsAPath
  BY DEF Inv
<1> QED
  BY <1>1, InvariantHolds, PTL

------------------------------------------------------------------------------
(* The row is where its log ends, whatever crashes or fails between the    *)
(* two writes: no state is written without its entry in the log, and no    *)
(* entry is left behind by a move that was undone.                         *)
THEOREM RowAgreesWithLog == Spec => []RowFollowsLog
<1>1. Inv => RowFollowsLog
  BY DEF Inv, RowInv, RowFollowsLog
<1> QED
  BY <1>1, InvariantHolds, PTL

------------------------------------------------------------------------------
(* The concurrent transition() implements the abstract lifecycle: a create *)
(* is a create, a COMMIT is a move, every other step is a stutter.         *)
THEOREM StateMachineRefinesLifecycle == Spec => ImplementsLifecycle
<1>1. Init => Lifecycle!Init
  BY DEF Init, Lifecycle!Init, Lifecycle!NoRow, NoRow
<1>2. Inv /\ [Next]_vars => [Lifecycle!Next]_state
  <2> SUFFICES ASSUME Inv, [Next]_vars PROVE [Lifecycle!Next]_state
    OBVIOUS
  <2>1. ASSUME NEW t \in Txn, create(t) PROVE Lifecycle!Next
    BY <2>1 DEF create, Lifecycle!Next, Lifecycle!create, Lifecycle!NoRow, NoRow
  <2>2. ASSUME NEW c \in Caller, commit(c) PROVE Lifecycle!Next
    <3>1. /\ call[c] \in Calls /\ state[call[c].txn] # NoRow
          /\ assertValidTransition(state[call[c].txn], call[c].to)
      BY <2>2, CommitInv DEF Inv, TypeOK, LockInv, Holding, commit
    <3>2. Lifecycle!move(call[c].txn, call[c].to)
      BY <2>2, <3>1 DEF commit, Lifecycle!move, Lifecycle!assertValidTransition,
         assertValidTransition, Lifecycle!VALID_TRANSITIONS, VALID_TRANSITIONS,
         Lifecycle!TERMINAL_STATES, TERMINAL_STATES, Lifecycle!NoRow, NoRow
    <3> QED
      BY <3>1, <3>2 DEF Calls, Lifecycle!Next, Lifecycle!TransactionState, TransactionState
  <2>3. (\E t \in Txn : create(t)) \/ (\E c \in Caller : commit(c)) \/ UNCHANGED state
    BY DEF Next, step, transition, rowMissing, lockRow, ignoreDuplicate, reject, updateRow,
           saveLogEntry, rollback, vars, rows
  <2> QED
    BY <2>1, <2>2, <2>3
<1> QED
  BY <1>1, <1>2, InvariantHolds, PTL DEF Spec, ImplementsLifecycle, Lifecycle!Spec

(* No edge leads out of the states of a captured payment. *)
LEMMA AfterCaptureIsClosed ==
  ASSUME NEW from \in Lifecycle!AfterCapture, NEW to, assertValidTransition(from, to)
  PROVE  to \in Lifecycle!AfterCapture
BY DEF assertValidTransition, VALID_TRANSITIONS, TERMINAL_STATES, Lifecycle!AfterCapture

(* No edge leads back from an authorised payment to one being routed. *)
LEMMA RoutingIsNotReentered ==
  ASSUME NEW from, NEW to \in Lifecycle!BeforeAuthorisation, assertValidTransition(from, to)
  PROVE  from \in Lifecycle!BeforeAuthorisation
BY DEF assertValidTransition, VALID_TRANSITIONS, Lifecycle!BeforeAuthorisation

(* What a step may do to a row: insert it in CREATED, or move it one edge. *)
LEMMA RowMovesAlongEdges ==
  ASSUME Inv, [Next]_vars, NEW t \in Txn
  PROVE  \/ state'[t] = state[t]
         \/ (state[t] = NoRow /\ state'[t] = "CREATED")
         \/ assertValidTransition(state[t], state'[t])
<1>1. ASSUME NEW u \in Txn, create(u)
      PROVE  state'[t] = state[t] \/ (state[t] = NoRow /\ state'[t] = "CREATED")
  BY <1>1 DEF create, Inv, TypeOK
<1>2. ASSUME NEW c \in Caller, commit(c)
      PROVE  state'[t] = state[t] \/ assertValidTransition(state[t], state'[t])
  <2>1. assertValidTransition(state[call[c].txn], call[c].to)
    BY <1>2, CommitInv DEF Inv, TypeOK, LockInv, Holding, commit
  <2> QED
    BY <1>2, <2>1 DEF commit, Inv, TypeOK
<1>3. (\E u \in Txn : create(u)) \/ (\E c \in Caller : commit(c)) \/ UNCHANGED state
  BY DEF Next, step, transition, rowMissing, lockRow, ignoreDuplicate, reject, updateRow,
         saveLogEntry, rollback, vars, rows
<1> QED
  BY <1>1, <1>2, <1>3

(* Whatever is done to a captured payment, it is never captured again,     *)
(* voided, expired or failed.                                              *)
LEMMA CapturedStaysCaptured == Spec => Lifecycle!CaptureIsFinal
<1> DEFINE Final == \A t \in Txn : state[t] \in Lifecycle!AfterCapture
                                     => state'[t] \in Lifecycle!AfterCapture
<1>1. Inv /\ [Next]_vars => [Final]_state
  <2> SUFFICES ASSUME Inv, [Next]_vars, NEW t \in Txn, state[t] \in Lifecycle!AfterCapture
               PROVE  state'[t] \in Lifecycle!AfterCapture
    OBVIOUS
  <2>1. state[t] # NoRow
    BY DEF Lifecycle!AfterCapture, NoRow
  <2> QED
    BY <2>1, RowMovesAlongEdges, AfterCaptureIsClosed
<1> QED
  BY <1>1, InvariantHolds, PTL DEF Spec, Lifecycle!CaptureIsFinal

(* An authorisation, once obtained, is never sought a second time.         *)
LEMMA AuthorisedAtMostOnce == Spec => Lifecycle!AuthorisedOnce
<1> DEFINE Once == \A t \in Txn : state'[t] \in Lifecycle!BeforeAuthorisation =>
                      state[t] \in Lifecycle!BeforeAuthorisation \cup {Lifecycle!NoRow}
<1>1. Inv /\ [Next]_vars => [Once]_state
  <2> SUFFICES ASSUME Inv, [Next]_vars, NEW t \in Txn,
                      state'[t] \in Lifecycle!BeforeAuthorisation
               PROVE  state[t] \in Lifecycle!BeforeAuthorisation \cup {Lifecycle!NoRow}
    OBVIOUS
  <2>1. NoRow = Lifecycle!NoRow
    BY DEF NoRow, Lifecycle!NoRow
  <2> QED
    BY <2>1, RowMovesAlongEdges, RoutingIsNotReentered
<1> QED
  BY <1>1, InvariantHolds, PTL DEF Spec, Lifecycle!AuthorisedOnce

(* A payment passes its two points of no return in one direction only, for  *)
(* any number of callers, requests and crashes.                             *)
THEOREM ThereIsNoWayBack == Spec => NoWayBack
BY CapturedStaysCaptured, AuthorisedAtMostOnce DEF NoWayBack, Lifecycle!NoWayBack

------------------------------------------------------------------------------
(***************************************************************************)
(* The converse of LockInv: a locked row has a caller that is inside its   *)
(* transaction on that very row.  A caller that ended, failed or died left *)
(* no lock behind it, and one that waits for a row holds none itself: so   *)
(* callers never wait for one another in a circle.                         *)
(***************************************************************************)
HolderInv ==
  \A t \in Txn : rowLock[t] # NoCaller =>
    stage[rowLock[t]] \in Holding /\ call[rowLock[t]].txn = t

(* What a step of caller c may do to the locks: give back its own, or take *)
(* that of the row it works on.                                            *)
LEMMA LockMoves ==
  ASSUME Inv, NEW c \in Caller, step(c) \/ rollback(c)
  PROVE  /\ \A d \in Caller \ {c} : stage'[d] = stage[d] /\ call'[d] = call[d]
         /\ \/ rowLock' = [t \in Txn |-> IF rowLock[t] = c THEN NoCaller ELSE rowLock[t]]
            \/ /\ rowLock' = [rowLock EXCEPT ![call[c].txn] = c]
               /\ stage'[c] = "locked" /\ call' = call
               /\ stage[c] = "waiting" /\ call[c].txn \in Txn
            \/ /\ rowLock' = rowLock /\ call' = call
               /\ stage[c] \in Holding /\ stage'[c] \in Holding
BY DEF Inv, TypeOK, step, rowMissing, lockRow, ignoreDuplicate, reject, updateRow,
       saveLogEntry, commit, rollback, finish, Calls, Stage, Holding

LEMMA StepHolder == Inv /\ HolderInv /\ [Next]_vars => HolderInv'
<1> SUFFICES ASSUME Inv, HolderInv, [Next]_vars, NEW t \in Txn, rowLock'[t] # NoCaller
             PROVE  stage'[rowLock'[t]] \in Holding /\ call'[rowLock'[t]].txn = t
  BY DEF HolderInv
<1>1. CASE UNCHANGED calls
  BY <1>1 DEF calls, HolderInv
<1>2. ASSUME NEW c \in Caller, NEW u \in Txn, NEW to \in TransactionState,
             transition(c, u, to)
      PROVE  stage'[rowLock'[t]] \in Holding /\ call'[rowLock'[t]].txn = t
  <2>1. PICK d \in Caller : rowLock[t] = d /\ rowLock' = rowLock
    BY <1>2 DEF transition, Inv, TypeOK
  <2>2. stage[d] \in Holding /\ call[d].txn = t /\ d # c
    BY <1>2, <2>1, StateMachineAssumption DEF HolderInv, transition, Holding
  <2> QED
    BY <1>2, <2>1, <2>2 DEF transition, Inv, TypeOK
<1>3. ASSUME NEW c \in Caller, step(c) \/ rollback(c)
      PROVE  stage'[rowLock'[t]] \in Holding /\ call'[rowLock'[t]].txn = t
  <2>1. CASE rowLock' = [u \in Txn |-> IF rowLock[u] = c THEN NoCaller ELSE rowLock[u]]
    <3>1. rowLock[t] # c /\ rowLock'[t] = rowLock[t] /\ rowLock[t] \in Caller
      BY <2>1 DEF Inv, TypeOK
    <3> QED
      BY <1>3, <3>1, LockMoves DEF HolderInv
  <2>2. CASE /\ rowLock' = [rowLock EXCEPT ![call[c].txn] = c]
             /\ stage'[c] = "locked" /\ call' = call /\ stage[c] = "waiting"
    <3>1. CASE t = call[c].txn
      BY <2>2, <3>1 DEF Inv, TypeOK, Holding
    <3>2. CASE t # call[c].txn
      <4>1. rowLock'[t] = rowLock[t] /\ rowLock[t] \in Caller /\ rowLock[t] # c
        BY <2>2, <3>2 DEF Inv, TypeOK, HolderInv, Holding
      <4> QED
        BY <1>3, <4>1, LockMoves DEF HolderInv
    <3> QED
      BY <3>1, <3>2
  <2>3. CASE rowLock' = rowLock /\ call' = call /\ stage'[c] \in Holding
    <3>1. rowLock[t] \in Caller /\ rowLock'[t] = rowLock[t]
      BY <2>3 DEF Inv, TypeOK
    <3> QED
      BY <1>3, <2>3, <3>1, LockMoves DEF HolderInv
  <2> QED
    BY <1>3, <2>1, <2>2, <2>3, LockMoves
<1>4. ASSUME NEW u \in Txn, create(u)
      PROVE  stage'[rowLock'[t]] \in Holding /\ call'[rowLock'[t]].txn = t
  BY <1>1, <1>4 DEF create
<1> QED
  BY <1>1, <1>2, <1>3, <1>4 DEF Next, vars, calls

(* No row stays locked without a caller at work on it. *)
THEOREM LocksHaveHolders == Spec => []HolderInv
<1>1. Init => HolderInv
  BY DEF Init, HolderInv
<1> QED
  BY <1>1, StepHolder, InvariantHolds, PTL DEF Spec
==============================================================================
