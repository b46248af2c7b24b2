------------------------ MODULE TransactionStateMachine ----------------------
(***************************************************************************)
(* TransactionStateMachineService.transition(), the only function that     *)
(* writes the state column.  Any number of callers (API requests, webhook  *)
(* workers, the reconciliation engine, the checkout poller) call it at     *)
(* once.  Each call is one database transaction:                           *)
(*                                                                         *)
(*    SELECT ... FOR UPDATE  ->  duplicate?  ->  permitted?                *)
(*        ->  UPDATE the row  ->  INSERT the log entry  ->  COMMIT         *)
(*                                                                         *)
(* and may be cut short at every one of these steps by an error or by the  *)
(* death of the process, which rolls it back.  Writes of an open           *)
(* transaction are invisible to the others until COMMIT applies them.      *)
(*                                                                         *)
(* The version and the gateway columns of the row are left out: the        *)
(* handlers write them with plain updates of their own as well, the        *)
(* version (a VersionColumn) is increased by each of these, and nothing    *)
(* reads it.  No plain update names the state column.                      *)
(***************************************************************************)
EXTENDS TransactionStates, Naturals, Sequences

CONSTANTS
  Txn,             \* transaction ids
  Caller,          \* concurrent callers of transition()
  NoCaller,        \* the owner of a row lock that is free
  NoTxn,           \* the transaction id of a caller that has no call open
  MaxTransitions   \* bound: no call begins on a row with this many log entries

ASSUME StateMachineAssumption ==
  /\ NoCaller \notin Caller
  /\ NoTxn \notin Txn
  /\ MaxTransitions \in Nat

VARIABLES
  state,             \* the committed state column of the transactions table
  log,               \* the committed transaction_state_log of each row
  rowLock,           \* who holds the row lock
  stage,             \* how far the call of a caller has got
  call,              \* the arguments of that call
  fromState          \* the state the caller read under the lock

vars == <<state, log, rowLock, stage, call, fromState>>

rows  == <<state, log>>
calls == <<rowLock, stage, call, fromState>>

Stage == {"idle", "waiting", "locked", "updated", "logged"}

Calls == [txn : Txn, to : TransactionState]

NoCall == [txn |-> NoTxn, to |-> NoRow]

LogEntry == [from : TransactionState, to : TransactionState]

(* The stages in which a caller is inside its transaction, row lock held. *)
Holding == {"locked", "updated", "logged"}

Init ==
  /\ state = [t \in Txn |-> NoRow]
  /\ log = [t \in Txn |-> <<>>]
  /\ rowLock = [t \in Txn |-> NoCaller]
  /\ stage = [c \in Caller |-> "idle"]
  /\ call = [c \in Caller |-> NoCall]
  /\ fromState = [c \in Caller |-> NoRow]

(* A payment request inserts a row. *)
create(t) ==
  /\ state[t] = NoRow
  /\ state' = [state EXCEPT ![t] = "CREATED"]
  /\ UNCHANGED <<log, calls>>

transition(c, t, to) ==
  /\ stage[c] = "idle"
  /\ Len(log[t]) < MaxTransitions
  /\ stage' = [stage EXCEPT ![c] = "waiting"]
  /\ call' = [call EXCEPT ![c] = [txn |-> t, to |-> to]]
  /\ UNCHANGED <<rows, rowLock, fromState>>

\* Faulty variant: the lock is left behind.
finishKeepingLock(c) ==
  /\ stage' = [stage EXCEPT ![c] = "idle"]
  /\ call' = [call EXCEPT ![c] = NoCall]
  /\ fromState' = [fromState EXCEPT ![c] = NoRow]
  /\ UNCHANGED rowLock

(* Leaving the transaction, with or without a commit, releases the lock. *)
finish(c) ==
  /\ stage' = [stage EXCEPT ![c] = "idle"]
  /\ rowLock' = [t \in Txn |-> IF rowLock[t] = c THEN NoCaller ELSE rowLock[t]]
  /\ call' = [call EXCEPT ![c] = NoCall]
  /\ fromState' = [fromState EXCEPT ![c] = NoRow]

(* getOne() finds no row: "Transaction not found". *)
rowMissing(c) ==
  /\ stage[c] = "waiting"
  /\ state[call[c].txn] = NoRow
  /\ finish(c)
  /\ UNCHANGED rows

\* Faulty variant: a plain SELECT, which waits for nobody.
canReadUnlocked(c) == state[call[c].txn] # NoRow

\* Faulty variant: a missing row is not noticed.
canLockNothing(c) == rowLock[call[c].txn] = NoCaller

canLock(c) ==
  /\ state[call[c].txn] # NoRow
  /\ rowLock[call[c].txn] = NoCaller

(* SELECT ... FOR UPDATE blocks while another transaction has the row, and *)
(* then reads the newest committed row.                                    *)
lockRow(c) ==
  /\ stage[c] = "waiting"
  /\ canLock(c)
  /\ stage' = [stage EXCEPT ![c] = "locked"]
  /\ rowLock' = [rowLock EXCEPT ![call[c].txn] = c]
  /\ fromState' = [fromState EXCEPT ![c] = state[call[c].txn]]
  /\ UNCHANGED <<rows, call>>

(* The row is in toState already: return it, write nothing. *)
ignoreDuplicate(c) ==
  /\ stage[c] = "locked"
  /\ fromState[c] = call[c].to
  /\ finish(c)
  /\ UNCHANGED rows

(* InvalidStateTransitionException rolls the transaction back. *)
reject(c) ==
  /\ stage[c] = "locked"
  /\ fromState[c] # call[c].to
  /\ ~ assertValidTransition(fromState[c], call[c].to)
  /\ finish(c)
  /\ UNCHANGED rows

\* Faulty variant: the UPDATE commits by itself, no transaction around it.
updateRowAtOnce(c) ==
  /\ stage[c] = "locked"
  /\ fromState[c] # call[c].to
  /\ assertValidTransition(fromState[c], call[c].to)
  /\ stage' = [stage EXCEPT ![c] = "updated"]
  /\ state' = [state EXCEPT ![call[c].txn] = call[c].to]
  /\ UNCHANGED <<log, rowLock, call, fromState>>

updateRow(c) ==
  /\ stage[c] = "locked"
  /\ fromState[c] # call[c].to
  /\ assertValidTransition(fromState[c], call[c].to)
  /\ stage' = [stage EXCEPT ![c] = "updated"]
  /\ UNCHANGED <<rows, rowLock, call, fromState>>

saveLogEntry(c) ==
  /\ stage[c] = "updated"
  /\ stage' = [stage EXCEPT ![c] = "logged"]
  /\ UNCHANGED <<rows, rowLock, call, fromState>>

(* The entry that is saved; its from-state is the one read under the lock. *)
entryOf(c) == [from |-> fromState[c], to |-> call[c].to]

commit(c) ==
  LET t == call[c].txn IN
  /\ stage[c] = "logged"
  /\ state' = [state EXCEPT ![t] = call[c].to]
  /\ log' = [log EXCEPT ![t] = Append(@, entryOf(c))]
  /\ finish(c)

(* A lost connection, a failing statement or the death of the process. *)
rollback(c) ==
  /\ stage[c] # "idle"
  /\ finish(c)
  /\ UNCHANGED rows

step(c) ==
  \/ rowMissing(c)
  \/ lockRow(c)
  \/ ignoreDuplicate(c)
  \/ reject(c)
  \/ updateRow(c)
  \/ saveLogEntry(c)
  \/ commit(c)

Next ==
  \/ \E t \in Txn : create(t)
  \/ \E c \in Caller, t \in Txn, to \in TransactionState : transition(c, t, to)
  \/ \E c \in Caller : step(c) \/ rollback(c)

Spec == Init /\ [][Next]_vars

(***************************************************************************)
(* PostgreSQL runs an open transaction to its end and serves the waiters   *)
(* for a row lock in turn, so that a caller is not passed over for ever.   *)
(***************************************************************************)
FairSpec ==
  /\ Spec
  /\ \A c \in Caller :
       /\ WF_vars(rowMissing(c) \/ ignoreDuplicate(c) \/ reject(c))
       /\ WF_vars(updateRow(c) \/ saveLogEntry(c) \/ commit(c))
       /\ SF_vars(lockRow(c))
------------------------------------------------------------------------------
TypeOK ==
  /\ state \in [Txn -> TransactionState \cup {NoRow}]
  /\ log \in [Txn -> Seq(LogEntry)]
  /\ rowLock \in [Txn -> Caller \cup {NoCaller}]
  /\ stage \in [Caller -> Stage]
  /\ call \in [Caller -> Calls \cup {NoCall}]
  /\ fromState \in [Caller -> TransactionState \cup {NoRow}]
  /\ \A c \in Caller : stage[c] # "idle" => call[c] \in Calls
  /\ \A c \in Caller : stage[c] \in Holding => fromState[c] \in TransactionState

(***************************************************************************)
(* The state a caller validates against is still the committed state when  *)
(* it writes: nobody moves the row between the read and the COMMIT.  This  *)
(* is what the pessimistic lock of step 1 is for (FS-09).                  *)
(***************************************************************************)
ReadStaysCurrent ==
  \A c \in Caller : stage[c] \in Holding => fromState[c] = state[call[c].txn]

(***************************************************************************)
(* The audit log of a row is one unbroken path through the map that starts *)
(* in CREATED: every entry is a permitted edge and begins where the entry  *)
(* before it ended, however the calls interleave and wherever they crash.  *)
(***************************************************************************)
LogIsAPath ==
  \A t \in Txn : \A i \in 1 .. Len(log[t]) :
    /\ assertValidTransition(log[t][i].from, log[t][i].to)
    /\ log[t][i].from = IF i = 1 THEN "CREATED" ELSE log[t][i - 1].to

LastLogged(t) == IF log[t] = <<>> THEN "CREATED" ELSE log[t][Len(log[t])].to

(***************************************************************************)
(* The row is where its log ends: no UPDATE without its log entry and no   *)
(* entry without its UPDATE, although they are two statements with a crash *)
(* or an error possible between them and other callers before and after.   *)
(***************************************************************************)
RowFollowsLog ==
  \A t \in Txn : state[t] = IF state[t] = NoRow /\ log[t] = <<>> THEN NoRow ELSE LastLogged(t)

(***************************************************************************)
(* The concurrent, crashing callers of transition() implement the abstract *)
(* lifecycle: outside observers see rows appear in CREATED and move along  *)
(* the map, one edge at a time.                                            *)
(***************************************************************************)
Lifecycle == INSTANCE TransactionLifecycle

ImplementsLifecycle == Lifecycle!Spec

(***************************************************************************)
(* Two points of no return, whatever callers compete and whatever they ask *)
(* for.  A captured payment is never captured again, voided, expired or    *)
(* failed: it stays among the states that settle, refund or dispute it.    *)
(* And an authorised payment never goes back to being routed: failover     *)
(* from gateway to gateway happens only before it.  Both are facts about   *)
(* every path of the map, not about one edge of VALID_TRANSITIONS.         *)
(***************************************************************************)
NoWayBack == Lifecycle!NoWayBack

(***************************************************************************)
(* A call that waits for a row lock gets its answer: a caller that dies or *)
(* fails inside its transaction never leaves the row locked behind it.     *)
(***************************************************************************)
EveryCallReturns ==
  \A c \in Caller : stage[c] = "waiting" ~> stage[c] = "idle"
==============================================================================
