------------------------- MODULE PooledTransaction -------------------------
(* SharedConnection over a bb8 pool (crates/sql-orm/src/context.rs): lock()  *)
(* and run_pooled_transaction().  A transaction checks one connection out of *)
(* the pool and pins it in the runtime slot, where lock() finds it; every    *)
(* other operation checks out a connection of its own.                       *)
(*                                                                           *)
(* The slot is an Option behind a tokio mutex, FIFO: the head of `queue`     *)
(* holds it.  Its guard is kept while a statement runs on the pinned         *)
(* connection.  Drivers and Callers are the tasks of DirectTransaction.      *)
EXTENDS SqlSession, Sequences, FiniteSets

CONSTANTS
    Drivers,        \* tasks calling run_transaction
    Callers,        \* tasks running operations on the outer handle
    Connections,    \* the pool, max_size of them
    None,           \* an empty Option
    Faults,         \* what may go wrong with each task's calls, of FaultKinds
    MaxCalls,       \* calls per task
    MaxStatements   \* statements a driver's closure issues per call

FaultKinds ==
    {"acquire", "begin", "statement", "abort", "commit", "unanswered", "cancel", "cancel_begin"}

ASSUME DisjointTasks == Drivers \cap Callers = {}
ASSUME FiniteDrivers == IsFiniteSet(Drivers)
ASSUME NoneAssumption == None \notin Connections
ASSUME FaultsAssumption == Faults \in [Drivers \cup Callers -> SUBSET FaultKinds]
ASSUME BoundsAssumption == MaxCalls \in Nat /\ MaxStatements \in [Drivers -> Nat]

VARIABLES
    depth, activeScope, nextScope,  \* the runtime atomics
    slot,           \* runtime.pinned_pool_connection
    queue,          \* its mutex: holder first, then waiters in order
    free,           \* connections in the pool
    own,            \* connection a task has checked out for itself
    sessions,       \* per connection: server session and retry option
    durable,        \* statements the database has committed
    pc,             \* where each task is
    gate,           \* progress of the task's lock(): out, checked, queued, pool
    scope,          \* transaction_scope of the driver's transaction handle
    savedRetry,     \* retry_options local of run_pooled_transaction
    ran,            \* statements of the driver's call the server has executed
    outcome,        \* how the driver's last call ended
    calls,          \* calls the task has started
    issued          \* statements the task has attempted in this call

runtime  == <<depth, activeScope, nextScope>>
pool     == <<free, own>>
server   == <<sessions, durable>>
locals   == <<scope, savedRetry, ran, outcome>>
counters == <<calls, issued>>
vars     == <<runtime, slot, queue, pool, server, pc, gate, locals, counters>>

Tasks == Drivers \cup Callers

(* Between enter_transaction_scope and exit_transaction_scope.               *)
Entered == {"body", "statement", "commit", "rollback", "restore", "exit"}
(* Between install_pinned_pool_connection and clear_pinned_pool_connection.  *)
Pinned  == {"begin", "disable", "store", "bump", "leave", "unpin"} \cup Entered
(* Places that call SharedConnection::lock().                                *)
Locking == {"begin", "statement", "commit", "rollback", "operation"}
(* Places that lock the slot's mutex directly, without a scope check.        *)
Slotting == {"install", "disable", "restore", "unpin"}
Places  == {"idle", "acquire"} \cup Pinned \cup Locking \cup Slotting

Init ==
    /\ depth = 0 /\ activeScope = 0 /\ nextScope = 0
    /\ slot = None /\ queue = <<>>
    /\ free = Connections
    /\ own = [t \in Tasks |-> None]
    /\ sessions = [c \in Connections |-> FreshSession] /\ durable = {}
    /\ pc = [t \in Tasks |-> "idle"]
    /\ gate = [t \in Tasks |-> "out"]
    /\ scope = [d \in Drivers |-> 0]
    /\ savedRetry = [d \in Drivers |-> TRUE]
    /\ ran = [d \in Drivers |-> {}]
    /\ outcome = [d \in Drivers |-> "none"]
    /\ calls = [t \in Tasks |-> 0]
    /\ issued = [t \in Tasks |-> 0]

-----------------------------------------------------------------------------
(* The slot's mutex and lock() *)

HandleScope(t) == IF t \in Drivers THEN scope[t] ELSE 0
TransactionScopeAllowsLock(t) == activeScope \in {0, HandleScope(t)}

(* ensure_can_use_active_transaction_scope.  The transaction's own handle is *)
(* never refused (TransactionHandleAdmitted), so only outer operations have  *)
(* an action for the refusal.                                                *)
CheckScope(t) ==
    /\ pc[t] \in Locking /\ gate[t] = "out"
    /\ TransactionScopeAllowsLock(t)
    /\ gate' = [gate EXCEPT ![t] = "checked"]
    /\ UNCHANGED <<runtime, slot, queue, pool, server, pc, locals, counters>>

Enqueue(t) ==
    /\ gate[t] = "checked" \/ (gate[t] = "out" /\ pc[t] \in Slotting)
    /\ gate' = [gate EXCEPT ![t] = "queued"]
    /\ queue' = Append(queue, t)
    /\ UNCHANGED <<runtime, slot, pool, server, pc, locals, counters>>

Holds(t) == gate[t] = "queued" /\ queue # <<>> /\ Head(queue) = t

Release(t, next) ==
    /\ queue' = Tail(queue)
    /\ gate' = [gate EXCEPT ![t] = next]

Goto(t, place) == pc' = [pc EXCEPT ![t] = place]

(* A connection is dropped: bb8 takes it back as it is, has_broken being     *)
(* constantly false.                                                         *)
GiveBack(t) ==
    /\ free' = free \cup ({own[t]} \ {None})
    /\ own' = [own EXCEPT ![t] = None]

(* How a call ends, as in DirectTransaction.                                 *)
Outcomes == {"none", "ok", "err", "unanswered", "unknown", "cancelled"}

Return(d, result) ==
    /\ Goto(d, "idle")
    /\ outcome' = [outcome EXCEPT ![d] = result]

OnPinned(s) == sessions' = [sessions EXCEPT ![slot] = s]

-----------------------------------------------------------------------------
(* run_pooled_transaction, up to the closure *)

StartTransaction(d) ==
    /\ pc[d] = "idle" /\ calls[d] < MaxCalls
    /\ calls' = [calls EXCEPT ![d] = @ + 1]
    /\ issued' = [issued EXCEPT ![d] = 0]
    /\ ran' = [ran EXCEPT ![d] = {}]
    /\ \/ /\ depth > 0
          /\ outcome' = [outcome EXCEPT ![d] = "err"]
          /\ UNCHANGED <<nextScope, scope, pc>>
       \/ /\ depth = 0
          /\ nextScope' = nextScope + 1
          /\ scope' = [scope EXCEPT ![d] = nextScope + 1]
          /\ outcome' = [outcome EXCEPT ![d] = "none"]
          /\ Goto(d, "acquire")
    /\ UNCHANGED <<depth, activeScope, slot, queue, pool, server, gate, savedRetry>>

CheckOut(t) ==
    \E c \in free :
        /\ free' = free \ {c}
        /\ own' = [own EXCEPT ![t] = c]

AcquireOwned(d) ==
    /\ pc[d] = "acquire"
    /\ CheckOut(d)
    /\ Goto(d, "install")
    /\ UNCHANGED <<runtime, slot, queue, server, gate, locals, counters>>

(* The pool's acquire_timeout passes.                                        *)
AcquireFails(d) ==
    /\ "acquire" \in Faults[d]
    /\ pc[d] = "acquire"
    /\ Return(d, "err")
    /\ UNCHANGED <<runtime, slot, queue, pool, server, gate, scope, savedRetry, ran, counters>>

(* Mutant: a pinned connection is replaced.                                  *)
InstallOverwrites(d) ==
    /\ pc[d] = "install" /\ Holds(d)
    /\ slot' = own[d]
    /\ own' = [own EXCEPT ![d] = None]
    /\ Release(d, "out")
    /\ Goto(d, "begin")
    /\ UNCHANGED <<runtime, free, server, locals, counters>>

(* install_pinned_pool_connection: a slot in use refuses the transaction.    *)
Install(d) ==
    /\ pc[d] = "install" /\ Holds(d) /\ slot = None
    /\ slot' = own[d]
    /\ own' = [own EXCEPT ![d] = None]
    /\ Release(d, "out")
    /\ Goto(d, "begin")
    /\ UNCHANGED <<runtime, free, server, locals, counters>>

(* Mutant: the refused call runs the cleanup of a failed BEGIN.              *)
RefusedCleansUp(d) ==
    /\ pc[d] = "install" /\ Holds(d) /\ slot # None
    /\ GiveBack(d)
    /\ slot' = None
    /\ Release(d, "out")
    /\ Return(d, "err")
    /\ UNCHANGED <<runtime, server, scope, savedRetry, ran, counters>>

InstallRefused(d) ==
    /\ pc[d] = "install" /\ Holds(d) /\ slot # None
    /\ GiveBack(d)
    /\ Release(d, "out")
    /\ Return(d, "err")
    /\ UNCHANGED <<runtime, slot, server, scope, savedRetry, ran, counters>>

Begin(d) ==
    /\ pc[d] = "begin" /\ Holds(d)
    /\ OnPinned(BeginTran(sessions[slot]))
    /\ Release(d, "out")
    /\ Goto(d, "disable")
    /\ UNCHANGED <<runtime, slot, pool, durable, locals, counters>>

(* BEGIN is refused: only the slot is cleaned up (BeginError).               *)
BeginFails(d) ==
    /\ "begin" \in Faults[d]
    /\ pc[d] = "begin" /\ Holds(d)
    /\ outcome' = [outcome EXCEPT ![d] = "err"]
    /\ Release(d, "out")
    /\ Goto(d, "unpin")
    /\ UNCHANGED <<runtime, slot, pool, server, scope, savedRetry, ran, counters>>

(* BEGIN runs into query_timeout or its answer is lost: the cleanup is the   *)
(* same, and the connection goes back to the pool with what BEGIN opened.    *)
BeginUnanswered(d) ==
    /\ "unanswered" \in Faults[d]
    /\ pc[d] = "begin" /\ Holds(d)
    /\ \E s \in {sessions[slot], BeginTran(sessions[slot])} : OnPinned(Unsure(s))
    /\ outcome' = [outcome EXCEPT ![d] = "unanswered"]
    /\ Release(d, "out")
    /\ Goto(d, "unpin")
    /\ UNCHANGED <<runtime, slot, pool, durable, scope, savedRetry, ran, counters>>

(* disable_pinned_pool_retry *)
DisableRetry(d) ==
    /\ pc[d] = "disable" /\ Holds(d)
    /\ savedRetry' = [savedRetry EXCEPT ![d] = sessions[slot].retry]
    /\ OnPinned(WithRetry(sessions[slot], FALSE))
    /\ Release(d, "out")
    /\ Goto(d, "store")
    /\ UNCHANGED <<runtime, slot, pool, durable, scope, ran, outcome, counters>>

StoreScope(d) ==
    /\ pc[d] = "store"
    /\ activeScope' = scope[d]
    /\ Goto(d, "bump")
    /\ UNCHANGED <<depth, nextScope, slot, queue, pool, server, gate, locals, counters>>

BumpDepth(d) ==
    /\ pc[d] = "bump"
    /\ depth' = depth + 1
    /\ Goto(d, "body")
    /\ UNCHANGED <<activeScope, nextScope, slot, queue, pool, server, gate, locals, counters>>

-----------------------------------------------------------------------------
(* The closure *)

IssueStatement(d) ==
    /\ pc[d] = "body" /\ issued[d] < MaxStatements[d]
    /\ issued' = [issued EXCEPT ![d] = @ + 1]
    /\ Goto(d, "statement")
    /\ UNCHANGED <<runtime, slot, queue, pool, server, gate, locals, calls>>

Statement(t) == <<t, calls[t], issued[t]>>

(* A statement of a task runs on a connection.                               *)
Execute(t, c) ==
    /\ sessions' = [sessions EXCEPT ![c] = JoinTran(@, Statement(t))]
    /\ durable' = durable \cup AutoCommitted(sessions[c], Statement(t))

(* The server executes the driver's statement.                               *)
Run(d) ==
    /\ Execute(d, slot)
    /\ ran' = [ran EXCEPT ![d] = @ \cup {Statement(d)}]

ExecuteStatement(d) ==
    /\ pc[d] = "statement" /\ Holds(d)
    /\ Run(d)
    /\ Release(d, "out")
    /\ Goto(d, "body")
    /\ UNCHANGED <<runtime, slot, pool, scope, savedRetry, outcome, counters>>

(* The statement fails alone, or is executed and not answered.               *)
StatementFails(d) ==
    /\ "statement" \in Faults[d]
    /\ pc[d] = "statement" /\ Holds(d)
    /\ \/ UNCHANGED <<server, ran>>
       \/ "unanswered" \in Faults[d] /\ Run(d)
    /\ Release(d, "out")
    /\ Goto(d, "body")
    /\ UNCHANGED <<runtime, slot, pool, scope, savedRetry, outcome, counters>>

StatementAborts(d) ==
    /\ "abort" \in Faults[d]
    /\ pc[d] = "statement" /\ Holds(d)
    /\ OnPinned(RollbackTran(sessions[slot]))
    /\ Release(d, "out")
    /\ Goto(d, "rollback")
    /\ UNCHANGED <<runtime, slot, pool, durable, locals, counters>>

ClosureReturns(d) ==
    /\ pc[d] = "body"
    /\ \E arm \in {"commit", "rollback"} : Goto(d, arm)
    /\ UNCHANGED <<runtime, slot, queue, pool, server, gate, locals, counters>>

-----------------------------------------------------------------------------
(* run_pooled_transaction, after the closure *)

(* The guard of COMMIT or ROLLBACK is dropped before the cleanup starts.     *)
Finished(d, result) ==
    /\ outcome' = [outcome EXCEPT ![d] = result]
    /\ Release(d, "out")
    /\ Goto(d, "restore")
    /\ UNCHANGED <<runtime, slot, pool, scope, savedRetry, ran, counters>>

(* COMMIT TRANSACTION, always inside a transaction (the session is pinned).  *)
Commit(d) ==
    /\ pc[d] = "commit" /\ Holds(d) /\ InTransaction(sessions[slot])
    /\ OnPinned(CommitTran(sessions[slot]))
    /\ durable' = durable \cup MadeDurable(sessions[slot])
    /\ Finished(d, "ok")

(* Mutant: commit_result is never looked at.                                 *)
CommitResultIgnored(d) ==
    /\ "commit" \in Faults[d]
    /\ pc[d] = "commit" /\ Holds(d)
    /\ OnPinned(RollbackTran(sessions[slot]))
    /\ UNCHANGED durable
    /\ Finished(d, "ok")

(* COMMIT refused by the server, which rolls the transaction back.           *)
CommitFails(d) ==
    /\ "commit" \in Faults[d]
    /\ pc[d] = "commit" /\ Holds(d)
    /\ OnPinned(RollbackTran(sessions[slot]))
    /\ UNCHANGED durable
    /\ Finished(d, "err")

(* COMMIT runs into query_timeout or its answer is lost: the transaction is  *)
(* still open, or rolled back, or committed all the same.                    *)
CommitUnanswered(d) ==
    /\ "unanswered" \in Faults[d]
    /\ pc[d] = "commit" /\ Holds(d)
    /\ \/ /\ \E s \in {sessions[slot], RollbackTran(sessions[slot])} : OnPinned(Unsure(s))
          /\ UNCHANGED durable
       \/ /\ OnPinned(Unsure(CommitTran(sessions[slot])))
          /\ durable' = durable \cup MadeDurable(sessions[slot])
    /\ Finished(d, "unknown")

(* Mutant: ROLLBACK is taken for the inverse of one BEGIN.                   *)
RollbackOneLevel(d) ==
    /\ pc[d] = "rollback" /\ Holds(d)
    /\ OnPinned([sessions[slot] EXCEPT !.count = @ - 1, !.pending = {}])
    /\ UNCHANGED durable
    /\ Finished(d, "err")

Rollback(d) ==
    /\ pc[d] = "rollback" /\ Holds(d)
    /\ OnPinned(RollbackTran(sessions[slot]))
    /\ UNCHANGED durable
    /\ Finished(d, "err")

(* ROLLBACK fails without the server saying what became of the transaction:  *)
(* the cleanup returns the connection all the same.                          *)
RollbackUnanswered(d) ==
    /\ "unanswered" \in Faults[d]
    /\ pc[d] = "rollback" /\ Holds(d)
    /\ \E s \in {sessions[slot], RollbackTran(sessions[slot])} : OnPinned(Unsure(s))
    /\ UNCHANGED durable
    /\ Finished(d, "unanswered")

(* Mutant: the plan of a failed BEGIN is used, without restore_retry.        *)
RestoreSkipped(d) ==
    /\ pc[d] = "restore" /\ Holds(d)
    /\ Release(d, "out")
    /\ Goto(d, "exit")
    /\ UNCHANGED <<runtime, slot, pool, server, locals, counters>>

(* cleanup_pinned_pool_transaction, after a COMMIT or ROLLBACK attempt: the  *)
(* retry options, the depth and the scope, and then the slot.                *)
RestoreRetry(d) ==
    /\ pc[d] = "restore" /\ Holds(d)
    /\ OnPinned(WithRetry(sessions[slot], savedRetry[d]))
    /\ Release(d, "out")
    /\ Goto(d, "exit")
    /\ UNCHANGED <<runtime, slot, pool, durable, locals, counters>>

ExitDepth(d) ==
    /\ pc[d] = "exit"
    /\ depth' = IF depth = 0 THEN 0 ELSE depth - 1
    /\ Goto(d, "leave")
    /\ UNCHANGED <<activeScope, nextScope, slot, queue, pool, server, gate, locals, counters>>

ClearScope(d) ==
    /\ pc[d] = "leave"
    /\ activeScope' = 0
    /\ Goto(d, "unpin")
    /\ UNCHANGED <<depth, nextScope, slot, queue, pool, server, gate, locals, counters>>

(* clear_pinned_pool_connection: the pinned connection goes back.            *)
Unpin(d) ==
    /\ pc[d] = "unpin" /\ Holds(d)
    /\ free' = free \cup {slot}
    /\ slot' = None
    /\ Release(d, "out")
    /\ Goto(d, "idle")
    /\ UNCHANGED <<runtime, own, server, locals, counters>>

(* A dropped future gives up its guard or its place in the queue.            *)
LeaveQueue(d) ==
    /\ gate' = [gate EXCEPT ![d] = "out"]
    /\ IF gate[d] = "queued"
       THEN \E i \in 1..Len(queue) :
                /\ queue[i] = d
                /\ queue' = SubSeq(queue, 1, i - 1) \o SubSeq(queue, i + 1, Len(queue))
       ELSE UNCHANGED queue

(* The caller drops the future of run_transaction while it awaits.  The      *)
(* batch of a task that holds the guard may have reached the server; a       *)
(* connection not yet pinned goes back, a pinned one stays in the slot.      *)
InFlight(d) ==
    CASE pc[d] = "begin"     -> BeginTran(sessions[slot])
      [] pc[d] = "statement" -> JoinTran(sessions[slot], Statement(d))
      [] pc[d] = "commit"    -> CommitTran(sessions[slot])
      [] pc[d] = "rollback"  -> RollbackTran(sessions[slot])

Cancel(d) ==
    /\ \/ "cancel" \in Faults[d]
          /\ pc[d] \in {"body", "statement", "commit", "rollback", "restore", "unpin"}
       \/ "cancel_begin" \in Faults[d]
          /\ pc[d] \in {"acquire", "install", "begin", "disable"}
    /\ gate[d] # "checked"
    /\ \/ UNCHANGED server
       \/ /\ pc[d] \in {"begin", "statement", "commit", "rollback"} /\ Holds(d)
          /\ OnPinned(Unsure(InFlight(d)))
          /\ durable' = durable \cup
                IF pc[d] = "commit" THEN MadeDurable(sessions[slot]) ELSE {}
    /\ LeaveQueue(d)
    /\ GiveBack(d)
    /\ Return(d, "cancelled")
    /\ UNCHANGED <<runtime, slot, scope, savedRetry, ran, counters>>

-----------------------------------------------------------------------------
(* Operations on the outer handle *)

StartOperation(c) ==
    /\ pc[c] = "idle" /\ calls[c] < MaxCalls
    /\ calls' = [calls EXCEPT ![c] = @ + 1]
    /\ Goto(c, "operation")
    /\ UNCHANGED <<runtime, slot, queue, pool, server, gate, locals, issued>>

OperationRejected(c) ==
    /\ pc[c] = "operation" /\ gate[c] = "out" /\ ~TransactionScopeAllowsLock(c)
    /\ Goto(c, "idle")
    /\ UNCHANGED <<runtime, slot, queue, pool, server, gate, locals, counters>>

(* The slot is occupied: the operation runs on the pinned connection.        *)
OperationOnPinned(c) ==
    /\ pc[c] = "operation" /\ Holds(c) /\ slot # None
    /\ Execute(c, slot)
    /\ Release(c, "out")
    /\ Goto(c, "idle")
    /\ UNCHANGED <<runtime, slot, pool, locals, counters>>

(* Mutant: the slot's guard is not dropped before the pool is asked.         *)
OperationKeepsSlot(c) ==
    /\ pc[c] = "operation" /\ Holds(c) /\ slot = None
    /\ gate' = [gate EXCEPT ![c] = "pool"]
    /\ UNCHANGED <<runtime, slot, queue, pool, server, pc, locals, counters>>

(* The slot is empty: its guard is dropped and the pool is asked.            *)
OperationToPool(c) ==
    /\ pc[c] = "operation" /\ Holds(c) /\ slot = None
    /\ Release(c, "pool")
    /\ UNCHANGED <<runtime, slot, pool, server, pc, locals, counters>>

OperationAcquires(c) ==
    /\ gate[c] = "pool" /\ own[c] = None
    /\ CheckOut(c)
    /\ UNCHANGED <<runtime, slot, queue, server, pc, gate, locals, counters>>

OperationAcquireFails(c) ==
    /\ "acquire" \in Faults[c]
    /\ gate[c] = "pool" /\ own[c] = None
    /\ gate' = [gate EXCEPT ![c] = "out"]
    /\ Goto(c, "idle")
    /\ UNCHANGED <<runtime, slot, queue, pool, server, locals, counters>>

OperationOnOwn(c) ==
    /\ gate[c] = "pool" /\ own[c] # None
    /\ Execute(c, own[c])
    /\ GiveBack(c)
    /\ gate' = [gate EXCEPT ![c] = "out"]
    /\ Goto(c, "idle")
    /\ UNCHANGED <<runtime, slot, queue, locals, counters>>

-----------------------------------------------------------------------------
Lock(t) == CheckScope(t) \/ Enqueue(t)

Opening(d) ==
    \/ StartTransaction(d) \/ AcquireOwned(d) \/ AcquireFails(d)
    \/ Install(d) \/ InstallRefused(d) \/ Begin(d) \/ BeginFails(d)
    \/ BeginUnanswered(d) \/ DisableRetry(d) \/ StoreScope(d) \/ BumpDepth(d)

Closure(d) ==
    \/ IssueStatement(d) \/ ExecuteStatement(d) \/ StatementFails(d)
    \/ StatementAborts(d) \/ ClosureReturns(d)

Closing(d) ==
    \/ Commit(d) \/ CommitFails(d) \/ CommitUnanswered(d)
    \/ Rollback(d) \/ RollbackUnanswered(d) \/ RestoreRetry(d)
    \/ ExitDepth(d) \/ ClearScope(d) \/ Unpin(d)

Operation(c) ==
    \/ StartOperation(c) \/ OperationRejected(c) \/ OperationOnPinned(c)
    \/ OperationToPool(c) \/ OperationAcquires(c) \/ OperationAcquireFails(c)
    \/ OperationOnOwn(c)

Next ==
    \/ \E t \in Tasks : Lock(t)
    \/ \E d \in Drivers : Opening(d) \/ Closure(d) \/ Closing(d) \/ Cancel(d)
    \/ \E c \in Callers : Operation(c)

Spec == Init /\ [][Next]_vars

(* The executor polls every ready task and the server answers every batch.   *)
(* bb8 serves the waiting requests in order; since the calls are bounded,    *)
(* connections stop being taken and weak fairness is enough.                 *)
Progress(t) ==
    \/ Lock(t)
    \/ pc[t] # "idle" /\ t \in Drivers /\ (Opening(t) \/ Closure(t) \/ Closing(t))
    \/ pc[t] # "idle" /\ t \in Callers /\ Operation(t)

FairSpec == Spec /\ \A t \in Tasks : WF_vars(Progress(t))

-----------------------------------------------------------------------------
(* Properties *)

Statements == Tasks \X (0..MaxCalls) \X Nat

TypeOK ==
    /\ depth \in Nat /\ activeScope \in Nat /\ nextScope \in Nat
    /\ slot \in Connections \cup {None}
    /\ queue \in Seq(Tasks)
    /\ free \subseteq Connections
    /\ own \in [Tasks -> Connections \cup {None}]
    /\ sessions \in [Connections -> SessionsOver(Statements)]
    /\ durable \in SUBSET Statements
    /\ pc \in [Tasks -> Places]
    /\ gate \in [Tasks -> {"out", "checked", "queued", "pool"}]
    /\ scope \in [Drivers -> Nat]
    /\ savedRetry \in [Drivers -> BOOLEAN]
    /\ ran \in [Drivers -> SUBSET Statements]
    /\ outcome \in [Drivers -> Outcomes]
    /\ calls \in [Tasks -> 0..MaxCalls]
    /\ issued \in [Tasks -> Nat] /\ \A d \in Drivers : issued[d] <= MaxStatements[d]

(* Every connection is in exactly one place: the pool, the slot, or one      *)
(* task's hands.  None is lost on an error path, none is given out twice.    *)
ConnectionsAccounted ==
    \A c \in Connections :
        LET holders == {t \in Tasks : own[t] = c}
        IN  Cardinality(holders)
              + (IF slot = c THEN 1 ELSE 0)
              + (IF c \in free THEN 1 ELSE 0) = 1

(* A connection waiting in the pool has its configured retry options, and no *)
(* open transaction unless a BEGIN, COMMIT or ROLLBACK on it once went       *)
(* without an answer: bb8 never looks (has_broken is false).                 *)
PoolIsClean ==
    \A c \in free :
        sessions[c].retry /\ (InTransaction(sessions[c]) => ~sessions[c].sure)

(* No error path of run_pooled_transaction, and no caller that goes away,     *)
(* loses a connection or gives one back with a transaction in it, but for    *)
(* what an unanswered BEGIN, COMMIT or ROLLBACK left open.                    *)
PoolSound == TypeOK /\ ConnectionsAccounted /\ PoolIsClean

(* The slot is occupied while one driver is between install and clear: no    *)
(* error path forgets it, nobody clears another's connection, and only an    *)
(* owner whose future was dropped leaves it occupied.                        *)
Owners == {d \in Drivers : pc[d] \in Pinned}
OneOwner == Cardinality(Owners) <= 1 /\ (Owners # {} => slot # None)
Abandoned == slot # None /\ Owners = {}
SlotHasOneOwner ==
    /\ OneOwner
    /\ [][/\ OneOwner'
          /\ Abandoned' /\ ~Abandoned => \E d \in Owners : outcome'[d] = "cancelled"]_vars

(* lock() on the transaction's own handle is never refused and never finds   *)
(* the slot empty, so the error arms of BEGIN, COMMIT and ROLLBACK that       *)
(* come from lock(), and the two "connection is missing" errors, are dead.   *)
TransactionHandleAdmitted ==
    \A d \in Drivers :
        pc[d] \in Pinned => TransactionScopeAllowsLock(d) /\ slot # None

(* Every call returns: the slot's mutex, the pool and the cleanup never wait *)
(* for each other.                                                           *)
CallsReturn == \A t \in Tasks : []<>(pc[t] = "idle")

(* The abstract contract, with the outer operations left out.                *)
Contract == INSTANCE TransactionContract WITH
    Statements <- UNION {{d} \X (1..MaxCalls) \X (1..MaxStatements[d]) : d \in Drivers},
    verdict <- [d \in Drivers |->
                   IF outcome[d] = "none"
                   THEN IF calls[d] = 0 THEN "idle" ELSE "open"
                   ELSE outcome[d]],
    work <- ran,
    effects <- {s \in durable : s[1] \in Drivers},
    doubt <- \E c \in Connections : ~sessions[c].sure

(* run_pooled_transaction implements the contract for concurrent drivers,    *)
(* whatever is refused, goes unanswered or is dropped.                       *)
ImplementsContract == Contract!Spec
=============================================================================
