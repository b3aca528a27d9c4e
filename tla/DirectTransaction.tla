------------------------- MODULE DirectTransaction -------------------------
(* SharedConnection over one direct connection (crates/sql-orm/src/          *)
(* context.rs): lock(), run_transaction() and the runtime atomics that the   *)
(* clones of a handle share.                                                 *)
(*                                                                           *)
(* Drivers are tasks that call run_transaction on a handle without scope;    *)
(* their closure issues statements on the scoped handle.  Callers are tasks  *)
(* that run single operations on a handle without scope.  All the handles    *)
(* share the runtime and the connection's tokio mutex, which is FIFO: the    *)
(* head of `queue` holds the guard.                                          *)
EXTENDS SqlSession, Sequences, FiniteSets

CONSTANTS
    Drivers,        \* tasks calling run_transaction
    Callers,        \* tasks running operations on the outer handle
    Faults,         \* what may go wrong, a subset of FaultKinds
    MaxCalls,       \* calls per task
    MaxStatements   \* statements a closure issues per call

FaultKinds == {"begin", "statement", "abort", "commit", "unanswered", "cancel", "cancel_begin"}

ASSUME DisjointTasks == Drivers \cap Callers = {}
ASSUME FiniteDrivers == IsFiniteSet(Drivers)
ASSUME FaultsAssumption == Faults \subseteq FaultKinds
ASSUME BoundsAssumption == MaxCalls \in Nat /\ MaxStatements \in Nat

VARIABLES
    depth,          \* runtime.transaction_depth
    activeScope,    \* runtime.active_transaction_scope, 0 when none
    nextScope,      \* runtime.next_transaction_scope
    queue,          \* the direct mutex: holder first, then waiters in order
    session,        \* the connection: server session and retry option
    durable,        \* statements the database has committed
    pc,             \* where each task is
    gate,           \* progress of the task's current lock(): out, checked, queued
    scope,          \* transaction_scope of the driver's transaction handle
    savedRetry,     \* retry_options local of run_transaction
    ran,            \* statements of the driver's call the server has executed
    outcome,        \* how the driver's last call ended
    calls,          \* calls the task has started
    issued          \* statements the task has attempted in this call

runtime  == <<depth, activeScope, nextScope>>
server   == <<session, durable>>
locals   == <<scope, savedRetry, ran, outcome>>
counters == <<calls, issued>>
vars     == <<runtime, queue, server, pc, gate, locals, counters>>

Tasks == Drivers \cup Callers

(* Places from which a task is inside its transaction's scope, between       *)
(* enter_transaction_scope and exit_transaction_scope.                       *)
Entered == {"body", "statement", "commit", "rollback", "exit"}
(* Places where a task is in lock() or holds the guard it returned.          *)
Locking == {"begin", "statement", "commit", "rollback", "operation"}
Places  == {"idle", "store", "bump", "clear"} \cup Entered \cup Locking

Init ==
    /\ depth = 0 /\ activeScope = 0 /\ nextScope = 0
    /\ queue = <<>>
    /\ session = FreshSession /\ durable = {}
    /\ pc = [t \in Tasks |-> "idle"]
    /\ gate = [t \in Tasks |-> "out"]
    /\ scope = [d \in Drivers |-> 0]
    /\ savedRetry = [d \in Drivers |-> TRUE]
    /\ ran = [d \in Drivers |-> {}]
    /\ outcome = [d \in Drivers |-> "none"]
    /\ calls = [t \in Tasks |-> 0]
    /\ issued = [t \in Tasks |-> 0]

-----------------------------------------------------------------------------
(* lock() *)

(* The scope of the handle a task locks with; outer handles have none.       *)
HandleScope(t) == IF t \in Drivers THEN scope[t] ELSE 0

TransactionScopeAllowsLock(t) == activeScope \in {0, HandleScope(t)}

(* ensure_can_use_active_transaction_scope: once, before waiting.            *)
CheckScope(t) ==
    /\ pc[t] \in Locking /\ gate[t] = "out"
    /\ TransactionScopeAllowsLock(t)
    /\ gate' = [gate EXCEPT ![t] = "checked"]
    /\ UNCHANGED <<runtime, queue, server, pc, locals, counters>>

(* The first poll of the mutex's lock() future takes a place in its queue.   *)
Enqueue(t) ==
    /\ gate[t] = "checked"
    /\ gate' = [gate EXCEPT ![t] = "queued"]
    /\ queue' = Append(queue, t)
    /\ UNCHANGED <<runtime, server, pc, locals, counters>>

Rejected(t) == gate[t] = "out" /\ ~TransactionScopeAllowsLock(t)

Holds(t) == gate[t] = "queued" /\ queue # <<>> /\ Head(queue) = t

Release(t) ==
    /\ queue' = Tail(queue)
    /\ gate' = [gate EXCEPT ![t] = "out"]

Goto(t, place) == pc' = [pc EXCEPT ![t] = place]

(* How a call ends.  Three are an Err: of a BEGIN or ROLLBACK that was not   *)
(* answered, of a COMMIT that was not ("unknown"), and any other.            *)
Outcomes == {"none", "ok", "err", "unanswered", "unknown", "cancelled"}

(* run_transaction returns: what the closure did stays visible.              *)
Return(d, result) ==
    /\ Goto(d, "idle")
    /\ outcome' = [outcome EXCEPT ![d] = result]

-----------------------------------------------------------------------------
(* run_transaction, up to the closure *)

(* Mutant: the scope is read and the counter not moved.                      *)
AllocateStaleScope(d) ==
    /\ scope' = [scope EXCEPT ![d] = nextScope + 1]
    /\ UNCHANGED nextScope

(* allocate_transaction_scope and with_transaction_scope, a fetch_add.       *)
AllocateScope(d) ==
    /\ nextScope' = nextScope + 1
    /\ scope' = [scope EXCEPT ![d] = nextScope + 1]

(* The call: nested transactions are refused, otherwise a scope is           *)
(* allocated and a scoped handle made.                                       *)
StartTransaction(d) ==
    /\ pc[d] = "idle" /\ calls[d] < MaxCalls
    /\ calls' = [calls EXCEPT ![d] = @ + 1]
    /\ issued' = [issued EXCEPT ![d] = 0]
    /\ ran' = [ran EXCEPT ![d] = {}]
    /\ \/ /\ depth > 0
          /\ outcome' = [outcome EXCEPT ![d] = "err"]
          /\ UNCHANGED <<nextScope, scope, pc>>
       \/ /\ depth = 0
          /\ AllocateScope(d)
          /\ outcome' = [outcome EXCEPT ![d] = "none"]
          /\ Goto(d, "begin")
    /\ UNCHANGED <<depth, activeScope, queue, server, gate, savedRetry>>

BeginRejected(d) ==
    /\ pc[d] = "begin" /\ Rejected(d)
    /\ Return(d, "err")
    /\ UNCHANGED <<runtime, queue, server, gate, scope, savedRetry, ran, counters>>

(* Mutant: the retry options are left as they are.                           *)
BeginKeepsRetry(d) ==
    /\ pc[d] = "begin" /\ Holds(d)
    /\ session' = BeginTran(session)
    /\ savedRetry' = [savedRetry EXCEPT ![d] = session.retry]
    /\ Release(d)
    /\ Goto(d, "store")
    /\ UNCHANGED <<runtime, durable, scope, ran, outcome, counters>>

(* BEGIN TRANSACTION and replace_retry_options(disabled), then the guard is  *)
(* dropped before the scope is entered.                                      *)
Begin(d) ==
    /\ pc[d] = "begin" /\ Holds(d)
    /\ session' = WithRetry(BeginTran(session), FALSE)
    /\ savedRetry' = [savedRetry EXCEPT ![d] = session.retry]
    /\ Release(d)
    /\ Goto(d, "store")
    /\ UNCHANGED <<runtime, durable, scope, ran, outcome, counters>>

(* BEGIN is refused: nothing is open.                                        *)
BeginFails(d) ==
    /\ "begin" \in Faults
    /\ pc[d] = "begin" /\ Holds(d)
    /\ Release(d)
    /\ Return(d, "err")
    /\ UNCHANGED <<runtime, server, scope, savedRetry, ran, counters>>

(* BEGIN runs into query_timeout or its answer is lost: the transaction may  *)
(* be open on the shared connection, and the error path leaves it there.     *)
BeginUnanswered(d) ==
    /\ "unanswered" \in Faults
    /\ pc[d] = "begin" /\ Holds(d)
    /\ \E s \in {session, BeginTran(session)} : session' = Unsure(s)
    /\ Release(d)
    /\ Return(d, "unanswered")
    /\ UNCHANGED <<runtime, durable, scope, savedRetry, ran, counters>>

(* enter_transaction_scope: two atomics, the scope first.                    *)
StoreScope(d) ==
    /\ pc[d] = "store"
    /\ activeScope' = scope[d]
    /\ Goto(d, "bump")
    /\ UNCHANGED <<depth, nextScope, queue, server, gate, locals, counters>>

BumpDepth(d) ==
    /\ pc[d] = "bump"
    /\ depth' = depth + 1
    /\ Goto(d, "body")
    /\ UNCHANGED <<activeScope, nextScope, queue, server, gate, locals, counters>>

-----------------------------------------------------------------------------
(* The closure *)

IssueStatement(d) ==
    /\ pc[d] = "body" /\ issued[d] < MaxStatements
    /\ issued' = [issued EXCEPT ![d] = @ + 1]
    /\ Goto(d, "statement")
    /\ UNCHANGED <<runtime, queue, server, gate, locals, calls>>

Statement(t) == <<t, calls[t], issued[t]>>

StatementRejected(d) ==
    /\ pc[d] = "statement" /\ Rejected(d)
    /\ Goto(d, "body")
    /\ UNCHANGED <<runtime, queue, server, gate, locals, counters>>

(* The server executes the driver's statement.                               *)
Run(d) ==
    /\ session' = JoinTran(session, Statement(d))
    /\ durable' = durable \cup AutoCommitted(session, Statement(d))
    /\ ran' = [ran EXCEPT ![d] = @ \cup {Statement(d)}]

ExecuteStatement(d) ==
    /\ pc[d] = "statement" /\ Holds(d)
    /\ Run(d)
    /\ Release(d)
    /\ Goto(d, "body")
    /\ UNCHANGED <<runtime, scope, savedRetry, outcome, counters>>

(* The statement fails alone, or is executed and not answered; the closure   *)
(* may return the error or go on.                                            *)
StatementFails(d) ==
    /\ "statement" \in Faults
    /\ pc[d] = "statement" /\ Holds(d)
    /\ \/ UNCHANGED <<server, ran>>
       \/ "unanswered" \in Faults /\ Run(d)
    /\ Release(d)
    /\ Goto(d, "body")
    /\ UNCHANGED <<runtime, scope, savedRetry, outcome, counters>>

(* The server ends the transaction under the statement, and the closure      *)
(* returns the error.                                                        *)
StatementAborts(d) ==
    /\ "abort" \in Faults
    /\ pc[d] = "statement" /\ Holds(d)
    /\ session' = RollbackTran(session)
    /\ Release(d)
    /\ Goto(d, "rollback")
    /\ UNCHANGED <<runtime, durable, locals, counters>>

ClosureReturns(d) ==
    /\ pc[d] = "body"
    /\ \E arm \in {"commit", "rollback"} : Goto(d, arm)
    /\ UNCHANGED <<runtime, queue, server, gate, locals, counters>>

-----------------------------------------------------------------------------
(* run_transaction, after the closure *)

(* `lock().await?` in either arm: the error leaves at once, with the         *)
(* transaction open and the scope still entered.                             *)
FinishRejected(d) ==
    /\ pc[d] \in {"commit", "rollback"} /\ Rejected(d)
    /\ Return(d, "err")
    /\ UNCHANGED <<runtime, queue, server, gate, scope, savedRetry, ran, counters>>

(* COMMIT TRANSACTION; with no transaction open the server answers an error. *)
Commit(d) ==
    /\ pc[d] = "commit" /\ Holds(d)
    /\ \/ /\ InTransaction(session)
          /\ session' = WithRetry(CommitTran(session), savedRetry[d])
          /\ durable' = durable \cup MadeDurable(session)
          /\ outcome' = [outcome EXCEPT ![d] = "ok"]
       \/ /\ ~InTransaction(session)
          /\ session' = WithRetry(session, savedRetry[d])
          /\ outcome' = [outcome EXCEPT ![d] = "err"]
          /\ UNCHANGED durable
    /\ Goto(d, "exit")
    /\ UNCHANGED <<runtime, queue, gate, scope, savedRetry, ran, counters>>

(* Mutant: commit_result is never looked at.                                 *)
CommitResultIgnored(d) ==
    /\ "commit" \in Faults
    /\ pc[d] = "commit" /\ Holds(d)
    /\ session' = WithRetry(RollbackTran(session), savedRetry[d])
    /\ outcome' = [outcome EXCEPT ![d] = "ok"]
    /\ Goto(d, "exit")
    /\ UNCHANGED <<runtime, queue, durable, gate, scope, savedRetry, ran, counters>>

(* COMMIT refused by the server, which rolls the transaction back.           *)
CommitFails(d) ==
    /\ "commit" \in Faults
    /\ pc[d] = "commit" /\ Holds(d)
    /\ session' = WithRetry(RollbackTran(session), savedRetry[d])
    /\ outcome' = [outcome EXCEPT ![d] = "err"]
    /\ Goto(d, "exit")
    /\ UNCHANGED <<runtime, queue, durable, gate, scope, savedRetry, ran, counters>>

(* COMMIT runs into query_timeout or its answer is lost: the transaction is  *)
(* still open, or rolled back, or committed all the same.                    *)
CommitUnanswered(d) ==
    /\ "unanswered" \in Faults
    /\ pc[d] = "commit" /\ Holds(d)
    /\ \/ /\ \E s \in {session, RollbackTran(session)} :
                session' = WithRetry(Unsure(s), savedRetry[d])
          /\ UNCHANGED durable
       \/ /\ InTransaction(session)
          /\ session' = WithRetry(Unsure(CommitTran(session)), savedRetry[d])
          /\ durable' = durable \cup MadeDurable(session)
    /\ outcome' = [outcome EXCEPT ![d] = "unknown"]
    /\ Goto(d, "exit")
    /\ UNCHANGED <<runtime, queue, gate, scope, savedRetry, ran, counters>>

(* Mutant: ROLLBACK is taken for the inverse of one BEGIN.                   *)
RollbackOneLevel(d) ==
    /\ pc[d] = "rollback" /\ Holds(d)
    /\ session' = [session EXCEPT !.count = @ - 1, !.pending = {}, !.retry = savedRetry[d]]
    /\ outcome' = [outcome EXCEPT ![d] = "err"]
    /\ Goto(d, "exit")
    /\ UNCHANGED <<runtime, queue, durable, gate, scope, savedRetry, ran, counters>>

(* ROLLBACK TRANSACTION, and the caller gets the closure's error; that there *)
(* is no transaction to roll back is an error as well.                       *)
Rollback(d) ==
    /\ pc[d] = "rollback" /\ Holds(d)
    /\ session' = WithRetry(RollbackTran(session), savedRetry[d])
    /\ outcome' = [outcome EXCEPT ![d] = "err"]
    /\ Goto(d, "exit")
    /\ UNCHANGED <<runtime, queue, durable, gate, scope, savedRetry, ran, counters>>

(* ROLLBACK fails without the server saying what became of the transaction:  *)
(* it may be open still.                                                     *)
RollbackUnanswered(d) ==
    /\ "unanswered" \in Faults
    /\ pc[d] = "rollback" /\ Holds(d)
    /\ \E s \in {session, RollbackTran(session)} :
          session' = WithRetry(Unsure(s), savedRetry[d])
    /\ outcome' = [outcome EXCEPT ![d] = "unanswered"]
    /\ Goto(d, "exit")
    /\ UNCHANGED <<runtime, queue, durable, gate, scope, savedRetry, ran, counters>>

(* Mutant: the depth is stored, not counted down.                            *)
ExitResetsDepth(d) ==
    /\ pc[d] = "exit"
    /\ depth' = 0
    /\ Goto(d, "clear")
    /\ UNCHANGED <<activeScope, nextScope, queue, server, gate, locals, counters>>

(* exit_transaction_scope, under the guard: the depth, saturating, and then  *)
(* the scope; the guard is dropped and run_transaction returns.              *)
ExitDepth(d) ==
    /\ pc[d] = "exit"
    /\ depth' = IF depth = 0 THEN 0 ELSE depth - 1
    /\ Goto(d, "clear")
    /\ UNCHANGED <<activeScope, nextScope, queue, server, gate, locals, counters>>

ClearScope(d) ==
    /\ pc[d] = "clear"
    /\ activeScope' = 0
    /\ Release(d)
    /\ Goto(d, "idle")
    /\ UNCHANGED <<depth, nextScope, server, locals, counters>>

(* Mutant: the place in the queue is kept.                                   *)
LeaveKeepsPlace(d) ==
    /\ gate' = [gate EXCEPT ![d] = "out"]
    /\ UNCHANGED queue

(* A dropped future gives up its guard or its place in the queue.            *)
LeaveQueue(d) ==
    /\ gate' = [gate EXCEPT ![d] = "out"]
    /\ IF gate[d] = "queued"
       THEN \E i \in 1..Len(queue) :
                /\ queue[i] = d
                /\ queue' = SubSeq(queue, 1, i - 1) \o SubSeq(queue, i + 1, Len(queue))
       ELSE UNCHANGED queue

(* The caller drops the future of run_transaction while it awaits, and       *)
(* nothing else is undone.  The batch of a task that holds the guard may     *)
(* have reached the server.                                                  *)
InFlight(d) ==
    CASE pc[d] = "begin"     -> BeginTran(session)
      [] pc[d] = "statement" -> JoinTran(session, Statement(d))
      [] pc[d] = "commit"    -> IF InTransaction(session) THEN CommitTran(session) ELSE session
      [] OTHER               -> RollbackTran(session)

Cancel(d) ==
    /\ \/ "cancel" \in Faults /\ pc[d] \in {"body", "statement", "commit", "rollback"}
       \/ "cancel_begin" \in Faults /\ pc[d] = "begin"
    /\ gate[d] # "checked"
    /\ \/ UNCHANGED server
       \/ /\ Holds(d)
          /\ session' = Unsure(InFlight(d))
          /\ durable' = durable \cup
               CASE pc[d] = "commit"    -> MadeDurable(session)
                 [] pc[d] = "statement" -> AutoCommitted(session, Statement(d))
                 [] OTHER               -> {}
    /\ LeaveQueue(d)
    /\ Return(d, "cancelled")
    /\ UNCHANGED <<runtime, scope, savedRetry, ran, counters>>

-----------------------------------------------------------------------------
(* Operations on the outer handle *)

StartOperation(c) ==
    /\ pc[c] = "idle" /\ calls[c] < MaxCalls
    /\ calls' = [calls EXCEPT ![c] = @ + 1]
    /\ Goto(c, "operation")
    /\ UNCHANGED <<runtime, queue, server, gate, locals, issued>>

OperationRejected(c) ==
    /\ pc[c] = "operation" /\ Rejected(c)
    /\ Goto(c, "idle")
    /\ UNCHANGED <<runtime, queue, server, gate, locals, counters>>

ExecuteOperation(c) ==
    /\ pc[c] = "operation" /\ Holds(c)
    /\ session' = JoinTran(session, Statement(c))
    /\ durable' = durable \cup AutoCommitted(session, Statement(c))
    /\ Release(c)
    /\ Goto(c, "idle")
    /\ UNCHANGED <<runtime, locals, counters>>

-----------------------------------------------------------------------------
Lock(t) == CheckScope(t) \/ Enqueue(t)

Opening(d) ==
    \/ StartTransaction(d) \/ BeginRejected(d) \/ Begin(d) \/ BeginFails(d)
    \/ BeginUnanswered(d) \/ StoreScope(d) \/ BumpDepth(d)

Closure(d) ==
    \/ IssueStatement(d) \/ StatementRejected(d) \/ ExecuteStatement(d)
    \/ StatementFails(d) \/ StatementAborts(d) \/ ClosureReturns(d)

Closing(d) ==
    \/ FinishRejected(d) \/ Commit(d) \/ CommitFails(d) \/ CommitUnanswered(d)
    \/ Rollback(d) \/ RollbackUnanswered(d)
    \/ ExitDepth(d) \/ ClearScope(d)

Operation(c) == StartOperation(c) \/ OperationRejected(c) \/ ExecuteOperation(c)

Next ==
    \/ \E t \in Tasks : Lock(t)
    \/ \E d \in Drivers : Opening(d) \/ Closure(d) \/ Closing(d) \/ Cancel(d)
    \/ \E c \in Callers : Operation(c)

Spec == Init /\ [][Next]_vars

(* The executor polls every ready task and the server answers every batch;   *)
(* nothing obliges a task to make another call.                              *)
Progress(t) ==
    \/ Lock(t)
    \/ pc[t] # "idle" /\ t \in Drivers /\ (Opening(t) \/ Closure(t) \/ Closing(t))
    \/ pc[t] # "idle" /\ t \in Callers /\ Operation(t)

FairSpec == Spec /\ \A t \in Tasks : WF_vars(Progress(t))

-----------------------------------------------------------------------------
(* Properties *)

Statements == Tasks \X (0..MaxCalls) \X (0..MaxStatements)

TypeOK ==
    /\ depth \in Nat /\ activeScope \in Nat /\ nextScope \in Nat
    /\ queue \in Seq(Tasks)
    /\ session \in SessionsOver(Statements)
    /\ durable \in SUBSET Statements
    /\ pc \in [Tasks -> Places]
    /\ gate \in [Tasks -> {"out", "checked", "queued"}]
    /\ scope \in [Drivers -> Nat]
    /\ savedRetry \in [Drivers -> BOOLEAN]
    /\ ran \in [Drivers -> SUBSET Statements]
    /\ outcome \in [Drivers -> Outcomes]
    /\ calls \in [Tasks -> 0..MaxCalls]
    /\ issued \in [Tasks -> 0..MaxStatements]

(* docs/transactions.md "Semantics", and what is left of it when commands go *)
(* unanswered: a call never makes a part of its statements durable; an Err   *)
(* that is not that of an unanswered COMMIT means none is durable, also when *)
(* ROLLBACK or BEGIN was not answered; Ok means all are, unless an earlier   *)
(* unanswered command may have left a transaction open around the call.      *)
AllOrNothing ==
    \A d \in Drivers :
        /\ ran[d] \subseteq durable \/ ran[d] \cap durable = {}
        /\ outcome[d] \in {"err", "unanswered"} => ran[d] \cap durable = {}
        /\ outcome[d] = "ok" /\ session.sure => ran[d] \subseteq durable

(* "Retries remain disabled for queries executed through a transaction       *)
(* context": replace_retry_options brackets the closure.                     *)
RetryOffInTransaction ==
    \A d \in Drivers : pc[d] = "statement" /\ Holds(d) => ~session.retry

(* Whenever is_transaction_active() answers false and no run_transaction is  *)
(* between BEGIN and its closure or between COMMIT and its return, nothing   *)
(* of an earlier transaction is left on the shared connection: no scope, the *)
(* configured retry options, and no open server transaction, which only a    *)
(* BEGIN, COMMIT or ROLLBACK without an answer can have left there.          *)
FreeRuntimeIsClean ==
    depth = 0 /\ (\A d \in Drivers : pc[d] \notin {"store", "bump", "clear"})
        => activeScope = 0 /\ session.retry /\ (InTransaction(session) => ~session.sure)

(* What the runtime says of the connection is what the connection is: retries *)
(* are off inside a transaction, and outside one nothing of it is left but    *)
(* what an unanswered command left.                                           *)
RuntimeTruthful == RetryOffInTransaction /\ FreeRuntimeIsClean

(* exit_transaction_scope never saturates: the depth counts every closure    *)
(* that has been entered and not yet left, however many drivers run.         *)
DepthCoversEntered ==
    depth >= Cardinality({d \in Drivers : pc[d] \in Entered})

(* allocate_transaction_scope: no two calls in progress hold the same scope, *)
(* so the scope check can tell their handles apart.                          *)
ScopesDistinct ==
    \A d, e \in Drivers :
        d # e /\ pc[d] # "idle" /\ pc[e] # "idle" => scope[d] # scope[e]

(* The mutex, the scope check and the early returns never leave a task       *)
(* waiting for ever: every call returns.                                     *)
CallsReturn == \A t \in Tasks : pc[t] # "idle" ~> pc[t] = "idle"

(* The abstract contract, with the outer operations left out.                *)
Contract == INSTANCE TransactionContract WITH
    Statements <- Drivers \X (1..MaxCalls) \X (1..MaxStatements),
    verdict <- [d \in Drivers |->
                   IF outcome[d] = "none"
                   THEN IF calls[d] = 0 THEN "idle" ELSE "open"
                   ELSE outcome[d]],
    work <- ran,
    effects <- {s \in durable : s[1] \in Drivers},
    doubt <- ~session.sure

(* run_transaction implements the contract when one task drives it, whatever *)
(* is refused, goes unanswered or is dropped.                                *)
ImplementsContract == Contract!Spec
=============================================================================
