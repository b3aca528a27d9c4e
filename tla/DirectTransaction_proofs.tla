---------------------- MODULE DirectTransaction_proofs ----------------------
(* What DirectTransaction guarantees for every set of tasks and every bound. *)
EXTENDS DirectTransaction, TransactionLemmas, FiniteSetTheorems

-----------------------------------------------------------------------------
(* Type correctness *)

(* The driver that leaves its transaction holds the connection's guard.      *)
Guarded == \A d \in Drivers : pc[d] \in {"exit", "clear"} => Holds(d)

Inv == TypeOK /\ Guarded

(* The statement a task has in hand is one of the statements.                *)
LEMMA StatementTyped ==
    ASSUME TypeOK, NEW t \in Tasks
    PROVE  Statement(t) \in Statements
  BY DEF TypeOK, Statement, Statements, Tasks

(* One step keeps every variable in its type.  The queue may only be cut     *)
(* when somebody is in it, which is what Guarded adds for ClearScope.        *)
LEMMA TypeStep ==
    ASSUME Inv, [Next]_vars
    PROVE  TypeOK'
<1> USE DEF Inv, Goto, Return, runtime, server, locals, counters
<1>1. session \in SessionsOver(Statements)
  BY DEF TypeOK, SessionsOver
<1>2. ASSUME NEW t \in Tasks, Holds(t)
      PROVE  Tail(queue) \in Seq(Tasks)
  BY <1>2, HeadTailProperties DEF TypeOK, Holds
<1>3. ASSUME NEW t \in Tasks, Lock(t)
      PROVE  TypeOK'
  <2>1. CASE CheckScope(t)
    BY <2>1 DEF CheckScope, TypeOK
  <2>2. CASE Enqueue(t)
    <3>1. Append(queue, t) \in Seq(Tasks)
      BY AppendProperties DEF TypeOK
    <3> QED  BY <2>2, <3>1 DEF Enqueue, TypeOK
  <2> QED  BY <1>3, <2>1, <2>2 DEF Lock
<1>4. ASSUME NEW d \in Drivers, Opening(d)
      PROVE  TypeOK'
  <2>0. d \in Tasks
    BY DEF Tasks
  <2>1. CASE StartTransaction(d)
    <3>1. calls' \in [Tasks -> 0..MaxCalls] /\ issued' \in [Tasks -> 0..MaxStatements]
          /\ ran' \in [Drivers -> SUBSET Statements]
      BY <2>0, <2>1, BoundsAssumption DEF StartTransaction, TypeOK
    <3>2. UNCHANGED <<depth, activeScope, queue, session, durable, gate, savedRetry>>
      BY <2>1 DEF StartTransaction
    <3>3. nextScope' \in Nat /\ scope' \in [Drivers -> Nat]
      <4>1. nextScope + 1 \in Nat /\ scope \in [Drivers -> Nat]
        BY DEF TypeOK
      <4>2. \/ nextScope' = nextScope /\ scope' = scope
            \/ nextScope' = nextScope + 1 /\ scope' = [scope EXCEPT ![d] = nextScope + 1]
        BY <2>1 DEF StartTransaction, AllocateScope
      <4> QED  BY <4>1, <4>2 DEF TypeOK
    <3>4. outcome' \in [Drivers -> Outcomes]
      BY <2>1 DEF StartTransaction, TypeOK, Outcomes
    <3>5. pc' \in [Tasks -> Places]
      BY <2>0, <2>1 DEF StartTransaction, TypeOK, Places, Locking
    <3> QED  BY <3>1, <3>2, <3>3, <3>4, <3>5 DEF TypeOK
  <2>2. CASE BeginRejected(d)
    BY <2>0, <2>2 DEF BeginRejected, TypeOK, Places, Outcomes
  <2>3. CASE Begin(d)
    <3>1. /\ WithRetry(BeginTran(session), FALSE) \in SessionsOver(Statements)
          /\ session.retry \in BOOLEAN
      <4>1. BeginTran(session) \in SessionsOver(Statements)
        BY <1>1, SessionTyped
      <4> QED  BY <1>1, <4>1, SessionTyped DEF SessionsOver
    <3> QED  BY <1>2, <2>0, <2>3, <3>1 DEF Begin, Release, TypeOK, Places, SessionsOver
  <2>4. CASE BeginFails(d)
    BY <1>2, <2>0, <2>4 DEF BeginFails, Release, TypeOK, Places, Outcomes
  <2>5. CASE BeginUnanswered(d)
    <3>1. session' \in SessionsOver(Statements)
      <4>1. BeginTran(session) \in SessionsOver(Statements)
        BY <1>1, SessionTyped
      <4> QED  BY <1>1, <2>5, <4>1, SessionTyped DEF BeginUnanswered
    <3> QED  BY <1>2, <2>0, <2>5, <3>1 DEF BeginUnanswered, Release, TypeOK, Places, Outcomes
  <2>6. CASE StoreScope(d)
    BY <2>0, <2>6 DEF StoreScope, TypeOK, Places
  <2>7. CASE BumpDepth(d)
    BY <2>0, <2>7 DEF BumpDepth, TypeOK, Places, Entered
  <2> QED  BY <1>4, <2>1, <2>2, <2>3, <2>4, <2>5, <2>6, <2>7 DEF Opening
<1>5. ASSUME NEW d \in Drivers, Closure(d)
      PROVE  TypeOK'
  <2>0. d \in Tasks /\ {"body", "statement", "commit", "rollback"} \subseteq Places
    BY DEF Tasks, Places, Entered
  <2>1. CASE IssueStatement(d)
    BY <2>0, <2>1, BoundsAssumption DEF IssueStatement, TypeOK
  <2>2. CASE StatementRejected(d)
    BY <2>0, <2>2 DEF StatementRejected, TypeOK
  <2>a. ASSUME Run(d)
        PROVE  /\ session' \in SessionsOver(Statements) /\ durable' \in SUBSET Statements
               /\ ran' \in [Drivers -> SUBSET Statements]
    <3>1. Statement(d) \in Statements
      BY <2>0, StatementTyped
    <3> QED  BY <1>1, <2>a, <3>1, SessionTyped DEF Run, TypeOK
  <2>3. CASE ExecuteStatement(d)
    BY <1>2, <2>0, <2>3, <2>a DEF ExecuteStatement, Release, TypeOK
  <2>4. CASE StatementFails(d)
    <3>1. /\ session' \in SessionsOver(Statements) /\ durable' \in SUBSET Statements
          /\ ran' \in [Drivers -> SUBSET Statements]
      BY <2>4, <2>a DEF StatementFails, TypeOK
    <3> QED  BY <1>2, <2>0, <2>4, <3>1 DEF StatementFails, Release, TypeOK
  <2>5. CASE StatementAborts(d)
    <3>1. RollbackTran(session) \in SessionsOver(Statements)
      BY <1>1, SessionTyped
    <3> QED  BY <1>2, <2>0, <2>5, <3>1 DEF StatementAborts, Release, TypeOK, SessionsOver
  <2>6. CASE ClosureReturns(d)
    BY <2>0, <2>6 DEF ClosureReturns, TypeOK
  <2> QED  BY <1>5, <2>1, <2>2, <2>3, <2>4, <2>5, <2>6 DEF Closure
<1>6. ASSUME NEW d \in Drivers, Closing(d)
      PROVE  TypeOK'
  <2>0. d \in Tasks /\ {"idle", "exit", "clear"} \subseteq Places
    BY DEF Tasks, Places, Entered
  <2>1. savedRetry[d] \in BOOLEAN
    BY DEF TypeOK
  <2>2. WithRetry(RollbackTran(session), savedRetry[d]) \in SessionsOver(Statements)
    BY <1>1, <2>1, SessionTyped
  <2>3. CASE FinishRejected(d)
    BY <2>0, <2>3 DEF FinishRejected, TypeOK, Outcomes
  <2>4. CASE Commit(d)
    <3>1. session' \in SessionsOver(Statements) /\ durable' \in SUBSET Statements
      <4>1. CASE InTransaction(session)
        <5>1. CommitTran(session) \in SessionsOver(Statements)
          BY <1>1, <4>1, SessionTyped
        <5>2. MadeDurable(session) \in SUBSET Statements
          BY <1>1, SessionTyped
        <5> QED  BY <2>1, <2>4, <4>1, <5>1, <5>2 DEF Commit, TypeOK, WithRetry, SessionsOver
      <4>2. CASE ~InTransaction(session)
        BY <1>1, <2>1, <2>4, <4>2 DEF Commit, TypeOK, WithRetry, SessionsOver
      <4> QED  BY <4>1, <4>2
    <3> QED  BY <2>0, <2>4, <3>1 DEF Commit, TypeOK, Outcomes
  <2>5. CASE CommitFails(d) \/ Rollback(d)
    BY <2>0, <2>2, <2>5 DEF CommitFails, Rollback, TypeOK, Outcomes
  <2>6. ASSUME NEW s \in SessionsOver(Statements)
        PROVE  WithRetry(Unsure(s), savedRetry[d]) \in SessionsOver(Statements)
    <3>1. Unsure(s) \in SessionsOver(Statements)
      BY SessionTyped
    <3> QED  BY <2>1, <3>1, SessionTyped
  <2>7. RollbackTran(session) \in SessionsOver(Statements)
    BY <1>1, SessionTyped
  <2>8. CASE CommitUnanswered(d)
    <3>1. session' \in SessionsOver(Statements) /\ durable' \in SUBSET Statements
      <4>1. MadeDurable(session) \in SUBSET Statements
        BY <1>1, SessionTyped
      <4>2. InTransaction(session) => CommitTran(session) \in SessionsOver(Statements)
        BY <1>1, SessionTyped
      <4> QED  BY <1>1, <2>6, <2>7, <2>8, <4>1, <4>2 DEF CommitUnanswered, TypeOK
    <3> QED  BY <2>0, <2>8, <3>1 DEF CommitUnanswered, TypeOK, Outcomes
  <2>9. CASE RollbackUnanswered(d)
    <3>1. session' \in SessionsOver(Statements)
      BY <1>1, <2>6, <2>7, <2>9 DEF RollbackUnanswered
    <3> QED  BY <2>0, <2>9, <3>1 DEF RollbackUnanswered, TypeOK, Outcomes
  <2>10. CASE ExitDepth(d)
    BY <2>0, <2>10 DEF ExitDepth, TypeOK
  <2>11. CASE ClearScope(d)
    <3>1. Holds(d)
      BY <2>11 DEF ClearScope, Guarded
    <3> QED  BY <1>2, <2>0, <2>11, <3>1 DEF ClearScope, Release, TypeOK
  <2> QED  BY <1>6, <2>3, <2>4, <2>5, <2>8, <2>9, <2>10, <2>11 DEF Closing
<1>7. ASSUME NEW d \in Drivers, Cancel(d)
      PROVE  TypeOK'
  <2>0. d \in Tasks /\ "idle" \in Places /\ Statement(d) \in Statements
    BY StatementTyped DEF Tasks, Places
  <2>1. queue' \in Seq(Tasks)
    <3>1. queue \in Seq(Tasks)
      BY DEF TypeOK
    <3> QED  BY <1>7, <3>1, LeftQueue DEF Cancel, LeaveQueue
  <2>2. session' \in SessionsOver(Statements) /\ durable' \in SUBSET Statements
    <3>1. Unsure(InFlight(d)) \in SessionsOver(Statements)
      <4>1. InFlight(d) \in SessionsOver(Statements)
        BY <1>1, <2>0, SessionTyped DEF InFlight
      <4> QED  BY <4>1, SessionTyped
    <3>2. MadeDurable(session) \in SUBSET Statements
          /\ AutoCommitted(session, Statement(d)) \in SUBSET Statements
      BY <1>1, <2>0, SessionTyped
    <3> QED  BY <1>1, <1>7, <3>1, <3>2 DEF Cancel, TypeOK
  <2> QED  BY <1>7, <2>0, <2>1, <2>2 DEF Cancel, LeaveQueue, TypeOK, Outcomes
<1>8. ASSUME NEW c \in Callers, Operation(c)
      PROVE  TypeOK'
  <2>0. c \in Tasks /\ {"idle", "operation"} \subseteq Places
    BY DEF Tasks, Places, Locking
  <2>1. CASE StartOperation(c)
    BY <2>0, <2>1, BoundsAssumption DEF StartOperation, TypeOK
  <2>2. CASE OperationRejected(c)
    BY <2>0, <2>2 DEF OperationRejected, TypeOK
  <2>3. CASE ExecuteOperation(c)
    <3>1. session' \in SessionsOver(Statements) /\ durable' \in SUBSET Statements
      BY <1>1, <2>0, <2>3, StatementTyped, SessionTyped DEF ExecuteOperation, TypeOK
    <3> QED  BY <1>2, <2>0, <2>3, <3>1 DEF ExecuteOperation, Release, TypeOK, SessionsOver
  <2> QED  BY <1>8, <2>1, <2>2, <2>3 DEF Operation
<1>9. CASE UNCHANGED vars
  BY <1>9 DEF vars, TypeOK
<1> QED  BY <1>3, <1>4, <1>5, <1>6, <1>7, <1>8, <1>9 DEF Next

(* Nobody else releases the guard of a driver that is on its way out, and a  *)
(* task that enters or leaves the queue does so behind it.                   *)
LEMMA GuardedStep ==
    ASSUME Inv, [Next]_vars
    PROVE  Guarded'
<1> SUFFICES ASSUME NEW d \in Drivers, pc'[d] \in {"exit", "clear"}
             PROVE  Holds(d)'
  BY DEF Guarded
<1> USE DEF Inv, Goto, Return
<1>0. d \in Tasks /\ pc \in [Tasks -> Places] /\ gate \in [Tasks -> {"out", "checked", "queued"}]
      /\ queue \in Seq(Tasks)
  BY DEF TypeOK, Tasks
<1>1. pc[d] \in {"exit", "clear"} => Holds(d)
  BY DEF Guarded
<1>2. ASSUME NEW t \in Tasks, Lock(t)
      PROVE  Holds(d)'
  <2>1. Holds(d)
    BY <1>1, <1>2 DEF Lock, CheckScope, Enqueue
  <2>2. CASE CheckScope(t)
    BY <1>0, <2>1, <2>2 DEF CheckScope, Holds
  <2>3. CASE Enqueue(t)
    <3>1. queue' # <<>> /\ Head(queue') = Head(queue)
      BY <1>0, <2>1, <2>3, AppendProperties, HeadTailAppend DEF Enqueue, Holds
    <3> QED  BY <1>0, <2>1, <2>3, <3>1 DEF Enqueue, Holds
  <2> QED  BY <1>2, <2>2, <2>3 DEF Lock
<1>3. ASSUME NEW e \in Drivers, e # d,
             Opening(e) \/ Closure(e) \/ Closing(e)
      PROVE  Holds(d)'
  <2>1. Holds(d)
    <3>1. CASE Opening(e)
      BY <1>0, <1>1, <1>3, <3>1 DEF Opening, StartTransaction, BeginRejected, Begin,
         BeginFails, BeginUnanswered, StoreScope, BumpDepth
    <3>2. CASE Closure(e)
      BY <1>0, <1>1, <1>3, <3>2 DEF Closure, IssueStatement, StatementRejected,
         ExecuteStatement, StatementFails, StatementAborts, ClosureReturns
    <3>3. CASE Closing(e)
      BY <1>0, <1>1, <1>3, <3>3 DEF Closing, FinishRejected, Commit, CommitFails,
         CommitUnanswered, Rollback, RollbackUnanswered, ExitDepth, ClearScope
    <3> QED  BY <1>3, <3>1, <3>2, <3>3
  <2>2. ~Holds(e) /\ pc[e] # "clear"
    BY <1>3, <2>1 DEF Guarded, Holds
  <2>3. gate' = gate /\ queue' = queue
    BY <1>3, <2>2 DEF Opening, StartTransaction, BeginRejected, Begin, BeginFails,
       BeginUnanswered, StoreScope, BumpDepth, Closure, IssueStatement, StatementRejected,
       ExecuteStatement, StatementFails, StatementAborts, ClosureReturns, Closing,
       FinishRejected, Commit, CommitFails, CommitUnanswered, Rollback, RollbackUnanswered,
       ExitDepth, ClearScope
  <2> QED  BY <2>1, <2>3 DEF Holds
<1>4. ASSUME Opening(d) \/ Closure(d)
      PROVE  Holds(d)'
  BY <1>0, <1>4, <1>1 DEF Opening, StartTransaction, BeginRejected, Begin, BeginFails,
     BeginUnanswered, StoreScope, BumpDepth, Closure, IssueStatement, StatementRejected,
     ExecuteStatement, StatementFails, StatementAborts, ClosureReturns
<1>5. ASSUME Closing(d)
      PROVE  Holds(d)'
  <2>1. CASE \/ Commit(d) \/ CommitFails(d) \/ CommitUnanswered(d)
             \/ Rollback(d) \/ RollbackUnanswered(d)
    BY <2>1 DEF Commit, CommitFails, CommitUnanswered, Rollback, RollbackUnanswered, Holds
  <2>2. CASE ExitDepth(d)
    BY <1>1, <2>2 DEF ExitDepth, Holds
  <2>3. CASE FinishRejected(d) \/ ClearScope(d)
    BY <1>0, <2>3 DEF FinishRejected, ClearScope
  <2> QED  BY <1>5, <2>1, <2>2, <2>3 DEF Closing
<1>6. ASSUME NEW e \in Drivers, Cancel(e)
      PROVE  Holds(d)'
  <2>1. e # d /\ Holds(d)
    BY <1>0, <1>1, <1>6 DEF Cancel
  <2>2. CASE gate[e] = "queued"
    <3>1. PICK i \in 1..Len(queue) :
            /\ queue[i] = e
            /\ queue' = SubSeq(queue, 1, i - 1) \o SubSeq(queue, i + 1, Len(queue))
      BY <1>6, <2>2 DEF Cancel, LeaveQueue
    <3>2. i # 1
      BY <2>1, <3>1 DEF Holds
    <3>3. queue' # <<>> /\ Head(queue') = Head(queue)
      BY <1>0, <3>1, <3>2, LeftQueue
    <3> QED  BY <1>0, <1>6, <2>1, <3>3 DEF Cancel, LeaveQueue, Holds
  <2>3. CASE gate[e] # "queued"
    BY <1>0, <1>6, <2>1, <2>3 DEF Cancel, LeaveQueue, Holds
  <2> QED  BY <2>2, <2>3
<1>7. ASSUME NEW c \in Callers, Operation(c)
      PROVE  Holds(d)'
  <2>1. c # d /\ c \in Tasks
    BY DisjointTasks DEF Tasks
  <2>2. Holds(d)
    BY <1>0, <1>1, <1>7, <2>1 DEF Operation, StartOperation, OperationRejected,
       ExecuteOperation
  <2>3. gate' = gate /\ queue' = queue
    BY <1>7, <2>1, <2>2 DEF Operation, StartOperation, OperationRejected, ExecuteOperation,
       Holds
  <2> QED  BY <2>2, <2>3 DEF Holds
<1>8. CASE UNCHANGED vars
  BY <1>1, <1>8 DEF vars, Holds
<1> QED  BY <1>2, <1>3, <1>4, <1>5, <1>6, <1>7, <1>8 DEF Next

(* Every variable keeps its type, for every number of drivers and callers,   *)
(* every bound and every combination of faults.                              *)
THEOREM TypeCorrect == Spec => []TypeOK
<1>1. Init => Inv
  <2> SUFFICES ASSUME Init
               PROVE  Inv
    OBVIOUS
  <2>1. TypeOK
    BY BoundsAssumption DEF Init, TypeOK, FreshSession, SessionsOver, Tasks, Places, Outcomes
  <2>2. Guarded
    BY DEF Init, Guarded, Tasks
  <2> QED  BY <2>1, <2>2 DEF Inv
<1>2. Inv /\ [Next]_vars => Inv'
  BY TypeStep, GuardedStep DEF Inv
<1>3. Inv => TypeOK
  BY DEF Inv
<1> QED  BY <1>1, <1>2, <1>3, PTL DEF Spec

-----------------------------------------------------------------------------
(* Transaction scopes *)

(* A scope is never handed out twice: the ones drivers keep, in a call or    *)
(* from their last call, are distinct and behind the counter.                *)
ScopeInv ==
    /\ \A d \in Drivers : scope[d] <= nextScope
    /\ \A d \in Drivers : pc[d] # "idle" => scope[d] # 0
    /\ \A d, e \in Drivers : d # e /\ scope[d] = scope[e] => scope[d] = 0

(* Only a call that starts touches the scopes or leaves "idle".              *)
LEMMA OnlyStartAllocates ==
    ASSUME TypeOK, [Next]_vars, \A d \in Drivers : ~StartTransaction(d)
    PROVE  /\ UNCHANGED <<scope, nextScope>>
           /\ \A d \in Drivers : pc[d] = "idle" => pc'[d] = "idle"
<1> USE DEF Goto, Return, runtime, locals
<1>0. pc \in [Tasks -> Places] /\ Drivers \subseteq Tasks
  BY DEF TypeOK, Tasks
<1>1. ASSUME NEW t \in Tasks, Lock(t)
      PROVE  UNCHANGED <<scope, nextScope, pc>>
  BY <1>1 DEF Lock, CheckScope, Enqueue
<1>2. ASSUME NEW e \in Drivers, Opening(e) \/ Closure(e) \/ Closing(e)
      PROVE  /\ UNCHANGED <<scope, nextScope>>
             /\ \A d \in Drivers : pc[d] = "idle" => pc'[d] = "idle"
  BY <1>0, <1>2 DEF Opening, BeginRejected, Begin, BeginFails, BeginUnanswered, StoreScope,
     BumpDepth, Closure, IssueStatement, StatementRejected, ExecuteStatement, StatementFails,
     StatementAborts, ClosureReturns, Closing, FinishRejected, Commit, CommitFails,
     CommitUnanswered, Rollback, RollbackUnanswered, ExitDepth, ClearScope
<1>3. ASSUME NEW e \in Drivers, Cancel(e)
      PROVE  /\ UNCHANGED <<scope, nextScope>>
             /\ \A d \in Drivers : pc[d] = "idle" => pc'[d] = "idle"
  BY <1>0, <1>3 DEF Cancel
<1>4. ASSUME NEW c \in Callers, Operation(c)
      PROVE  /\ UNCHANGED <<scope, nextScope>>
             /\ \A d \in Drivers : pc[d] = "idle" => pc'[d] = "idle"
  BY <1>0, <1>4, DisjointTasks DEF Operation, StartOperation, OperationRejected,
     ExecuteOperation, Tasks
<1>5. CASE UNCHANGED vars
  BY <1>5 DEF vars
<1> QED  BY <1>1, <1>2, <1>3, <1>4, <1>5 DEF Next

(* No two calls in progress hold the same scope, so the scope check tells    *)
(* the handles of concurrent transactions apart.                             *)
THEOREM DistinctScopes == Spec => []ScopesDistinct
<1>1. Init => ScopeInv
  BY DEF Init, ScopeInv, Tasks
<1>2. TypeOK /\ ScopeInv /\ [Next]_vars => ScopeInv'
  <2> SUFFICES ASSUME TypeOK, ScopeInv, [Next]_vars
               PROVE  ScopeInv'
    OBVIOUS
  <2>1. ASSUME NEW d \in Drivers, StartTransaction(d)
        PROVE  ScopeInv'
    <3>0. /\ nextScope \in Nat /\ scope \in [Drivers -> Nat] /\ pc \in [Tasks -> Places]
          /\ Drivers \subseteq Tasks
      BY DEF TypeOK, Tasks
    <3>1. CASE depth > 0
      BY <2>1, <3>1 DEF StartTransaction, ScopeInv, TypeOK
    <3>2. CASE depth = 0
      <4>1. /\ nextScope' = nextScope + 1
            /\ scope' = [scope EXCEPT ![d] = nextScope + 1]
            /\ pc' = [pc EXCEPT ![d] = "begin"]
        BY <2>1, <3>2 DEF StartTransaction, AllocateScope, Goto
      <4> QED  BY <3>0, <4>1 DEF ScopeInv
    <3> QED  BY <3>1, <3>2 DEF TypeOK
  <2>2. CASE \A d \in Drivers : ~StartTransaction(d)
    BY <2>2, OnlyStartAllocates DEF ScopeInv
  <2> QED  BY <2>1, <2>2
<1>3. ScopeInv => ScopesDistinct
  BY DEF ScopeInv, ScopesDistinct
<1> QED  BY <1>1, <1>2, <1>3, TypeCorrect, PTL DEF Spec

-----------------------------------------------------------------------------
(* Transaction depth *)

Inside == {d \in Drivers : pc[d] \in Entered}

(* Drivers get inside one at a time, where the depth is counted up, and      *)
(* leave unobserved by the depth only when their future is dropped or their  *)
(* handle refused.                                                           *)
LEMMA OnlyBumpEnters ==
    ASSUME TypeOK, [Next]_vars,
           \A d \in Drivers : ~BumpDepth(d) /\ ~ExitDepth(d)
    PROVE  depth' = depth /\ Inside' \subseteq Inside
<1> USE DEF Goto, Return, runtime, locals
<1>0. pc \in [Tasks -> Places] /\ Drivers \subseteq Tasks
  BY DEF TypeOK, Tasks
<1>1. ASSUME NEW t \in Tasks, Lock(t)
      PROVE  UNCHANGED <<depth, pc>>
  BY <1>1 DEF Lock, CheckScope, Enqueue
<1>2. ASSUME NEW e \in Drivers, Opening(e) \/ Closure(e) \/ Closing(e) \/ Cancel(e)
      PROVE  /\ depth' = depth
             /\ \A d \in Drivers : pc'[d] \in Entered => pc[d] \in Entered
  <2>1. CASE Opening(e)
    BY <1>0, <2>1 DEF Opening, StartTransaction, BeginRejected, Begin, BeginFails,
       BeginUnanswered, StoreScope, Entered
  <2>2. CASE Closure(e)
    BY <1>0, <2>2 DEF Closure, IssueStatement, StatementRejected, ExecuteStatement,
       StatementFails, StatementAborts, ClosureReturns, Entered
  <2>3. CASE Closing(e)
    BY <1>0, <2>3 DEF Closing, FinishRejected, Commit, CommitFails, CommitUnanswered,
       Rollback, RollbackUnanswered, ClearScope, Entered
  <2>4. CASE Cancel(e)
    BY <1>0, <2>4 DEF Cancel, Entered
  <2> QED  BY <1>2, <2>1, <2>2, <2>3, <2>4
<1>3. ASSUME NEW c \in Callers, Operation(c)
      PROVE  /\ depth' = depth
             /\ \A d \in Drivers : pc'[d] \in Entered => pc[d] \in Entered
  BY <1>0, <1>3, DisjointTasks DEF Operation, StartOperation, OperationRejected,
     ExecuteOperation, Tasks
<1>4. CASE UNCHANGED vars
  BY <1>4 DEF vars, Inside
<1> QED  BY <1>1, <1>2, <1>3, <1>4 DEF Next, Inside

(* The depth never undercounts the closures in progress, so leaving a        *)
(* transaction never meets the saturation of exit_transaction_scope and      *)
(* is_transaction_active() never denies a transaction that is entered.       *)
THEOREM DepthCounts == Spec => []DepthCoversEntered
<1>1. Init => DepthCoversEntered
  <2> SUFFICES ASSUME Init
               PROVE  DepthCoversEntered
    OBVIOUS
  <2>1. Inside = {}
    BY DEF Init, Tasks, Inside, Entered
  <2>2. depth >= Cardinality(Inside)
    BY <2>1, FS_EmptySet DEF Init
  <2> QED  BY <2>2 DEF DepthCoversEntered, Inside
<1>2. TypeOK /\ DepthCoversEntered /\ [Next]_vars => DepthCoversEntered'
  <2> SUFFICES ASSUME TypeOK, DepthCoversEntered, [Next]_vars
               PROVE  depth' >= Cardinality(Inside')
    BY DEF DepthCoversEntered, Inside
  <2>1. IsFiniteSet(Inside) /\ Cardinality(Inside) \in Nat /\ depth >= Cardinality(Inside)
    BY FiniteDrivers, FS_Subset, FS_CardinalityType DEF Inside, DepthCoversEntered
  <2>2. depth \in Nat /\ pc \in [Tasks -> Places] /\ Drivers \subseteq Tasks
    BY DEF TypeOK, Tasks
  <2>3. ASSUME NEW d \in Drivers, BumpDepth(d)
        PROVE  depth' >= Cardinality(Inside')
    <3>1. Inside' = Inside \cup {d} /\ d \notin Inside /\ depth' = depth + 1
      BY <2>2, <2>3 DEF BumpDepth, Goto, Inside, Entered
    <3>2. Cardinality(Inside') = Cardinality(Inside) + 1
      BY <2>1, <3>1, FS_AddElement
    <3> QED  BY <2>1, <2>2, <3>1, <3>2
  <2>4. ASSUME NEW d \in Drivers, ExitDepth(d)
        PROVE  depth' >= Cardinality(Inside')
    <3>1. Inside' = Inside \ {d} /\ d \in Inside
      BY <2>2, <2>4 DEF ExitDepth, Goto, Inside, Entered
    <3>2. Cardinality(Inside') = Cardinality(Inside) - 1
      BY <2>1, <3>1, FS_RemoveElement
    <3>3. Cardinality(Inside) # 0
      BY <2>1, <3>1, FS_EmptySet
    <3>4. depth' = depth - 1
      BY <2>1, <2>2, <2>4, <3>3 DEF ExitDepth
    <3> QED  BY <2>1, <2>2, <3>2, <3>4
  <2>5. CASE \A d \in Drivers : ~BumpDepth(d) /\ ~ExitDepth(d)
    <3>1. depth' = depth /\ Inside' \subseteq Inside
      BY <2>5, OnlyBumpEnters
    <3>2. Cardinality(Inside') <= Cardinality(Inside) /\ Cardinality(Inside') \in Nat
      BY <2>1, <3>1, FS_Subset, FS_CardinalityType
    <3> QED  BY <2>1, <2>2, <3>1, <3>2
  <2> QED  BY <2>3, <2>4, <2>5
<1> QED  BY <1>1, <1>2, TypeCorrect, PTL DEF Spec

-----------------------------------------------------------------------------
(* Atomicity *)

(* Where a driver is in its call, as far as its statements are concerned.    *)
BeforeCommit == {"store", "bump", "body", "statement", "commit"}
Undecided    == {"begin", "rollback"} \cup BeforeCommit

(* The statements of a call are recognised by its number: none of an         *)
(* undecided call is durable yet.                                            *)
Numbered(d) ==
    /\ \A x \in ran[d] : x[1] = d
    /\ \A x \in durable \cup session.pending : x[1] = d => x[2] <= calls[d]
    /\ pc[d] \in Undecided => \A x \in durable : x[1] = d => x[2] < calls[d]

(* The depth and the server's transaction count move together: a driver      *)
(* whose future was dropped leaves the depth raised, and no call starts any  *)
(* more that could commit what it left behind.  After a command without an   *)
(* answer the count may be anything that the call's own BEGIN allows.        *)
Counted(d) ==
    /\ pc[d] \in {"begin", "store", "bump"} => depth = 0
    /\ pc[d] \in Entered => depth = 1
    /\ pc[d] \in {"idle", "begin"} /\ depth = 0 /\ session.sure => session.count = 0
    /\ pc[d] \in {"exit", "clear"} /\ session.sure => session.count = 0
    /\ pc[d] \in BeforeCommit => session.count > 0 /\ (session.sure => session.count = 1)

(* Until it is decided, the call's work is in the open transaction.          *)
Held(d) ==
    /\ pc[d] = "begin" => ran[d] = {}
    /\ pc[d] \in BeforeCommit => ran[d] \subseteq session.pending
    /\ pc[d] \in Undecided => outcome[d] = "none" /\ ran[d] \cap durable = {}

Atomic(d) ==
    /\ ran[d] \subseteq durable \/ ran[d] \cap durable = {}
    /\ outcome[d] \in {"err", "unanswered"} => ran[d] \cap durable = {}
    /\ outcome[d] = "ok" /\ session.sure => ran[d] \subseteq durable

AtomicInv == \A d \in Drivers : Numbered(d) /\ Counted(d) /\ Held(d) /\ Atomic(d)

(* A statement of somebody else never counts as a driver's work, and leaves  *)
(* the transaction open or closed as it was.                                 *)
LEMMA OthersKeepAtomic ==
    ASSUME TypeOK, AtomicInv, NEW d \in Drivers, NEW c \in Callers, Operation(c)
    PROVE  Numbered(d)' /\ Counted(d)' /\ Held(d)' /\ Atomic(d)'
<1> USE DEF Goto, runtime, server, locals, counters
<1>0. /\ pc \in [Tasks -> Places] /\ calls \in [Tasks -> 0..MaxCalls]
      /\ d \in Tasks /\ c \in Tasks /\ c # d
      /\ session \in SessionsOver(Statements)
  BY DisjointTasks DEF TypeOK, Tasks, SessionsOver
<1>1. Numbered(d) /\ Counted(d) /\ Held(d) /\ Atomic(d)
  BY DEF AtomicInv
<1>2. UNCHANGED <<depth, ran, outcome>> /\ pc'[d] = pc[d] /\ calls'[d] = calls[d]
  BY <1>0 DEF Operation, StartOperation, OperationRejected, ExecuteOperation
<1>3. CASE UNCHANGED <<session, durable>>
  BY <1>1, <1>2, <1>3 DEF Numbered, Counted, Held, Atomic
<1>4. CASE ExecuteOperation(c)
  <2>1. Statement(c) \in Statements /\ Statement(c)[1] = c
    BY <1>0, StatementTyped DEF Statement
  <2>2. /\ session'.count = session.count /\ session'.sure = session.sure
        /\ session'.pending \subseteq session.pending \cup {Statement(c)}
        /\ session.pending \subseteq session'.pending
        /\ durable' \subseteq durable \cup {Statement(c)}
        /\ durable \subseteq durable'
    <3>1. session.count \in Nat
      BY <1>0 DEF SessionsOver
    <3>2. CASE session.count = 0
      BY <1>0, <1>4, <2>1, <3>2, SessionFields, SessionAnswers DEF ExecuteOperation
    <3>3. CASE session.count > 0
      BY <1>0, <1>4, <2>1, <3>3, SessionFields, SessionAnswers DEF ExecuteOperation
    <3> QED  BY <3>1, <3>2, <3>3
  <2>3. Statement(c) \notin ran[d]
    BY <1>0, <1>1, <2>1 DEF Numbered
  <2>4. Numbered(d)'
    BY <1>0, <1>1, <1>2, <2>1, <2>2 DEF Numbered
  <2>5. Counted(d)'
    BY <1>1, <1>2, <2>2 DEF Counted
  <2>6. Held(d)' /\ Atomic(d)'
    BY <1>1, <1>2, <2>2, <2>3 DEF Held, Atomic
  <2> QED  BY <2>4, <2>5, <2>6
<1> QED  BY <1>3, <1>4 DEF Operation, StartOperation, OperationRejected

(* The driver's own steps, one by one, when it is the only driver.           *)
LEMMA DriverKeepsAtomic ==
    ASSUME TypeOK, AtomicInv,
           NEW d \in Drivers, Opening(d) \/ Closure(d) \/ Closing(d) \/ Cancel(d)
    PROVE  Numbered(d)' /\ Counted(d)' /\ Held(d)' /\ Atomic(d)'
<1> USE DEF Goto, Return, runtime, server, locals, counters
<1>0. /\ pc \in [Tasks -> Places] /\ calls \in [Tasks -> 0..MaxCalls]
      /\ ran \in [Drivers -> SUBSET Statements]
      /\ outcome \in [Drivers -> Outcomes]
      /\ d \in Tasks /\ session \in SessionsOver(Statements) /\ durable \subseteq Statements
      /\ depth \in Nat /\ savedRetry[d] \in BOOLEAN
  BY DEF TypeOK, Tasks, SessionsOver
<1>1. Numbered(d) /\ Counted(d) /\ Held(d) /\ Atomic(d)
  BY DEF AtomicInv
<1>2. /\ session.count \in Nat /\ session.pending \subseteq Statements
      /\ session.retry \in BOOLEAN
  BY <1>0 DEF SessionsOver
<1>3. \A x \in Statements : x[2] \in 0..MaxCalls
  BY DEF Statements
<1>4. Statement(d) \in Statements /\ Statement(d)[1] = d /\ Statement(d)[2] = calls[d]
  BY <1>0, StatementTyped DEF Statement
<1> USE DEF Undecided, BeforeCommit, Entered
<1>5. CASE StartTransaction(d)
  <2>1. /\ UNCHANGED <<depth, session, durable>> /\ calls'[d] = calls[d] + 1
        /\ ran'[d] = {} /\ pc[d] = "idle"
    BY <1>0, <1>5 DEF StartTransaction
  <2>2. \/ depth > 0 /\ pc' = pc /\ outcome'[d] = "err"
        \/ depth = 0 /\ pc'[d] = "begin" /\ outcome'[d] = "none"
    BY <1>0, <1>5 DEF StartTransaction
  <2>3. Numbered(d)'
    BY <1>0, <1>1, <1>2, <1>3, <2>1 DEF Numbered
  <2>4. Counted(d)'
    BY <1>0, <1>1, <2>1, <2>2 DEF Counted
  <2>5. Held(d)' /\ Atomic(d)'
    BY <2>1, <2>2 DEF Held, Atomic
  <2> QED  BY <2>3, <2>4, <2>5
<1>6. CASE BeginRejected(d) \/ BeginFails(d)
  <2>1. /\ UNCHANGED <<depth, session, durable, ran, calls>>
        /\ pc[d] = "begin" /\ pc'[d] = "idle" /\ outcome'[d] = "err"
    BY <1>0, <1>6 DEF BeginRejected, BeginFails
  <2> QED  BY <1>1, <2>1 DEF Numbered, Counted, Held, Atomic
<1>7. CASE BeginUnanswered(d)
  <2>1. /\ UNCHANGED <<depth, durable, ran, calls>>
        /\ pc[d] = "begin" /\ pc'[d] = "idle" /\ outcome'[d] = "unanswered"
    BY <1>0, <1>7 DEF BeginUnanswered
  <2>2. session'.pending = session.pending /\ ~session'.sure
    <3>1. BeginTran(session) \in SessionsOver(Statements)
      BY <1>0, SessionTyped
    <3>2. BeginTran(session).pending = session.pending
      BY <1>0, SessionFields
    <3> QED  BY <1>0, <1>7, <3>1, <3>2, SessionAnswers DEF BeginUnanswered
  <2> QED  BY <1>1, <2>1, <2>2 DEF Numbered, Counted, Held, Atomic
<1>8. CASE Begin(d)
  <2>1. /\ UNCHANGED <<depth, durable, ran, calls, outcome>>
        /\ pc[d] = "begin" /\ pc'[d] = "store"
        /\ session' = WithRetry(BeginTran(session), FALSE)
    BY <1>0, <1>8 DEF Begin
  <2>2. /\ session'.count = session.count + 1 /\ session'.pending = session.pending
        /\ session'.sure = session.sure
    <3>1. BeginTran(session) \in SessionsOver(Statements)
      BY <1>0, SessionTyped
    <3>2. /\ session'.count = BeginTran(session).count
          /\ session'.pending = BeginTran(session).pending
          /\ session'.sure = BeginTran(session).sure
      BY <2>1, <3>1 DEF WithRetry, SessionsOver
    <3> QED  BY <1>0, <3>2, SessionFields, SessionAnswers
  <2>3. session'.count > 0 /\ (session'.sure => session'.count = 1)
    <3>1. session.sure => session.count = 0
      BY <1>1, <2>1 DEF Counted
    <3> QED  BY <1>2, <2>2, <3>1
  <2>4. Numbered(d)'
    BY <1>1, <2>1, <2>2 DEF Numbered
  <2>5. Counted(d)'
    BY <1>1, <2>1, <2>3 DEF Counted
  <2> QED  BY <1>1, <2>1, <2>4, <2>5 DEF Held, Atomic
<1>9. CASE StoreScope(d) \/ BumpDepth(d)
  <2>1. /\ UNCHANGED <<session, durable, ran, calls, outcome>>
        /\ \/ pc[d] = "store" /\ pc'[d] = "bump" /\ depth' = depth
           \/ pc[d] = "bump" /\ pc'[d] = "body" /\ depth' = depth + 1
    BY <1>0, <1>9 DEF StoreScope, BumpDepth
  <2> QED  BY <1>1, <2>1 DEF Numbered, Counted, Held, Atomic
<1>10. ASSUME \/ IssueStatement(d) \/ StatementRejected(d) \/ ClosureReturns(d)
              \/ StatementFails(d) /\ UNCHANGED <<server, ran>>
       PROVE  Numbered(d)' /\ Counted(d)' /\ Held(d)' /\ Atomic(d)'
  <2>1. /\ UNCHANGED <<depth, session, durable, ran, calls, outcome>>
        /\ pc[d] \in {"body", "statement"}
        /\ pc'[d] \in {"body", "statement", "commit", "rollback"}
    BY <1>0, <1>10 DEF IssueStatement, StatementRejected, StatementFails, ClosureReturns
  <2> QED  BY <1>1, <2>1 DEF Numbered, Counted, Held, Atomic
<1>11. ASSUME ExecuteStatement(d) \/ StatementFails(d), Run(d)
       PROVE  Numbered(d)' /\ Counted(d)' /\ Held(d)' /\ Atomic(d)'
  <2>1. /\ UNCHANGED <<depth, calls, outcome>>
        /\ pc[d] = "statement" /\ pc'[d] = "body"
        /\ ran'[d] = ran[d] \cup {Statement(d)}
    BY <1>0, <1>11 DEF ExecuteStatement, StatementFails, Run
  <2>2. /\ session'.count = session.count /\ session'.sure = session.sure
        /\ session'.pending = session.pending \cup {Statement(d)}
        /\ durable' = durable
    <3>1. session.count > 0
      BY <1>1, <2>1 DEF Counted
    <3>2. session' = JoinTran(session, Statement(d))
          /\ durable' = durable \cup AutoCommitted(session, Statement(d))
      BY <1>11 DEF Run
    <3> QED  BY <1>0, <1>4, <3>1, <3>2, SessionFields, SessionAnswers
  <2>3. Statement(d) \notin durable
    BY <1>0, <1>1, <1>4, <2>1 DEF Numbered
  <2>4. Numbered(d)' /\ Counted(d)'
    BY <1>0, <1>1, <1>4, <2>1, <2>2 DEF Numbered, Counted
  <2> QED  BY <1>1, <2>1, <2>2, <2>3, <2>4 DEF Held, Atomic
<1>12. CASE StatementAborts(d)
  <2>1. /\ UNCHANGED <<depth, durable, ran, calls, outcome>>
        /\ pc[d] = "statement" /\ pc'[d] = "rollback"
        /\ session'.count = 0 /\ session'.pending = {}
    BY <1>0, <1>12, SessionFields DEF StatementAborts
  <2> QED  BY <1>1, <2>1 DEF Numbered, Counted, Held, Atomic
<1>13. CASE FinishRejected(d)
  <2>1. /\ UNCHANGED <<depth, session, durable, ran, calls>>
        /\ pc[d] \in {"commit", "rollback"} /\ pc'[d] = "idle" /\ outcome'[d] = "err"
    BY <1>0, <1>13 DEF FinishRejected
  <2> QED  BY <1>1, <2>1 DEF Numbered, Counted, Held, Atomic
(* What a COMMIT that takes effect does: the outermost one makes the whole   *)
(* call durable, an inner one nothing.                                       *)
<1>14. ASSUME pc[d] = "commit"
       PROVE  /\ InTransaction(session) /\ CommitTran(session) \in SessionsOver(Statements)
              /\ \/ /\ session.count = 1 /\ MadeDurable(session) = session.pending
                    /\ CommitTran(session).count = 0 /\ CommitTran(session).pending = {}
                 \/ /\ ~session.sure /\ MadeDurable(session) = {}
                    /\ CommitTran(session).pending = session.pending
  <2>1. session.count > 0 /\ (session.sure => session.count = 1)
    BY <1>1, <1>14 DEF Counted
  <2>2. InTransaction(session)
    BY <2>1 DEF InTransaction
  <2>3. CommitTran(session) \in SessionsOver(Statements)
    BY <1>0, <2>2, SessionTyped
  <2>4. CASE session.count = 1
    BY <1>0, <2>2, <2>3, <2>4, SessionFields
  <2>5. CASE session.count > 1
    <3>1. CommitTran(session).pending = session.pending /\ MadeDurable(session) = {}
      BY <1>0, <2>5, SessionFields
    <3> QED  BY <2>1, <2>2, <2>3, <2>5, <3>1
  <2> QED  BY <1>2, <2>1, <2>4, <2>5
<1>15. CASE Commit(d)
  <2>1. /\ UNCHANGED <<depth, ran, calls>>
        /\ pc[d] = "commit" /\ pc'[d] = "exit"
    BY <1>0, <1>15 DEF Commit
  <2>2. /\ outcome'[d] = "ok" /\ durable' = durable \cup MadeDurable(session)
        /\ session' = WithRetry(CommitTran(session), savedRetry[d])
    BY <1>0, <1>14, <1>15, <2>1 DEF Commit
  <2>3. /\ session'.count = CommitTran(session).count
        /\ session'.pending = CommitTran(session).pending /\ session'.sure = session.sure
    BY <1>0, <1>14, <2>1, <2>2, SessionFields, SessionAnswers
  <2>4. Numbered(d)' /\ Counted(d)'
    BY <1>1, <1>14, <2>1, <2>2, <2>3 DEF Numbered, Counted
  <2> QED  BY <1>1, <1>14, <2>1, <2>2, <2>3, <2>4 DEF Held, Atomic
<1>16. CASE CommitFails(d) \/ Rollback(d)
  <2>1. /\ UNCHANGED <<depth, durable, ran, calls>>
        /\ pc[d] \in {"commit", "rollback"} /\ pc'[d] = "exit" /\ outcome'[d] = "err"
        /\ session' = WithRetry(RollbackTran(session), savedRetry[d])
    BY <1>0, <1>16 DEF CommitFails, Rollback
  <2>2. session'.count = 0 /\ session'.pending = {}
    BY <1>0, <2>1 DEF WithRetry, RollbackTran, SessionsOver
  <2> QED  BY <1>1, <2>1, <2>2 DEF Numbered, Counted, Held, Atomic
<1>17. ASSUME NEW s \in SessionsOver(Statements)
       PROVE  /\ WithRetry(Unsure(s), savedRetry[d]).count = s.count
              /\ WithRetry(Unsure(s), savedRetry[d]).pending = s.pending
              /\ ~WithRetry(Unsure(s), savedRetry[d]).sure
  <2>1. Unsure(s) \in SessionsOver(Statements)
    BY SessionTyped
  <2> QED  BY <1>0, <2>1, SessionFields, SessionAnswers
<1>18. RollbackTran(session) \in SessionsOver(Statements) /\ RollbackTran(session).pending = {}
  BY <1>0, SessionFields, SessionTyped
<1>19. CASE RollbackUnanswered(d)
  <2>1. /\ UNCHANGED <<depth, durable, ran, calls>>
        /\ pc[d] = "rollback" /\ pc'[d] = "exit" /\ outcome'[d] = "unanswered"
    BY <1>0, <1>19 DEF RollbackUnanswered
  <2>2. session'.pending \subseteq session.pending /\ ~session'.sure
    BY <1>0, <1>17, <1>18, <1>19 DEF RollbackUnanswered
  <2> QED  BY <1>1, <2>1, <2>2 DEF Numbered, Counted, Held, Atomic
<1>20. CASE CommitUnanswered(d)
  <2>1. /\ UNCHANGED <<depth, ran, calls>>
        /\ pc[d] = "commit" /\ pc'[d] = "exit" /\ outcome'[d] = "unknown"
    BY <1>0, <1>20 DEF CommitUnanswered
  <2>2. /\ session'.pending \subseteq session.pending /\ ~session'.sure
        /\ durable' = durable \/ durable' = durable \cup MadeDurable(session)
    <3>1. CASE \E s \in {session, RollbackTran(session)} :
                  session' = WithRetry(Unsure(s), savedRetry[d]) /\ UNCHANGED durable
      BY <1>0, <1>17, <1>18, <3>1
    <3>2. CASE /\ session' = WithRetry(Unsure(CommitTran(session)), savedRetry[d])
               /\ durable' = durable \cup MadeDurable(session)
      BY <1>14, <1>17, <2>1, <3>2
    <3> QED  BY <1>20, <3>1, <3>2 DEF CommitUnanswered
  <2> QED  BY <1>1, <1>14, <2>1, <2>2 DEF Numbered, Counted, Held, Atomic
<1>21. CASE ExitDepth(d) \/ ClearScope(d)
  <2>1. /\ UNCHANGED <<session, durable, ran, calls, outcome>>
        /\ \/ pc[d] = "exit" /\ pc'[d] = "clear"
           \/ pc[d] = "clear" /\ pc'[d] = "idle"
    BY <1>0, <1>21 DEF ExitDepth, ClearScope
  <2> QED  BY <1>1, <2>1 DEF Numbered, Counted, Held, Atomic
<1>22. CASE Cancel(d)
  <2>1. /\ UNCHANGED <<depth, ran, calls>>
        /\ pc[d] \in {"begin", "body", "statement", "commit", "rollback"} /\ pc'[d] = "idle"
        /\ outcome'[d] = "cancelled"
    BY <1>0, <1>22 DEF Cancel
  <2>2. pc[d] # "begin" => depth = 1
    BY <1>1, <2>1 DEF Counted
  <2>3. CASE UNCHANGED server
    BY <1>1, <2>1, <2>2, <2>3 DEF Numbered, Counted, Held, Atomic
  <2>4. CASE server' # server
    <3>1. /\ session' = Unsure(InFlight(d))
          /\ durable' = durable \cup
               CASE pc[d] = "commit"    -> MadeDurable(session)
                 [] pc[d] = "statement" -> AutoCommitted(session, Statement(d))
                 [] OTHER               -> {}
      BY <1>22, <2>4 DEF Cancel
    <3>2. /\ session'.pending = InFlight(d).pending /\ ~session'.sure
      <4>1. InFlight(d) \in SessionsOver(Statements)
        BY <1>0, <1>4, SessionTyped DEF InFlight
      <4> QED  BY <3>1, <4>1, SessionAnswers
    <3>3. CASE pc[d] = "commit"
      <4>1. /\ session'.pending \subseteq session.pending
            /\ durable' = durable \cup MadeDurable(session)
        BY <1>14, <3>1, <3>2, <3>3 DEF InFlight
      <4> QED  BY <1>1, <1>14, <2>1, <2>2, <3>2, <3>3, <4>1 DEF Numbered, Counted, Held, Atomic
    <3>4. CASE pc[d] = "statement"
      <4>1. session.count > 0
        BY <1>1, <3>4 DEF Counted
      <4>2. /\ session'.pending = session.pending \cup {Statement(d)}
            /\ durable' = durable
        BY <1>0, <1>4, <3>1, <3>2, <3>4, <4>1, SessionFields DEF InFlight
      <4> QED  BY <1>0, <1>1, <1>4, <2>1, <2>2, <3>2, <3>4, <4>2
               DEF Numbered, Counted, Held, Atomic
    <3>5. CASE pc[d] \in {"begin", "body", "rollback"}
      <4>1. session'.pending \subseteq session.pending /\ durable' = durable
        BY <1>0, <3>1, <3>2, <3>5, SessionFields DEF InFlight
      <4> QED  BY <1>1, <2>1, <2>2, <3>2, <3>5, <4>1 DEF Numbered, Counted, Held, Atomic
    <3> QED  BY <2>1, <3>3, <3>4, <3>5
  <2> QED  BY <2>3, <2>4
<1>23. CASE ExecuteStatement(d) \/ StatementFails(d)
  BY <1>10, <1>11, <1>23 DEF ExecuteStatement, StatementFails
<1> QED  BY <1>5, <1>6, <1>7, <1>8, <1>9, <1>10, <1>12, <1>13, <1>15, <1>16, <1>19, <1>20,
            <1>21, <1>22, <1>23
         DEF Opening, Closure, Closing

(* With one driver, its own steps and everybody else's keep the invariant.   *)
LEMMA AtomicInvariance ==
    ASSUME \A d, e \in Drivers : d = e
    PROVE  Spec => []AtomicInv
<1>1. Init => AtomicInv
  BY DEF Init, AtomicInv, Numbered, Counted, Held, Atomic, Tasks, FreshSession, Entered,
         Undecided, BeforeCommit
<1>2. TypeOK /\ AtomicInv /\ [Next]_vars => AtomicInv'
  <2> SUFFICES ASSUME TypeOK, AtomicInv, [Next]_vars, NEW d \in Drivers
               PROVE  Numbered(d)' /\ Counted(d)' /\ Held(d)' /\ Atomic(d)'
    BY DEF AtomicInv
  <2>1. Numbered(d) /\ Counted(d) /\ Held(d) /\ Atomic(d)
    BY DEF AtomicInv
  <2>2. ASSUME NEW t \in Tasks, Lock(t)
        PROVE  Numbered(d)' /\ Counted(d)' /\ Held(d)' /\ Atomic(d)'
    <3>1. UNCHANGED <<depth, session, durable, pc, ran, outcome, calls>>
      BY <2>2 DEF Lock, CheckScope, Enqueue, runtime, server, locals, counters
    <3> QED  BY <2>1, <3>1 DEF Numbered, Counted, Held, Atomic
  <2>3. ASSUME NEW e \in Drivers, Opening(e) \/ Closure(e) \/ Closing(e) \/ Cancel(e)
        PROVE  Numbered(d)' /\ Counted(d)' /\ Held(d)' /\ Atomic(d)'
    <3>1. e = d
      OBVIOUS
    <3> QED  BY <2>3, <3>1, DriverKeepsAtomic
  <2>4. ASSUME NEW c \in Callers, Operation(c)
        PROVE  Numbered(d)' /\ Counted(d)' /\ Held(d)' /\ Atomic(d)'
    BY <2>4, OthersKeepAtomic
  <2>5. CASE UNCHANGED vars
    BY <2>1, <2>5 DEF vars, runtime, server, locals, counters, Numbered, Counted, Held, Atomic
  <2> QED  BY <2>2, <2>3, <2>4, <2>5 DEF Next
<1> QED  BY <1>1, <1>2, TypeCorrect, PTL DEF Spec

(* The contract of db.transaction on a direct connection that one task       *)
(* drives.  Whatever is refused, goes unanswered or is dropped, and however  *)
(* many calls and statements are made: a call is durable as a whole or not   *)
(* at all, an Err that does not come from an unanswered COMMIT means not at  *)
(* all, and an Ok as a whole unless an earlier BEGIN, COMMIT or ROLLBACK got *)
(* no answer.                                                                *)
THEOREM AtomicWithOneDriver ==
    ASSUME \A d, e \in Drivers : d = e
    PROVE  Spec => []AllOrNothing
<1>1. Spec => []AtomicInv
  BY AtomicInvariance
<1>2. AtomicInv => AllOrNothing
  BY DEF AtomicInv, Atomic, AllOrNothing
<1> QED  BY <1>1, <1>2, PTL

-----------------------------------------------------------------------------
(* What the runtime says of the connection *)

(* Retries are off from BEGIN to the end of the transaction, with the        *)
(* configured options kept aside; before and after, scope and options are    *)
(* the configured ones.                                                      *)
Truthful(d) ==
    /\ pc[d] # "operation"
    /\ pc[d] \in BeforeCommit \cup {"rollback"} => ~session.retry /\ savedRetry[d]
    /\ pc[d] \in {"idle", "begin"} /\ depth = 0 => activeScope = 0 /\ session.retry
    /\ pc[d] \in {"exit", "clear"} => session.retry
    /\ pc[d] = "clear" => depth = 0

(* What the driver has been told, and that its call's own transaction holds  *)
(* exactly the statements the server executed for it.                        *)
OfDrivers(statements) == {s \in statements : s[1] \in Drivers}
Told(d) ==
    /\ session.count = 0 => session.pending = {}
    /\ pc[d] = "idle" /\ outcome[d] = "none" => calls[d] = 0
    /\ pc[d] # "idle" => calls[d] > 0
    /\ pc[d] = "statement" => issued[d] > 0
    /\ pc[d] \in {"exit", "clear"} => outcome[d] # "none"
    /\ pc[d] \in BeforeCommit /\ session.count = 1 => OfDrivers(session.pending) = ran[d]

(* An outer operation neither touches the options nor a driver's statement.  *)
LEMMA OthersKeepTruth ==
    ASSUME TypeOK, NEW d \in Drivers, Truthful(d), Told(d),
           \/ \E t \in Tasks : Lock(t)
           \/ \E c \in Callers : Operation(c)
           \/ UNCHANGED vars
    PROVE  /\ Truthful(d)' /\ Told(d)'
           /\ UNCHANGED <<calls[d], outcome[d], ran[d]>>
           /\ OfDrivers(durable') = OfDrivers(durable) /\ session'.sure = session.sure
<1> USE DEF Goto, runtime, server, locals, counters
<1>0. /\ pc \in [Tasks -> Places] /\ calls \in [Tasks -> 0..MaxCalls]
      /\ d \in Tasks /\ session \in SessionsOver(Statements) /\ Callers \subseteq Tasks
  BY DEF TypeOK, Tasks, SessionsOver
<1>1. ASSUME NEW t \in Tasks, Lock(t)
      PROVE  UNCHANGED <<runtime, server, pc, locals, counters>>
  BY <1>1 DEF Lock, CheckScope, Enqueue
<1>2. ASSUME NEW c \in Callers, Operation(c)
      PROVE  /\ UNCHANGED <<runtime, locals, issued>> /\ pc'[d] = pc[d] /\ calls'[d] = calls[d]
             /\ \/ UNCHANGED server
                \/ /\ session' = JoinTran(session, Statement(c))
                   /\ durable' = durable \cup AutoCommitted(session, Statement(c))
  BY <1>0, <1>2, DisjointTasks DEF Operation, StartOperation, OperationRejected,
     ExecuteOperation
<1>3. CASE UNCHANGED vars
  BY <1>3 DEF vars, Truthful, Told
<1>4. ASSUME NEW c \in Callers, Operation(c)
      PROVE  /\ session'.count = session.count /\ session'.retry = session.retry
             /\ session'.sure = session.sure
             /\ session.count = 0 => session'.pending = session.pending
             /\ OfDrivers(session'.pending) = OfDrivers(session.pending)
             /\ OfDrivers(durable') = OfDrivers(durable)
  <2>1. Statement(c)[1] \notin Drivers /\ Statement(c) \in Statements
    BY <1>0, DisjointTasks, StatementTyped DEF Statement
  <2>2. CASE UNCHANGED server
    BY <2>2
  <2>3. CASE /\ session' = JoinTran(session, Statement(c))
             /\ durable' = durable \cup AutoCommitted(session, Statement(c))
    <3>1. session.count \in Nat
      BY <1>0 DEF SessionsOver
    <3>2. CASE session.count = 0
      <4>1. session' = session /\ durable' = durable \cup {Statement(c)}
        BY <2>3, <3>2 DEF JoinTran, AutoCommitted, InTransaction
      <4> QED  BY <2>1, <4>1 DEF OfDrivers
    <3>3. CASE session.count > 0
      <4>1. /\ session' = [session EXCEPT !.pending = session.pending \cup {Statement(c)}]
            /\ durable' = durable
        BY <2>3, <3>3 DEF JoinTran, AutoCommitted, InTransaction
      <4>2. /\ session'.count = session.count /\ session'.retry = session.retry
            /\ session'.pending = session.pending \cup {Statement(c)}
            /\ session'.sure = session.sure
        BY <1>0, <4>1 DEF SessionsOver
      <4> QED  BY <2>1, <3>3, <4>1, <4>2 DEF OfDrivers
    <3> QED  BY <3>1, <3>2, <3>3
  <2> QED  BY <1>2, <1>4, <2>2, <2>3
<1>5. ASSUME NEW c \in Callers, Operation(c)
      PROVE  Truthful(d)' /\ Told(d)'
  BY <1>2, <1>4, <1>5 DEF Truthful, Told
<1>6. ASSUME NEW t \in Tasks, Lock(t)
      PROVE  Truthful(d)' /\ Told(d)'
  BY <1>1, <1>6 DEF Truthful, Told
<1> QED  BY <1>1, <1>2, <1>3, <1>4, <1>5, <1>6 DEF vars

(* The driver's own steps, one by one: BEGIN keeps the configured options    *)
(* aside, and every way out that is not a dropped future puts them back and  *)
(* clears the scope.                                                         *)
LEMMA DriverKeepsTruth ==
    ASSUME TypeOK, NEW d \in Drivers, Truthful(d), Told(d), Counted(d), Held(d),
           Opening(d) \/ Closure(d) \/ Closing(d) \/ Cancel(d)
    PROVE  Truthful(d)' /\ Told(d)'
<1> USE DEF Goto, Return, runtime, server, locals, counters
<1>0. /\ pc \in [Tasks -> Places] /\ calls \in [Tasks -> 0..MaxCalls]
      /\ issued \in [Tasks -> 0..MaxStatements]
      /\ ran \in [Drivers -> SUBSET Statements]
      /\ outcome \in [Drivers -> Outcomes]
      /\ savedRetry \in [Drivers -> BOOLEAN]
      /\ d \in Tasks /\ session \in SessionsOver(Statements)
  BY DEF TypeOK, Tasks, SessionsOver
<1>1. /\ depth \in Nat /\ savedRetry[d] \in BOOLEAN /\ calls[d] \in Nat /\ issued[d] \in Nat
      /\ session.count \in Nat /\ session.retry \in BOOLEAN
  BY <1>0, BoundsAssumption DEF TypeOK, SessionsOver
<1> USE DEF Undecided, BeforeCommit, Entered
<1>2. CASE StartTransaction(d)
  <2>1. /\ UNCHANGED <<depth, activeScope, session>> /\ calls'[d] = calls[d] + 1
        /\ pc[d] = "idle"
        /\ \/ depth > 0 /\ pc'[d] = "idle" /\ outcome'[d] = "err"
           \/ depth = 0 /\ pc'[d] = "begin" /\ outcome'[d] = "none"
    BY <1>0, <1>2 DEF StartTransaction
  <2> QED  BY <1>1, <2>1 DEF Truthful, Told
<1>3. CASE BeginRejected(d) \/ BeginFails(d)
  <2>1. /\ UNCHANGED <<depth, activeScope, session, calls>>
        /\ pc[d] = "begin" /\ pc'[d] = "idle" /\ outcome'[d] = "err"
    BY <1>0, <1>3 DEF BeginRejected, BeginFails
  <2> QED  BY <2>1 DEF Truthful, Told
(* What a BEGIN that the server receives leaves of the session.              *)
<1>4. /\ BeginTran(session) \in SessionsOver(Statements)
      /\ BeginTran(session).count = session.count + 1
      /\ BeginTran(session).pending = session.pending
      /\ BeginTran(session).retry = session.retry
  BY <1>0, SessionTyped, SessionFields, SessionAnswers
<1>5. CASE BeginUnanswered(d)
  <2>1. /\ UNCHANGED <<depth, activeScope, calls>>
        /\ pc[d] = "begin" /\ pc'[d] = "idle" /\ outcome'[d] = "unanswered"
    BY <1>0, <1>5 DEF BeginUnanswered
  <2>2. PICK s \in {session, BeginTran(session)} : session' = Unsure(s)
    BY <1>5 DEF BeginUnanswered
  <2>3. session'.count = s.count /\ session'.pending = s.pending /\ session'.retry = s.retry
    BY <1>0, <1>4, <2>2, SessionAnswers
  <2>4. session'.retry = session.retry /\ (session'.count = 0 => session'.pending = {})
    BY <1>1, <1>4, <2>2, <2>3 DEF Told
  <2> QED  BY <2>1, <2>4 DEF Truthful, Told
<1>6. CASE Begin(d)
  <2>1. /\ UNCHANGED <<depth, activeScope, calls, outcome, ran>>
        /\ pc[d] = "begin" /\ pc'[d] = "store" /\ savedRetry'[d] = session.retry
        /\ session' = WithRetry(BeginTran(session), FALSE)
    BY <1>0, <1>6 DEF Begin
  <2>2. depth = 0 /\ session.retry /\ ran[d] = {}
    BY <2>1 DEF Counted, Truthful, Held
  <2>3. /\ session'.count = session.count + 1 /\ session'.pending = session.pending
        /\ ~session'.retry
    BY <1>4, <2>1 DEF WithRetry, SessionsOver
  <2>4. session'.count = 1 => session'.pending = {}
    BY <1>1, <2>3 DEF Told
  <2>5. session'.count # 0
    BY <1>1, <2>3
  <2> QED  BY <2>1, <2>2, <2>3, <2>4, <2>5 DEF Truthful, Told, OfDrivers
<1>7. CASE StoreScope(d) \/ BumpDepth(d)
  <2>1. /\ UNCHANGED <<session, savedRetry, calls, outcome, ran>>
        /\ pc[d] \in {"store", "bump"} /\ pc'[d] \in {"bump", "body"}
    BY <1>0, <1>7 DEF StoreScope, BumpDepth
  <2> QED  BY <2>1 DEF Truthful, Told
<1>8. ASSUME \/ IssueStatement(d) \/ StatementRejected(d) \/ ClosureReturns(d)
             \/ StatementFails(d) /\ UNCHANGED <<server, ran>>
      PROVE  Truthful(d)' /\ Told(d)'
  <2>1. /\ UNCHANGED <<session, savedRetry, calls, outcome, ran>>
        /\ pc[d] \in {"body", "statement"}
        /\ pc'[d] \in {"statement", "body", "commit", "rollback"}
        /\ pc'[d] = "statement" => issued'[d] = issued[d] + 1
    BY <1>0, <1>8 DEF IssueStatement, StatementRejected, StatementFails, ClosureReturns
  <2> QED  BY <1>1, <2>1 DEF Truthful, Told
<1>9. ASSUME ExecuteStatement(d) \/ StatementFails(d), Run(d)
      PROVE  Truthful(d)' /\ Told(d)'
  <2>1. /\ UNCHANGED <<savedRetry, calls, outcome>>
        /\ pc[d] = "statement" /\ pc'[d] = "body" /\ ran'[d] = ran[d] \cup {Statement(d)}
        /\ session' = JoinTran(session, Statement(d))
    BY <1>0, <1>9 DEF ExecuteStatement, StatementFails, Run
  <2>2. Statement(d) \in Statements /\ Statement(d)[1] \in Drivers /\ session.count > 0
    BY <1>0, <2>1, StatementTyped DEF Statement, Counted
  <2>3. /\ session'.count = session.count /\ session'.retry = session.retry
        /\ session'.pending = session.pending \cup {Statement(d)}
    BY <1>0, <2>1, <2>2, SessionFields, SessionAnswers
  <2>4. session'.count = 1 => OfDrivers(session'.pending) = ran'[d]
    BY <2>1, <2>2, <2>3 DEF Told, OfDrivers
  <2>5. UNCHANGED <<depth, activeScope>>
    BY <1>9 DEF ExecuteStatement, StatementFails
  <2>6. Truthful(d)'
    BY <1>1, <2>1, <2>3, <2>5 DEF Truthful
  <2>7. Told(d)'
    BY <1>1, <2>1, <2>2, <2>3, <2>4 DEF Told
  <2> QED  BY <2>6, <2>7
<1>10. CASE StatementAborts(d)
  <2>1. /\ UNCHANGED <<savedRetry, calls, outcome>>
        /\ pc[d] = "statement" /\ pc'[d] = "rollback"
        /\ session'.pending = {} /\ session'.retry = session.retry
    BY <1>0, <1>10, SessionFields, SessionAnswers DEF StatementAborts
  <2> QED  BY <2>1 DEF Truthful, Told
<1>11. CASE FinishRejected(d)
  <2>1. /\ UNCHANGED <<session, calls, depth>>
        /\ pc[d] \in {"commit", "rollback"} /\ pc'[d] = "idle" /\ outcome'[d] = "err"
    BY <1>0, <1>11 DEF FinishRejected
  <2>2. depth = 1
    BY <2>1 DEF Counted
  <2> QED  BY <2>1, <2>2 DEF Truthful, Told
(* Whatever COMMIT and ROLLBACK do, the saved options come back, and a        *)
(* transaction that has ended holds nothing.                                 *)
<1>12. ASSUME NEW s \in SessionsOver(Statements), s.count = 0 => s.pending = {},
              /\ calls' = calls /\ pc[d] \in {"commit", "rollback"} /\ pc'[d] = "exit"
              /\ outcome'[d] # "none"
              /\ \/ session' = WithRetry(s, savedRetry[d])
                 \/ session' = WithRetry(Unsure(s), savedRetry[d])
       PROVE  Truthful(d)' /\ Told(d)'
  <2>1. savedRetry[d]
    BY <1>12 DEF Truthful
  <2>2. PICK r \in {s, Unsure(s)} : session' = WithRetry(r, savedRetry[d])
    BY <1>12
  <2>3. r \in SessionsOver(Statements) /\ r.count = s.count /\ r.pending = s.pending
    <3>1. Unsure(s) \in SessionsOver(Statements)
      BY SessionTyped
    <3>2. Unsure(s).count = s.count /\ Unsure(s).pending = s.pending
      BY SessionAnswers
    <3> QED  BY <2>2, <3>1, <3>2
  <2>4. session'.retry /\ session'.count = s.count /\ session'.pending = s.pending
    BY <2>1, <2>2, <2>3 DEF WithRetry, SessionsOver
  <2> QED  BY <1>12, <2>4, ZenonT(40) DEF Truthful, Told
<1>13. /\ RollbackTran(session) \in SessionsOver(Statements)
       /\ RollbackTran(session).pending = {}
       /\ session.count = 0 => session.pending = {}
  BY <1>0, SessionTyped, SessionFields DEF Told
<1>14. ASSUME pc[d] = "commit"
       PROVE  /\ InTransaction(session) /\ CommitTran(session) \in SessionsOver(Statements)
              /\ CommitTran(session).count = 0 => CommitTran(session).pending = {}
              /\ CommitTran(session).retry = session.retry
  <2>1. session.count > 0
    BY <1>14 DEF Counted
  <2>2. InTransaction(session)
    BY <2>1 DEF InTransaction
  <2>3. /\ CommitTran(session) \in SessionsOver(Statements)
        /\ CommitTran(session).retry = session.retry
    BY <1>0, <2>2, SessionTyped, SessionAnswers
  <2>4. CASE session.count = 1
    BY <1>0, <2>2, <2>3, <2>4, SessionFields
  <2>5. CASE session.count > 1
    <3>1. CommitTran(session).count = session.count - 1
      BY <1>0, <2>5, SessionFields
    <3> QED  BY <1>1, <2>2, <2>3, <2>5, <3>1
  <2> QED  BY <1>1, <2>1, <2>4, <2>5
<1>15. CASE Commit(d)
  <2>1. pc[d] = "commit" /\ pc'[d] = "exit" /\ calls' = calls
    BY <1>0, <1>15 DEF Commit
  <2>2. session' = WithRetry(CommitTran(session), savedRetry[d]) /\ outcome'[d] = "ok"
    BY <1>0, <1>14, <1>15, <2>1 DEF Commit
  <2> QED  BY <1>12, <1>14, <2>1, <2>2
<1>16. CASE CommitFails(d) \/ Rollback(d)
  <2>1. /\ calls' = calls /\ pc[d] \in {"commit", "rollback"} /\ pc'[d] = "exit"
        /\ outcome'[d] = "err" /\ session' = WithRetry(RollbackTran(session), savedRetry[d])
    BY <1>0, <1>16 DEF CommitFails, Rollback
  <2> QED  BY <1>12, <1>13, <2>1
<1>17. CASE RollbackUnanswered(d)
  <2>1. /\ calls' = calls /\ pc[d] = "rollback" /\ pc'[d] = "exit"
        /\ outcome'[d] = "unanswered"
    BY <1>0, <1>17 DEF RollbackUnanswered
  <2>2. PICK s \in {session, RollbackTran(session)} :
           session' = WithRetry(Unsure(s), savedRetry[d])
    BY <1>17 DEF RollbackUnanswered
  <2>3. s \in SessionsOver(Statements) /\ (s.count = 0 => s.pending = {})
    BY <1>0, <1>13, <2>2
  <2> QED  BY <1>12, <2>1, <2>2, <2>3
<1>18. CASE CommitUnanswered(d)
  <2>1. /\ calls' = calls /\ pc[d] = "commit" /\ pc'[d] = "exit"
        /\ outcome'[d] = "unknown"
    BY <1>0, <1>18 DEF CommitUnanswered
  <2>2. PICK s \in {session, RollbackTran(session), CommitTran(session)} :
           session' = WithRetry(Unsure(s), savedRetry[d])
    BY <1>18 DEF CommitUnanswered
  <2>3. s \in SessionsOver(Statements) /\ (s.count = 0 => s.pending = {})
    BY <1>0, <1>13, <1>14, <2>1, <2>2
  <2> QED  BY <1>12, <2>1, <2>2, <2>3
<1>19. CASE ExitDepth(d)
  <2>1. /\ UNCHANGED <<session, calls, outcome>> /\ pc[d] = "exit" /\ pc'[d] = "clear"
        /\ depth' = IF depth = 0 THEN 0 ELSE depth - 1
    BY <1>0, <1>19 DEF ExitDepth
  <2>2. depth' = 0
    BY <2>1 DEF Counted
  <2> QED  BY <2>1, <2>2 DEF Truthful, Told
<1>20. CASE ClearScope(d)
  <2>1. /\ UNCHANGED <<session, calls, outcome>> /\ pc[d] = "clear" /\ pc'[d] = "idle"
        /\ activeScope' = 0
    BY <1>0, <1>20 DEF ClearScope
  <2> QED  BY <2>1 DEF Truthful, Told
<1>21. CASE Cancel(d)
  <2>1. UNCHANGED <<depth, activeScope, calls>> /\ pc'[d] = "idle" /\ outcome'[d] = "cancelled"
    BY <1>0, <1>21 DEF Cancel
  <2>2. pc[d] \in {"body", "statement", "commit", "rollback", "begin"}
    BY <1>21 DEF Cancel
  <2>3. /\ pc[d] = "begin" => session'.retry = session.retry
        /\ session'.count = 0 => session'.pending = {}
    <3>1. Statement(d) \in Statements
      BY <1>0, StatementTyped
    <3>2. InFlight(d) \in SessionsOver(Statements)
      BY <1>0, <3>1, SessionTyped DEF InFlight
    <3>3. \/ session' = session
          \/ /\ session'.count = InFlight(d).count /\ session'.pending = InFlight(d).pending
             /\ session'.retry = InFlight(d).retry
      BY <1>21, <3>2, SessionAnswers DEF Cancel
    <3>4. CASE pc[d] = "begin"
      BY <1>1, <1>4, <1>13, <3>3, <3>4 DEF InFlight
    <3>5. CASE pc[d] = "statement"
      <4>1. session.count # 0
        BY <1>1, <3>5 DEF Counted
      <4> QED  BY <1>0, <1>13, <3>1, <3>3, <3>5, <4>1, SessionFields DEF InFlight
    <3>6. CASE pc[d] = "commit"
      BY <1>13, <1>14, <3>3, <3>6 DEF InFlight
    <3>7. CASE pc[d] \in {"body", "rollback"}
      BY <1>13, <3>3, <3>7 DEF InFlight
    <3> QED  BY <2>2, <3>4, <3>5, <3>6, <3>7
  <2>4. pc[d] # "begin" => depth = 1
    BY <2>2 DEF Counted
  <2>5. pc[d] = "begin" => activeScope = 0 /\ session.retry
    BY DEF Truthful, Counted
  <2> QED  BY <2>1, <2>3, <2>4, <2>5 DEF Truthful, Told
<1>22. CASE ExecuteStatement(d) \/ StatementFails(d)
  BY <1>8, <1>9, <1>22 DEF ExecuteStatement, StatementFails
<1> QED  BY <1>2, <1>3, <1>5, <1>6, <1>7, <1>8, <1>10, <1>11, <1>15, <1>16, <1>17, <1>18,
            <1>19, <1>20, <1>21, <1>22
         DEF Opening, Closure, Closing

TruthInv == \A d \in Drivers : Truthful(d) /\ Told(d)

(* With one driver, its own steps and everybody else's keep what is known of *)
(* the options, the scope and the answers.                                   *)
LEMMA TruthInvariance ==
    ASSUME \A d, e \in Drivers : d = e
    PROVE  Spec => []TruthInv
<1>1. Init => TruthInv
  BY DEF Init, TruthInv, Truthful, Told, Tasks, FreshSession, BeforeCommit
<1>2. TypeOK /\ AtomicInv /\ TruthInv /\ [Next]_vars => TruthInv'
  <2> SUFFICES ASSUME TypeOK, AtomicInv, TruthInv, [Next]_vars, NEW d \in Drivers
               PROVE  Truthful(d)' /\ Told(d)'
    BY DEF TruthInv
  <2>1. Truthful(d) /\ Told(d) /\ Counted(d) /\ Held(d)
    BY DEF TruthInv, AtomicInv
  <2>2. ASSUME NEW e \in Drivers, Opening(e) \/ Closure(e) \/ Closing(e) \/ Cancel(e)
        PROVE  Truthful(d)' /\ Told(d)'
    <3>1. e = d
      OBVIOUS
    <3> QED  BY <2>1, <2>2, <3>1, DriverKeepsTruth
  <2> QED  BY <2>1, <2>2, OthersKeepTruth DEF Next
<1>3. Spec => []AtomicInv
  BY AtomicInvariance
<1> QED  BY <1>1, <1>2, <1>3, TypeCorrect, PTL DEF Spec

(* With one driver, retries are off whenever its closure executes a          *)
(* statement; and whenever is_transaction_active() answers false between     *)
(* calls the shared connection has no scope, its configured retries, and no  *)
(* open transaction but one that an unanswered command may have left.        *)
THEOREM RuntimeIsTruthful ==
    ASSUME NEW driver, Drivers = {driver}
    PROVE  Spec => []RuntimeTruthful
<1>0. \A d, e \in Drivers : d = e
  OBVIOUS
<1>1. Spec => []TruthInv /\ []AtomicInv
  BY <1>0, TruthInvariance, AtomicInvariance
<1>2. TypeOK /\ TruthInv /\ AtomicInv => RuntimeTruthful
  <2> SUFFICES ASSUME TypeOK, TruthInv, AtomicInv
               PROVE  RuntimeTruthful
    OBVIOUS
  <2>1. driver \in Drivers /\ Truthful(driver) /\ Counted(driver) /\ pc[driver] \in Places
    BY DEF TruthInv, AtomicInv, TypeOK, Tasks
  <2>2. RetryOffInTransaction
    BY DEF TruthInv, Truthful, RetryOffInTransaction, BeforeCommit
  <2>3. FreeRuntimeIsClean
    <3> SUFFICES ASSUME depth = 0, pc[driver] \notin {"store", "bump", "clear"}
                 PROVE  /\ activeScope = 0 /\ session.retry
                        /\ InTransaction(session) => ~session.sure
      BY <2>1 DEF FreeRuntimeIsClean
    <3>1. pc[driver] \in {"idle", "begin"}
      BY <2>1 DEF Places, Locking, Entered, Counted, Truthful
    <3> QED  BY <2>1, <3>1 DEF Counted, Truthful, InTransaction
  <2> QED  BY <2>2, <2>3 DEF RuntimeTruthful
<1> QED  BY <1>1, <1>2, TypeCorrect, PTL

-----------------------------------------------------------------------------
(* Refinement of the contract *)

Verdict(d) ==
    IF outcome[d] = "none" THEN IF calls[d] = 0 THEN "idle" ELSE "open" ELSE outcome[d]
Effects == OfDrivers(durable)

(* A step of the only driver is a step of the contract when it calls, works, *)
(* ends with or without effect, with an answer that fits what is in doubt.   *)
LEMMA ContractSteps ==
    ASSUME TypeOK, TypeOK', NEW d \in Drivers, \A e \in Drivers : e = d,
           \/ /\ Verdict(d) # "open" /\ Verdict(d)' \in {"open", "err"}
              /\ ran'[d] = {} /\ Effects' = Effects /\ session'.sure = session.sure
           \/ /\ Verdict(d) = "open" /\ Verdict(d)' = "open" /\ Effects' = Effects
              /\ 1 <= calls[d] /\ 1 <= issued[d] /\ ran'[d] = ran[d] \cup {Statement(d)}
              /\ session'.sure = session.sure
           \/ /\ Verdict(d) = "open" /\ ran'[d] = ran[d]
              /\ \/ /\ Verdict(d)' = "ok" /\ session'.sure = session.sure
                    /\ \/ Effects' = Effects \cup ran[d]
                       \/ Effects' = Effects /\ ~session.sure
                 \/ /\ Verdict(d)' = "err" /\ session'.sure = session.sure
                    /\ Effects' = Effects
                 \/ /\ Verdict(d)' = "unanswered" /\ ~session'.sure /\ Effects' = Effects
                 \/ /\ Verdict(d)' = "unknown" /\ ~session'.sure
                    /\ Effects' = Effects \/ Effects' = Effects \cup ran[d]
                 \/ /\ Verdict(d)' = "cancelled"
                    /\ session'.sure = session.sure \/ ~session'.sure
                    /\ Effects' = Effects \/ Effects' = Effects \cup ran[d]
    PROVE  Contract!Next
<1> DEFINE verdict == [e \in Drivers |-> Verdict(e)]
           verdict1 == [e \in Drivers |-> Verdict(e)']
           doubt == ~session.sure
           doubt1 == ~session'.sure
<1>1. verdict1 = [verdict EXCEPT ![d] = Verdict(d)']
  OBVIOUS
<1>2. ran' = [ran EXCEPT ![d] = ran'[d]] /\ ran \in [Drivers -> SUBSET Statements]
  BY DEF TypeOK
<1>3. /\ verdict[d] = Verdict(d)
      /\ verdict = [e \in Drivers |->
            IF outcome[e] = "none" THEN IF calls[e] = 0 THEN "idle" ELSE "open" ELSE outcome[e]]
      /\ verdict1 = [e \in Drivers |->
            IF outcome'[e] = "none" THEN IF calls'[e] = 0 THEN "idle" ELSE "open"
            ELSE outcome'[e]]
      /\ Effects = {s \in durable : s[1] \in Drivers}
      /\ Effects' = {s \in durable' : s[1] \in Drivers}
  BY DEF Verdict, Effects, OfDrivers
<1>4. /\ doubt = ~session.sure /\ doubt1 = ~session'.sure
      /\ doubt \in BOOLEAN /\ doubt1 \in BOOLEAN
  BY Zenon
<1> HIDE DEF verdict, verdict1
<1>5. CASE /\ Verdict(d) # "open" /\ Verdict(d)' \in {"open", "err"}
           /\ ran'[d] = {} /\ Effects' = Effects /\ session'.sure = session.sure
  <2>1. Contract!Call(d)
    BY <1>1, <1>2, <1>3, <1>5 DEF Contract!Call
  <2> QED  BY <2>1 DEF Contract!Next
<1>6. CASE /\ Verdict(d) = "open" /\ Verdict(d)' = "open" /\ Effects' = Effects
           /\ 1 <= calls[d] /\ 1 <= issued[d] /\ ran'[d] = ran[d] \cup {Statement(d)}
           /\ session'.sure = session.sure
  <2>1. d \in Tasks /\ calls[d] \in 1..MaxCalls /\ issued[d] \in 1..MaxStatements
    BY <1>6, BoundsAssumption DEF TypeOK, Tasks
  <2>2. Statement(d) \in Drivers \X (1..MaxCalls) \X (1..MaxStatements)
    BY <2>1 DEF Statement
  <2>3. verdict1 = verdict
    BY <1>1, <1>3, <1>6 DEF verdict
  <2>4. Contract!Work(d)
    BY <1>2, <1>3, <1>6, <2>2, <2>3 DEF Contract!Work
  <2> QED  BY <2>4 DEF Contract!Next
<1>7. CASE /\ Verdict(d) = "open" /\ ran'[d] = ran[d]
           /\ \/ /\ Verdict(d)' = "ok" /\ session'.sure = session.sure
                 /\ \/ Effects' = Effects \cup ran[d]
                    \/ Effects' = Effects /\ ~session.sure
              \/ /\ Verdict(d)' = "err" /\ session'.sure = session.sure
                 /\ Effects' = Effects
              \/ /\ Verdict(d)' = "unanswered" /\ ~session'.sure /\ Effects' = Effects
              \/ /\ Verdict(d)' = "unknown" /\ ~session'.sure
                 /\ Effects' = Effects \/ Effects' = Effects \cup ran[d]
              \/ /\ Verdict(d)' = "cancelled"
                 /\ session'.sure = session.sure \/ ~session'.sure
                 /\ Effects' = Effects \/ Effects' = Effects \cup ran[d]
  <2>1. ran' = ran
    BY <1>2, <1>7
  <2>2. PICK result : result = Verdict(d)'
    OBVIOUS
  <2>3. Contract!Settle(d, result)
    <3>1. CASE result \in {"ok", "err"}
      BY <1>1, <1>3, <1>7, <2>2, <3>1, Zenon DEF Contract!Settle
    <3>2. CASE result \in {"unknown", "unanswered"}
      BY <1>1, <1>3, <1>7, <2>2, <3>2, Zenon DEF Contract!Settle
    <3>3. CASE result = "cancelled"
      BY <1>1, <1>3, <1>7, <2>2, <3>3, Zenon DEF Contract!Settle
    <3> QED  BY <1>7, <2>2, <3>1, <3>2, <3>3
  <2>4. CASE result \in {"ok", "unknown", "cancelled"} /\ Effects' = Effects \cup ran[d]
    <3>1. Contract!Commit(d)
      BY <1>3, <1>7, <2>1, <2>3, <2>4 DEF Contract!Commit
    <3> QED  BY <3>1 DEF Contract!Next
  <2>5. CASE result # "ok" /\ Effects' = Effects
    <3>1. result \in Contract!Results \ {"ok"}
      BY <1>7, <2>2, <2>5 DEF Contract!Results
    <3>2. Contract!Abort(d)
      BY <1>3, <1>7, <2>1, <2>3, <2>5, <3>1 DEF Contract!Abort
    <3> QED  BY <3>2 DEF Contract!Next
  <2>6. CASE result = "ok" /\ Effects' = Effects /\ ~session.sure
    <3>1. Contract!CommitInside(d)
      BY <1>3, <1>7, <2>1, <2>3, <2>6 DEF Contract!CommitInside
    <3> QED  BY <3>1 DEF Contract!Next
  <2> QED  BY <1>7, <2>2, <2>4, <2>5, <2>6
<1> QED  BY <1>5, <1>6, <1>7

(* A step no part of the contract sees.                                      *)
LEMMA ContractStutters ==
    ASSUME TypeOK, TypeOK', Effects' = Effects, session'.sure = session.sure,
           \A e \in Drivers : Verdict(e)' = Verdict(e) /\ ran'[e] = ran[e]
    PROVE  UNCHANGED Contract!vars
<1>1. ran' = ran
  BY DEF TypeOK
<1>2. \A e \in Drivers :
        (IF outcome'[e] = "none" THEN IF calls'[e] = 0 THEN "idle" ELSE "open" ELSE outcome'[e])
      = (IF outcome[e] = "none" THEN IF calls[e] = 0 THEN "idle" ELSE "open" ELSE outcome[e])
  BY DEF Verdict
<1>3. {s \in durable' : s[1] \in Drivers} = {s \in durable : s[1] \in Drivers}
  BY DEF Effects, OfDrivers
<1>4. (~session.sure)' = ~session.sure
  OBVIOUS
<1> QED  BY <1>1, <1>2, <1>3, <1>4 DEF Contract!vars

(* The call, the statements the server executes, and the ways a call ends.   *)
LEMMA DriverRefines ==
    ASSUME TypeOK, TypeOK', NEW d \in Drivers, \A e \in Drivers : e = d,
           Truthful(d), Told(d), Counted(d), Held(d),
           Opening(d) \/ Closure(d) \/ Closing(d) \/ Cancel(d)
    PROVE  Contract!Next \/ UNCHANGED Contract!vars
<1> USE DEF Goto, Return, server, locals, counters
<1>0. /\ pc \in [Tasks -> Places] /\ calls \in [Tasks -> 0..MaxCalls]
      /\ issued \in [Tasks -> 0..MaxStatements]
      /\ ran \in [Drivers -> SUBSET Statements]
      /\ outcome \in [Drivers -> Outcomes]
      /\ d \in Tasks /\ session \in SessionsOver(Statements) /\ savedRetry[d] \in BOOLEAN
  BY DEF TypeOK, Tasks
<1>1. /\ calls[d] \in Nat /\ issued[d] \in Nat
      /\ session.count \in Nat /\ session.sure \in BOOLEAN
  BY <1>0, BoundsAssumption DEF SessionsOver
<1>2. pc[d] \in Undecided => Verdict(d) = "open"
  BY DEF Told, Held, Verdict, Undecided, BeforeCommit
<1>3. CASE StartTransaction(d)
  <2>1. Verdict(d) # "open"
    BY <1>0, <1>3 DEF StartTransaction, Verdict, Told, Outcomes
  <2>2. /\ calls'[d] = calls[d] + 1 /\ ran'[d] = {} /\ UNCHANGED <<session, durable>>
        /\ outcome'[d] \in {"err", "none"}
    BY <1>0, <1>3 DEF StartTransaction
  <2>3. Verdict(d)' \in {"open", "err"} /\ Effects' = Effects
    BY <1>1, <2>2 DEF Verdict, Effects
  <2> QED  BY <2>1, <2>2, <2>3, ContractSteps
<1>4. /\ BeginTran(session) \in SessionsOver(Statements)
      /\ RollbackTran(session) \in SessionsOver(Statements)
  BY <1>0, SessionTyped
<1>5. CASE \/ BeginRejected(d) \/ BeginFails(d) \/ FinishRejected(d) \/ CommitFails(d)
           \/ Rollback(d)
  <2>1. /\ pc[d] \in {"begin", "commit", "rollback"}
        /\ outcome'[d] = "err" /\ ran' = ran /\ durable' = durable
        /\ session' = session \/ session' = WithRetry(RollbackTran(session), savedRetry[d])
    BY <1>0, <1>5 DEF BeginRejected, BeginFails, FinishRejected, CommitFails, Rollback
  <2>2. Verdict(d) = "open" /\ Verdict(d)' = "err" /\ Effects' = Effects
    BY <1>2, <2>1 DEF Verdict, Effects, Undecided, BeforeCommit
  <2>3. session'.sure = session.sure
    BY <1>0, <1>4, <2>1, SessionAnswers
  <2> QED  BY <2>1, <2>2, <2>3, ContractSteps
<1>6. CASE BeginUnanswered(d) \/ RollbackUnanswered(d)
  <2>1. /\ pc[d] \in {"begin", "rollback"}
        /\ outcome'[d] = "unanswered" /\ ran' = ran /\ durable' = durable
    BY <1>0, <1>6 DEF BeginUnanswered, RollbackUnanswered
  <2>2. Verdict(d) = "open" /\ Verdict(d)' = "unanswered" /\ Effects' = Effects
    BY <1>2, <2>1 DEF Verdict, Effects, Undecided, BeforeCommit
  <2>3. ~session'.sure
    <3>1. PICK s \in {session, BeginTran(session), RollbackTran(session)} :
            session' = Unsure(s) \/ session' = WithRetry(Unsure(s), savedRetry[d])
      BY <1>6 DEF BeginUnanswered, RollbackUnanswered
    <3>2. s \in SessionsOver(Statements) /\ Unsure(s) \in SessionsOver(Statements)
      BY <1>0, <1>4, <3>1, SessionTyped
    <3> QED  BY <1>0, <3>1, <3>2, SessionAnswers
  <2> QED  BY <2>1, <2>2, <2>3, ContractSteps
<1>7. ASSUME ExecuteStatement(d) \/ StatementFails(d), Run(d)
      PROVE  Contract!Next
  <2>1. /\ pc[d] = "statement" /\ UNCHANGED <<outcome, calls>>
        /\ ran'[d] = ran[d] \cup {Statement(d)}
        /\ durable' = durable \cup AutoCommitted(session, Statement(d))
        /\ session' = JoinTran(session, Statement(d))
    BY <1>0, <1>7 DEF ExecuteStatement, StatementFails, Run
  <2>2. durable' = durable /\ session'.sure = session.sure
    <3>1. session.count > 0
      BY <2>1 DEF Counted, BeforeCommit
    <3> QED  BY <1>0, <2>1, <3>1, SessionAnswers DEF AutoCommitted, InTransaction
  <2>3. Verdict(d) = "open" /\ 1 <= calls[d] /\ 1 <= issued[d]
    BY <1>1, <1>2, <2>1 DEF Told, Undecided, BeforeCommit
  <2>4. Verdict(d)' = "open" /\ Effects' = Effects
    BY <2>1, <2>2, <2>3 DEF Verdict, Effects
  <2> QED  BY <2>1, <2>2, <2>3, <2>4, ContractSteps
<1>8. ASSUME pc[d] = "commit"
      PROVE  /\ InTransaction(session) /\ CommitTran(session) \in SessionsOver(Statements)
             /\ durable' = durable \cup MadeDurable(session)
                  => \/ Effects' = Effects \cup ran[d]
                     \/ Effects' = Effects /\ ~session.sure
  <2>1. session.count > 0 /\ (session.sure => session.count = 1)
    BY <1>8 DEF Counted, BeforeCommit
  <2>2. session.count = 1 => OfDrivers(session.pending) = ran[d]
    BY <1>8 DEF Told, BeforeCommit
  <2>3. CASE session.count = 1
    <3>1. InTransaction(session) /\ MadeDurable(session) = session.pending
      BY <2>3 DEF InTransaction, MadeDurable
    <3>2. OfDrivers(durable \cup session.pending)
            = OfDrivers(durable) \cup OfDrivers(session.pending)
      BY DEF OfDrivers
    <3> QED  BY <1>0, <2>2, <2>3, <3>1, <3>2, SessionTyped DEF Effects
  <2>4. CASE session.count # 1
    <3>1. InTransaction(session) /\ MadeDurable(session) = {} /\ ~session.sure
      BY <2>1, <2>4 DEF InTransaction, MadeDurable
    <3> QED  BY <1>0, <3>1, SessionTyped DEF Effects
  <2> QED  BY <2>3, <2>4
<1>9. CASE Commit(d)
  <2>1. pc[d] = "commit"
    BY <1>9 DEF Commit
  <2>2. /\ outcome'[d] = "ok" /\ ran' = ran
        /\ durable' = durable \cup MadeDurable(session)
        /\ session' = WithRetry(CommitTran(session), savedRetry[d])
    BY <1>0, <1>8, <1>9, <2>1 DEF Commit
  <2>3. Verdict(d) = "open" /\ Verdict(d)' = "ok"
    BY <1>2, <2>1, <2>2 DEF Verdict, Undecided, BeforeCommit
  <2>4. session'.sure = session.sure
    BY <1>0, <1>8, <2>1, <2>2, SessionAnswers
  <2> QED  BY <1>8, <2>1, <2>2, <2>3, <2>4, ContractSteps
<1>10. CASE CommitUnanswered(d)
  <2>1. pc[d] = "commit" /\ outcome'[d] = "unknown" /\ ran' = ran
    BY <1>0, <1>10 DEF CommitUnanswered
  <2>2. Verdict(d) = "open" /\ Verdict(d)' = "unknown"
    BY <1>2, <2>1 DEF Verdict, Undecided, BeforeCommit
  <2>3. durable' = durable \/ durable' = durable \cup MadeDurable(session)
    BY <1>10 DEF CommitUnanswered
  <2>4. Effects' = Effects \/ Effects' = Effects \cup ran[d]
    BY <1>8, <2>1, <2>3 DEF Effects
  <2>5. ~session'.sure
    <3>1. PICK s \in {session, RollbackTran(session), CommitTran(session)} :
            session' = WithRetry(Unsure(s), savedRetry[d])
      BY <1>10 DEF CommitUnanswered
    <3>2. s \in SessionsOver(Statements) /\ Unsure(s) \in SessionsOver(Statements)
      BY <1>0, <1>4, <1>8, <2>1, <3>1, SessionTyped
    <3> QED  BY <1>0, <3>1, <3>2, SessionAnswers
  <2> QED  BY <2>1, <2>2, <2>4, <2>5, ContractSteps
<1>11. CASE Cancel(d)
  <2>1. /\ outcome'[d] = "cancelled" /\ ran' = ran
        /\ pc[d] \in {"begin", "body", "statement", "commit", "rollback"}
    BY <1>0, <1>11 DEF Cancel
  <2>2. Verdict(d) = "open" /\ Verdict(d)' = "cancelled"
    BY <1>2, <2>1 DEF Verdict, Undecided, BeforeCommit
  <2>3. Effects' = Effects \/ Effects' = Effects \cup ran[d]
    <3>1. CASE pc[d] = "commit"
      <4>1. durable' = durable \/ durable' = durable \cup MadeDurable(session)
        BY <1>11, <3>1 DEF Cancel
      <4> QED  BY <1>8, <3>1, <4>1 DEF Effects
    <3>2. CASE pc[d] # "commit"
      <4>1. durable' = durable
        <5>1. pc[d] = "statement" => AutoCommitted(session, Statement(d)) = {}
          BY DEF Counted, BeforeCommit, AutoCommitted, InTransaction
        <5> QED  BY <1>11, <2>1, <3>2, <5>1 DEF Cancel
      <4> QED  BY <4>1 DEF Effects
    <3> QED  BY <3>1, <3>2
  <2>4. session'.sure = session.sure \/ ~session'.sure
    <3>1. InFlight(d) \in SessionsOver(Statements)
      <4>1. Statement(d) \in Statements
        BY <1>0, StatementTyped
      <4> QED  BY <1>0, <4>1, SessionTyped DEF InFlight
    <3> QED  BY <1>11, <3>1, SessionAnswers DEF Cancel
  <2> QED  BY <2>1, <2>2, <2>3, <2>4, ContractSteps
<1>12. ASSUME \/ Begin(d) \/ StoreScope(d) \/ BumpDepth(d) \/ IssueStatement(d)
              \/ StatementRejected(d) \/ StatementAborts(d) \/ ClosureReturns(d)
              \/ ExitDepth(d) \/ ClearScope(d)
              \/ StatementFails(d) /\ UNCHANGED <<server, ran>>
       PROVE  UNCHANGED Contract!vars
  <2>1. /\ UNCHANGED <<outcome, calls, ran, durable>>
        /\ \/ session' = session \/ session' = WithRetry(BeginTran(session), FALSE)
           \/ session' = RollbackTran(session)
    BY <1>12 DEF Begin, StoreScope, BumpDepth, IssueStatement, StatementRejected,
       StatementFails, StatementAborts, ClosureReturns, ExitDepth, ClearScope
  <2>2. session'.sure = session.sure
    BY <1>0, <2>1 DEF WithRetry, BeginTran, RollbackTran, SessionsOver
  <2> QED  BY <2>1, <2>2, ContractStutters DEF Verdict, Effects
<1>13. CASE ExecuteStatement(d) \/ StatementFails(d)
  BY <1>7, <1>12, <1>13 DEF ExecuteStatement, StatementFails
<1> QED  BY <1>3, <1>5, <1>6, <1>9, <1>10, <1>11, <1>12, <1>13 DEF Opening, Closure, Closing

(* Neither lock() nor an outer operation changes what is in doubt.           *)
LEMMA OthersKeepSession ==
    ASSUME TypeOK,
           \/ \E t \in Tasks : Lock(t)
           \/ \E c \in Callers : Operation(c)
           \/ UNCHANGED vars
    PROVE  session'.sure = session.sure
  BY SessionAnswers DEF TypeOK, Lock, CheckScope, Enqueue, Operation, StartOperation,
     OperationRejected, ExecuteOperation, server, vars

(* run_transaction implements the contract for one driver, whatever others   *)
(* do on outer handles: its statements become durable together with Ok,      *)
(* whole or not at all when COMMIT is not answered or the future is dropped, *)
(* never with another Err; only after an unanswered command may Ok have had  *)
(* no effect.                                                                *)
THEOREM DirectImplementsContract ==
    ASSUME \A d, e \in Drivers : d = e
    PROVE  Spec => ImplementsContract
<1>1. Spec => []TruthInv /\ []AtomicInv
  BY TruthInvariance, AtomicInvariance
<1>2. Init => Contract!Init
  <2> SUFFICES ASSUME Init
               PROVE  Contract!Init
    OBVIOUS
  <2>1. \A d \in Drivers : outcome[d] = "none" /\ calls[d] = 0 /\ ran[d] = {}
    BY DEF Init, Tasks
  <2>2. {s \in durable : s[1] \in Drivers} = {} /\ ran = [d \in Drivers |-> {}]
    BY DEF Init
  <2>3. (~session.sure) = FALSE
    BY DEF Init, FreshSession
  <2> QED  BY <2>1, <2>2, <2>3 DEF Contract!Init
<1>3. TypeOK /\ TypeOK' /\ TruthInv /\ AtomicInv /\ [Next]_vars
        => [Contract!Next]_(Contract!vars)
  <2> SUFFICES ASSUME TypeOK, TypeOK', TruthInv, AtomicInv, [Next]_vars
               PROVE  Contract!Next \/ UNCHANGED Contract!vars
    OBVIOUS
  <2>1. ASSUME NEW d \in Drivers, Opening(d) \/ Closure(d) \/ Closing(d) \/ Cancel(d)
        PROVE  Contract!Next \/ UNCHANGED Contract!vars
    <3>1. Truthful(d) /\ Told(d) /\ Counted(d) /\ Held(d) /\ \A e \in Drivers : e = d
      BY DEF TruthInv, AtomicInv
    <3> QED  BY <2>1, <3>1, DriverRefines
  <2>2. CASE \/ \E t \in Tasks : Lock(t)
             \/ \E c \in Callers : Operation(c)
             \/ UNCHANGED vars
    <3>1. \A d \in Drivers : UNCHANGED <<calls[d], outcome[d], ran[d]>>
      BY <2>2, OthersKeepTruth DEF TruthInv
    <3>2. Effects' = Effects /\ session'.sure = session.sure
      <4>1. CASE Drivers = {}
        BY <2>2, <4>1, OthersKeepSession DEF Effects, OfDrivers
      <4>2. CASE Drivers # {}
        BY <2>2, <4>2, OthersKeepTruth DEF TruthInv, Effects
      <4> QED  BY <4>1, <4>2
    <3> QED  BY <3>1, <3>2, ContractStutters DEF Verdict
  <2> QED  BY <2>1, <2>2 DEF Next
<1> QED  BY <1>1, <1>2, <1>3, TypeCorrect, PTL DEF Spec, ImplementsContract, Contract!Spec
=============================================================================
