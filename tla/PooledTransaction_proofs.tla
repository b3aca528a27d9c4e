---------------------- MODULE PooledTransaction_proofs ----------------------
(* What PooledTransaction guarantees for every set of tasks and connections, *)
(* every bound and every combination of faults.                              *)
EXTENDS PooledTransaction, TransactionLemmas, FiniteSetTheorems

-----------------------------------------------------------------------------
(* The inductive invariant *)

(* A connection is in the pool, in the slot, or in one task's hands; only a  *)
(* driver that is about to install one holds one.                            *)
Possession ==
    /\ slot \notin free
    /\ \A t \in Tasks : own[t] # None =>
          /\ own[t] \notin free /\ own[t] # slot
          /\ \A u \in Tasks : own[u] = own[t] => u = t
    /\ \A c \in Connections : c \in free \/ c = slot \/ \E t \in Tasks : own[t] = c
    /\ \A d \in Drivers : own[d] # None <=> pc[d] = "install"

(* One driver at most is between install and clear, and the slot is its own. *)
Ownership ==
    \A d \in Drivers : pc[d] \in Pinned =>
        slot # None /\ \A e \in Drivers : pc[e] \in Pinned => e = d

(* A stored scope has a connection in the slot, and is the owner's if there  *)
(* is one: without an owner it is left from a call that was dropped.         *)
Scoped == {"bump", "leave"} \cup Entered
Scoping ==
    activeScope # 0 =>
        /\ slot # None
        /\ \A d \in Drivers : pc[d] \in Pinned => pc[d] \in Scoped /\ activeScope = scope[d]

(* What the owner knows of its session at each place of its call: BEGIN may  *)
(* have nested only in a session that once went without an answer.           *)
Open == {"disable", "store", "bump", "body", "statement", "commit"}
Shut == {"begin", "restore", "exit", "leave", "unpin"}
Configured == {"begin", "disable", "exit", "leave", "unpin"}
PinnedSession(d) ==
    /\ pc[d] \in Open => /\ sessions[slot].count > 0
                         /\ sessions[slot].sure => sessions[slot].count = 1
    /\ pc[d] \in Shut => (sessions[slot].sure => sessions[slot].count = 0)
    /\ pc[d] \in Configured => sessions[slot].retry
    /\ pc[d] \notin Configured => savedRetry[d]

(* What is not in the slot is clean, as far as the answers told.             *)
Clean(s) == s.retry /\ (s.sure => s.count = 0)
Servers ==
    /\ \A c \in Connections : sessions[c].count = 0 => sessions[c].pending = {}
    /\ \A c \in free : Clean(sessions[c])
    /\ \A t \in Tasks : own[t] # None => Clean(sessions[own[t]])
    /\ \A d \in Drivers : pc[d] \in Pinned => PinnedSession(d)

(* What a driver has been told, and that a transaction the owner's BEGIN     *)
(* opened holds exactly the statements of its closure that were executed.    *)
Undecided == {"acquire", "install", "begin", "rollback"} \cup Open
OfDrivers(statements) == {s \in statements : s[1] \in Drivers}
ToldTo(d) ==
    /\ pc[d] = "idle" /\ outcome[d] = "none" => calls[d] = 0
    /\ pc[d] # "idle" => calls[d] > 0
    /\ pc[d] \in Undecided => outcome[d] = "none"
    /\ pc[d] \in {"restore", "exit", "leave", "unpin"} => outcome[d] \notin {"none", "cancelled"}
    /\ pc[d] = "statement" => issued[d] > 0
    /\ pc[d] \in {"acquire", "install", "begin"} => ran[d] = {}
    /\ pc[d] \in Open /\ sessions[slot].count = 1 =>
          OfDrivers(sessions[slot].pending) = ran[d]
Told == \A d \in Drivers : ToldTo(d)

Inv == TypeOK /\ Possession /\ Ownership /\ Scoping /\ Servers /\ Told

-----------------------------------------------------------------------------
(* Type correctness *)

(* A statement is recognised by its task, the call and its number in the     *)
(* call.                                                                     *)
LEMMA StatementTyped ==
    ASSUME TypeOK, NEW t \in Tasks
    PROVE  Statement(t) \in Statements
<1>1. calls[t] \in 0..MaxCalls /\ issued[t] \in Nat
  BY DEF TypeOK
<1> QED  BY <1>1 DEF Statement, Statements

(* The types a proof about a step starts from.                               *)
LEMMA Typed ==
    ASSUME TypeOK
    PROVE  /\ Drivers \subseteq Tasks /\ Callers \subseteq Tasks
           /\ pc \in [Tasks -> Places] /\ queue \in Seq(Tasks)
           /\ gate \in [Tasks -> {"out", "checked", "queued", "pool"}]
           /\ own \in [Tasks -> Connections \cup {None}]
           /\ sessions \in [Connections -> SessionsOver(Statements)]
           /\ slot # None => /\ slot \in Connections
                             /\ sessions[slot] \in SessionsOver(Statements)
  BY DEF TypeOK, Tasks, SessionsOver

(* One step keeps every variable in its type.  The slot of an owner is never *)
(* empty, so every batch finds a session there.                              *)
LEMMA TypeStep ==
    ASSUME Inv, [Next]_vars
    PROVE  TypeOK'
<1> USE DEF Inv, Goto, Return, runtime, pool, server, locals, counters
<1>1. /\ Drivers \subseteq Tasks /\ Callers \subseteq Tasks /\ queue \in Seq(Tasks)
      /\ own \in [Tasks -> Connections \cup {None}] /\ pc \in [Tasks -> Places]
      /\ sessions \in [Connections -> SessionsOver(Statements)]
      /\ slot # None => slot \in Connections /\ sessions[slot] \in SessionsOver(Statements)
  BY Typed
<1>2. ASSUME NEW t \in Tasks, NEW next \in {"out", "pool"}, Holds(t), Release(t, next)
      PROVE  /\ queue' \in Seq(Tasks)
             /\ gate' \in [Tasks -> {"out", "checked", "queued", "pool"}]
  BY <1>2, HeadTailProperties DEF TypeOK, Holds, Release
<1>3. ASSUME NEW t \in Tasks, Lock(t)
      PROVE  TypeOK'
  <2>1. CASE CheckScope(t)
    BY <2>1 DEF CheckScope, TypeOK
  <2>2. CASE Enqueue(t)
    <3>1. Append(queue, t) \in Seq(Tasks)
      BY AppendProperties DEF TypeOK
    <3> QED  BY <2>2, <3>1 DEF Enqueue, TypeOK
  <2> QED  BY <1>3, <2>1, <2>2 DEF Lock
<1>4. ASSUME NEW s \in SessionsOver(Statements), OnPinned(s)
      PROVE  sessions' \in [Connections -> SessionsOver(Statements)]
  BY <1>1, <1>4 DEF OnPinned
<1>5. ASSUME NEW t \in Tasks, NEW c \in Connections, Execute(t, c)
      PROVE  /\ sessions' \in [Connections -> SessionsOver(Statements)]
             /\ durable' \in SUBSET Statements
  <2>1. /\ Statement(t) \in Statements /\ sessions[c] \in SessionsOver(Statements)
        /\ durable \in SUBSET Statements
    BY <1>1, StatementTyped DEF TypeOK
  <2>2. /\ JoinTran(sessions[c], Statement(t)) \in SessionsOver(Statements)
        /\ AutoCommitted(sessions[c], Statement(t)) \in SUBSET Statements
    BY <2>1, SessionTyped
  <2> QED  BY <1>1, <1>5, <2>1, <2>2 DEF Execute
<1>6. ASSUME NEW d \in Drivers, Opening(d)
      PROVE  TypeOK'
  <2>0. /\ d \in Tasks
        /\ {"idle", "acquire", "install", "begin", "disable", "store", "bump", "body",
            "unpin"} \subseteq Places
        /\ own[d] \in Connections \cup {None}
    BY <1>1 DEF Places, Pinned, Entered, Slotting
  <2>1. CASE StartTransaction(d)
    <3>1. UNCHANGED <<depth, activeScope, slot, queue, pool, server, gate, savedRetry>>
      BY <2>1 DEF StartTransaction
    <3>2. calls' \in [Tasks -> 0..MaxCalls]
      BY <2>0, <2>1, BoundsAssumption DEF StartTransaction, TypeOK
    <3>3. issued' \in [Tasks -> Nat] /\ \A e \in Drivers : issued'[e] <= MaxStatements[e]
      <4>1. issued \in [Tasks -> Nat] /\ \A e \in Drivers : issued[e] <= MaxStatements[e]
        BY DEF TypeOK
      <4>2. \A e \in Drivers : 0 <= MaxStatements[e]
        BY BoundsAssumption
      <4>3. issued' = [issued EXCEPT ![d] = 0]
        BY <2>1 DEF StartTransaction
      <4> QED  BY <1>1, <4>1, <4>2, <4>3
    <3>4. ran' \in [Drivers -> SUBSET Statements]
      BY <2>1 DEF StartTransaction, TypeOK
    <3>5. nextScope' \in Nat /\ scope' \in [Drivers -> Nat]
      <4>1. nextScope + 1 \in Nat /\ scope \in [Drivers -> Nat]
        BY DEF TypeOK
      <4>2. \/ nextScope' = nextScope /\ scope' = scope
            \/ nextScope' = nextScope + 1 /\ scope' = [scope EXCEPT ![d] = nextScope + 1]
        BY <2>1 DEF StartTransaction
      <4> QED  BY <4>1, <4>2 DEF TypeOK
    <3>6. outcome' \in [Drivers -> Outcomes]
      BY <2>1 DEF StartTransaction, TypeOK, Outcomes
    <3>7. pc' \in [Tasks -> Places]
      BY <1>1, <2>0, <2>1 DEF StartTransaction
    <3> QED  BY <3>1, <3>2, <3>3, <3>4, <3>5, <3>6, <3>7 DEF TypeOK
  <2>2. CASE AcquireOwned(d)
    BY <2>0, <2>2 DEF AcquireOwned, CheckOut, TypeOK
  <2>3. CASE AcquireFails(d)
    BY <2>0, <2>3 DEF AcquireFails, TypeOK, Outcomes
  <2>4. CASE Install(d)
    BY <1>2, <2>0, <2>4 DEF Install, TypeOK
  <2>5. CASE InstallRefused(d)
    BY <1>2, <2>0, <2>5 DEF InstallRefused, GiveBack, TypeOK, Outcomes
  <2>6. CASE Begin(d)
    <3>1. BeginTran(sessions[slot]) \in SessionsOver(Statements)
      BY <1>1, <2>6, SessionTyped DEF Begin, Ownership, Pinned
    <3> QED  BY <1>2, <1>4, <2>0, <2>6, <3>1 DEF Begin, TypeOK
  <2>7. CASE BeginFails(d)
    BY <1>2, <2>0, <2>7 DEF BeginFails, TypeOK, Outcomes
  <2>8. CASE DisableRetry(d)
    <3>1. sessions[slot] \in SessionsOver(Statements)
      BY <1>1, <2>8 DEF DisableRetry, Ownership, Pinned
    <3>2. sessions[slot].retry \in BOOLEAN
      BY <3>1 DEF SessionsOver
    <3>3. WithRetry(sessions[slot], FALSE) \in SessionsOver(Statements)
      BY <3>1 DEF SessionsOver, WithRetry
    <3> QED  BY <1>2, <1>4, <2>0, <2>8, <3>2, <3>3 DEF DisableRetry, TypeOK
  <2>9. CASE StoreScope(d)
    BY <2>0, <2>9 DEF StoreScope, TypeOK
  <2>10. CASE BumpDepth(d)
    BY <2>0, <2>10 DEF BumpDepth, TypeOK
  <2>11. CASE BeginUnanswered(d)
    <3>1. PICK s \in {sessions[slot], BeginTran(sessions[slot])} : OnPinned(Unsure(s))
      BY <2>11 DEF BeginUnanswered
    <3>2. s \in SessionsOver(Statements)
      BY <1>1, <2>11, <3>1, SessionTyped DEF BeginUnanswered, Ownership, Pinned
    <3>3. Unsure(s) \in SessionsOver(Statements)
      BY <3>2, SessionTyped
    <3> QED  BY <1>2, <1>4, <2>0, <2>11, <3>1, <3>3 DEF BeginUnanswered, TypeOK, Outcomes
  <2> QED  BY <1>6, <2>1, <2>2, <2>3, <2>4, <2>5, <2>6, <2>7, <2>8, <2>9, <2>10, <2>11
           DEF Opening
<1>7. ASSUME NEW d \in Drivers, Closure(d)
      PROVE  TypeOK'
  <2>0. d \in Tasks /\ {"body", "statement", "commit", "rollback"} \subseteq Places
    BY <1>1 DEF Places, Pinned, Entered
  <2>1. CASE IssueStatement(d)
    <3>1. MaxStatements[d] \in Nat /\ issued[d] \in Nat
      BY <2>0, BoundsAssumption DEF TypeOK
    <3>2. issued' \in [Tasks -> Nat] /\ \A e \in Drivers : issued'[e] <= MaxStatements[e]
      BY <1>1, <2>0, <2>1, <3>1 DEF IssueStatement, TypeOK
    <3> QED  BY <2>0, <2>1, <3>2 DEF IssueStatement, TypeOK
  <2>2. ASSUME ExecuteStatement(d) \/ StatementFails(d), Run(d)
        PROVE  TypeOK'
    <3>1. slot \in Connections /\ Statement(d) \in Statements
      BY <1>1, <2>0, <2>2, StatementTyped
         DEF ExecuteStatement, StatementFails, Ownership, Pinned, Entered
    <3>2. sessions' \in [Connections -> SessionsOver(Statements)] /\ durable' \in SUBSET Statements
      BY <1>5, <2>0, <2>2, <3>1 DEF Run
    <3> QED  BY <1>2, <2>0, <2>2, <3>1, <3>2 DEF ExecuteStatement, StatementFails, Run, TypeOK
  <2>3. CASE StatementFails(d) /\ UNCHANGED <<server, ran>>
    BY <1>2, <2>0, <2>3 DEF StatementFails, TypeOK
  <2>4. CASE StatementAborts(d)
    <3>1. RollbackTran(sessions[slot]) \in SessionsOver(Statements)
      BY <1>1, <2>4, SessionTyped DEF StatementAborts, Ownership, Pinned, Entered
    <3> QED  BY <1>2, <1>4, <2>0, <2>4, <3>1 DEF StatementAborts, TypeOK
  <2>5. CASE ClosureReturns(d)
    BY <2>0, <2>5 DEF ClosureReturns, TypeOK
  <2> QED  BY <1>7, <2>1, <2>2, <2>3, <2>4, <2>5 DEF Closure, ExecuteStatement, StatementFails
<1>8. ASSUME NEW d \in Drivers, Closing(d)
      PROVE  TypeOK'
  <2>0. d \in Tasks /\ {"idle", "restore", "exit", "leave", "unpin"} \subseteq Places
    BY <1>1 DEF Places, Pinned, Entered
  <2>1. ASSUME NEW result \in Outcomes, Holds(d), Finished(d, result),
               NEW s \in SessionsOver(Statements), OnPinned(s), durable' \in SUBSET Statements
        PROVE  TypeOK'
    BY <1>2, <1>4, <2>0, <2>1 DEF Finished, TypeOK
  <2>2. pc[d] \in Pinned => sessions[slot] \in SessionsOver(Statements)
    BY <1>1 DEF Ownership
  <2>3. CASE Commit(d)
    <3>1. sessions[slot] \in SessionsOver(Statements)
      BY <2>2, <2>3 DEF Commit, Pinned, Entered
    <3>2. /\ CommitTran(sessions[slot]) \in SessionsOver(Statements)
          /\ MadeDurable(sessions[slot]) \in SUBSET Statements
      BY <2>3, <3>1, SessionTyped DEF Commit
    <3>3. durable' \in SUBSET Statements
      BY <2>3, <3>2 DEF Commit, TypeOK
    <3> QED  BY <2>1, <2>3, <3>2, <3>3 DEF Commit, Outcomes
  <2>4. CASE CommitFails(d) \/ Rollback(d)
    <3>1. sessions[slot] \in SessionsOver(Statements)
      BY <2>2, <2>4 DEF CommitFails, Rollback, Pinned, Entered
    <3>2. RollbackTran(sessions[slot]) \in SessionsOver(Statements)
      BY <3>1, SessionTyped
    <3>3. durable' \in SUBSET Statements
      BY <2>4 DEF CommitFails, Rollback, TypeOK
    <3> QED  BY <2>1, <2>4, <3>2, <3>3 DEF CommitFails, Rollback, Outcomes
  <2>9. CASE CommitUnanswered(d) \/ RollbackUnanswered(d)
    <3>1. sessions[slot] \in SessionsOver(Statements)
      BY <2>2, <2>9 DEF CommitUnanswered, RollbackUnanswered, Pinned, Entered
    <3>2. pc[d] = "commit" => InTransaction(sessions[slot])
      BY DEF Servers, PinnedSession, Pinned, Entered, Open, InTransaction
    <3>3. PICK s \in SessionsOver(Statements) : OnPinned(Unsure(s))
      <4>1. RollbackTran(sessions[slot]) \in SessionsOver(Statements)
        BY <3>1, SessionTyped
      <4>2. pc[d] = "commit" => CommitTran(sessions[slot]) \in SessionsOver(Statements)
        BY <3>1, <3>2, SessionTyped
      <4> QED  BY <2>9, <3>1, <4>1, <4>2 DEF CommitUnanswered, RollbackUnanswered
    <3>4. Unsure(s) \in SessionsOver(Statements)
      BY <3>3, SessionTyped
    <3>5. MadeDurable(sessions[slot]) \in SUBSET Statements
      BY <3>1, SessionTyped
    <3>6. durable' \in SUBSET Statements
      BY <2>9, <3>5 DEF CommitUnanswered, RollbackUnanswered, TypeOK
    <3>7. Holds(d) /\ \E result \in Outcomes : Finished(d, result)
      BY <2>9 DEF CommitUnanswered, RollbackUnanswered, Outcomes
    <3> QED  BY <2>1, <3>3, <3>4, <3>6, <3>7
  <2>5. CASE RestoreRetry(d)
    <3>1. sessions[slot] \in SessionsOver(Statements) /\ savedRetry[d] \in BOOLEAN
      BY <2>2, <2>5 DEF RestoreRetry, Pinned, Entered, TypeOK
    <3>2. WithRetry(sessions[slot], savedRetry[d]) \in SessionsOver(Statements)
      BY <3>1, SessionTyped
    <3> QED  BY <1>2, <1>4, <2>0, <2>5, <3>2 DEF RestoreRetry, TypeOK
  <2>6. CASE ExitDepth(d)
    BY <2>0, <2>6 DEF ExitDepth, TypeOK
  <2>7. CASE ClearScope(d)
    BY <2>0, <2>7 DEF ClearScope, TypeOK
  <2>8. CASE Unpin(d)
    <3>1. slot \in Connections
      BY <1>1, <2>8 DEF Unpin, Ownership, Pinned
    <3> QED  BY <1>2, <2>0, <2>8, <3>1 DEF Unpin, TypeOK
  <2> QED  BY <1>8, <2>3, <2>4, <2>5, <2>6, <2>7, <2>8, <2>9 DEF Closing
<1>9. ASSUME NEW d \in Drivers, Cancel(d)
      PROVE  TypeOK'
  <2>0. d \in Tasks /\ "idle" \in Places /\ own[d] \in Connections \cup {None}
    BY <1>1 DEF Places
  <2>1. queue' \in Seq(Tasks)
    BY <1>1, <1>9, LeftQueue DEF Cancel, LeaveQueue
  <2>2. /\ sessions' \in [Connections -> SessionsOver(Statements)]
        /\ durable' \in SUBSET Statements
    <3>1. CASE UNCHANGED server
      BY <3>1 DEF TypeOK
    <3>2. CASE ~UNCHANGED server
      <4>1. /\ pc[d] \in {"begin", "statement", "commit", "rollback"}
            /\ OnPinned(Unsure(InFlight(d)))
            /\ \/ durable' = durable
               \/ durable' = durable \cup MadeDurable(sessions[slot])
        BY <1>9, <3>2 DEF Cancel
      <4>2. sessions[slot] \in SessionsOver(Statements)
        BY <1>1, <4>1 DEF Ownership, Pinned, Entered
      <4>3. pc[d] = "commit" => InTransaction(sessions[slot])
        BY DEF Servers, PinnedSession, Pinned, Entered, Open, InTransaction
      <4>4. Unsure(InFlight(d)) \in SessionsOver(Statements)
        <5>1. InFlight(d) \in SessionsOver(Statements)
          BY <2>0, <4>1, <4>2, <4>3, SessionTyped, StatementTyped DEF InFlight
        <5> QED  BY <5>1, SessionTyped
      <4>5. MadeDurable(sessions[slot]) \in SUBSET Statements
        BY <4>2, SessionTyped
      <4> QED  BY <1>4, <4>1, <4>4, <4>5 DEF TypeOK
    <3> QED  BY <3>1, <3>2
  <2> QED  BY <1>9, <2>0, <2>1, <2>2 DEF Cancel, LeaveQueue, GiveBack, TypeOK, Outcomes
<1>10. ASSUME NEW c \in Callers, Operation(c)
       PROVE  TypeOK'
  <2>0. /\ c \in Tasks /\ {"idle", "operation"} \subseteq Places
        /\ own[c] \in Connections \cup {None}
    BY <1>1 DEF Places, Locking
  <2>1. CASE StartOperation(c)
    BY <2>0, <2>1, BoundsAssumption DEF StartOperation, TypeOK
  <2>2. CASE OperationRejected(c)
    BY <2>0, <2>2 DEF OperationRejected, TypeOK
  <2>3. CASE OperationOnPinned(c)
    <3>1. /\ sessions' \in [Connections -> SessionsOver(Statements)]
          /\ durable' \in SUBSET Statements
      BY <1>1, <1>5, <2>0, <2>3 DEF OperationOnPinned
    <3> QED  BY <1>2, <2>0, <2>3, <3>1 DEF OperationOnPinned, TypeOK
  <2>4. CASE OperationToPool(c)
    BY <1>2, <2>0, <2>4 DEF OperationToPool, TypeOK
  <2>5. CASE OperationAcquires(c)
    BY <2>0, <2>5 DEF OperationAcquires, CheckOut, TypeOK
  <2>6. CASE OperationAcquireFails(c)
    BY <2>0, <2>6 DEF OperationAcquireFails, TypeOK
  <2>7. CASE OperationOnOwn(c)
    <3>1. /\ sessions' \in [Connections -> SessionsOver(Statements)]
          /\ durable' \in SUBSET Statements
      BY <1>5, <2>0, <2>7 DEF OperationOnOwn
    <3> QED  BY <2>0, <2>7, <3>1 DEF OperationOnOwn, GiveBack, TypeOK
  <2> QED  BY <1>10, <2>1, <2>2, <2>3, <2>4, <2>5, <2>6, <2>7 DEF Operation
<1>11. CASE UNCHANGED vars
  BY <1>11 DEF vars, TypeOK
<1> QED  BY <1>3, <1>6, <1>7, <1>8, <1>9, <1>10, <1>11 DEF Next

-----------------------------------------------------------------------------
(* Who has which connection *)

(* The slot is filled and emptied by Install and Unpin only, and a driver    *)
(* becomes an owner by Install only.                                         *)
LEMMA OnlyInstallPins ==
    ASSUME TypeOK, [Next]_vars, \A d \in Drivers : ~Install(d) /\ ~Unpin(d)
    PROVE  /\ slot' = slot
           /\ \A d \in Drivers : pc'[d] \in Pinned => pc[d] \in Pinned
<1> USE DEF Goto, Return
<1>0. pc \in [Tasks -> Places] /\ Drivers \subseteq Tasks /\ Callers \subseteq Tasks
  BY Typed
<1>1. ASSUME NEW t \in Tasks, Lock(t)
      PROVE  slot' = slot /\ pc' = pc
  BY <1>1 DEF Lock, CheckScope, Enqueue
<1>2. ASSUME NEW e \in Drivers, Opening(e)
      PROVE  /\ slot' = slot
             /\ \A d \in Drivers : pc'[d] \in Pinned => pc[d] \in Pinned
  BY <1>0, <1>2 DEF Opening, StartTransaction, AcquireOwned, AcquireFails, InstallRefused,
     Begin, BeginFails, BeginUnanswered, DisableRetry, StoreScope, BumpDepth, Pinned, Entered
<1>3. ASSUME NEW e \in Drivers, Closure(e)
      PROVE  /\ slot' = slot
             /\ \A d \in Drivers : pc'[d] \in Pinned => pc[d] \in Pinned
  BY <1>0, <1>3 DEF Closure, IssueStatement, ExecuteStatement, StatementFails, Run,
     StatementAborts, ClosureReturns, Pinned, Entered
<1>4. ASSUME NEW e \in Drivers, Closing(e)
      PROVE  /\ slot' = slot
             /\ \A d \in Drivers : pc'[d] \in Pinned => pc[d] \in Pinned
  BY <1>0, <1>4 DEF Closing, Commit, CommitFails, CommitUnanswered, Rollback,
     RollbackUnanswered, Finished, RestoreRetry,
     ExitDepth, ClearScope, Pinned, Entered
<1>5. ASSUME NEW e \in Drivers, Cancel(e)
      PROVE  /\ slot' = slot
             /\ \A d \in Drivers : pc'[d] \in Pinned => pc[d] \in Pinned
  BY <1>0, <1>5 DEF Cancel, Pinned, Entered
<1>6. ASSUME NEW c \in Callers, Operation(c)
      PROVE  /\ slot' = slot
             /\ \A d \in Drivers : pc'[d] = pc[d]
  BY <1>0, <1>6, DisjointTasks DEF Operation, StartOperation, OperationRejected,
     OperationOnPinned, OperationToPool, OperationAcquires, OperationAcquireFails,
     OperationOnOwn
<1>7. CASE UNCHANGED vars
  BY <1>7 DEF vars
<1> QED  BY <1>1, <1>2, <1>3, <1>4, <1>5, <1>6, <1>7 DEF Next

(* Only a driver that finds the slot empty becomes its owner.                *)
LEMMA OwnershipStep ==
    ASSUME Inv, [Next]_vars
    PROVE  Ownership'
<1> USE DEF Inv, Goto
<1>0. /\ pc \in [Tasks -> Places] /\ Drivers \subseteq Tasks
      /\ own \in [Tasks -> Connections \cup {None}]
  BY Typed
<1>1. ASSUME NEW d \in Drivers, Install(d)
      PROVE  Ownership'
  <2>1. own[d] # None
    BY <1>1 DEF Install, Possession
  <2> QED  BY <1>0, <1>1, <2>1 DEF Install, Ownership, Pinned, Entered
<1>2. ASSUME NEW d \in Drivers, Unpin(d)
      PROVE  Ownership'
  BY <1>0, <1>2 DEF Unpin, Ownership, Pinned, Entered
<1>3. CASE \A d \in Drivers : ~Install(d) /\ ~Unpin(d)
  BY <1>3, OnlyInstallPins DEF Ownership
<1> QED  BY <1>1, <1>2, <1>3

(* Connections change hands where one is checked out, installed, or given    *)
(* back.                                                                     *)
Moves(t) ==
    \/ /\ t \in Drivers
       /\ AcquireOwned(t) \/ Install(t) \/ InstallRefused(t) \/ Unpin(t) \/ Cancel(t)
    \/ t \in Callers /\ (OperationAcquires(t) \/ OperationOnOwn(t))

(* Every other step leaves each connection where it is.                      *)
LEMMA OnlyMovesMove ==
    ASSUME TypeOK, [Next]_vars, \A t \in Tasks : ~Moves(t)
    PROVE  /\ UNCHANGED <<slot, free, own>>
           /\ \A d \in Drivers : pc'[d] = "install" <=> pc[d] = "install"
<1> USE DEF Goto, Return, Moves, pool
<1>0. pc \in [Tasks -> Places] /\ Drivers \subseteq Tasks /\ Callers \subseteq Tasks
  BY Typed
<1>1. ASSUME NEW t \in Tasks, Lock(t)
      PROVE  UNCHANGED <<slot, free, own, pc>>
  BY <1>1 DEF Lock, CheckScope, Enqueue
<1>2. ASSUME NEW e \in Drivers, Opening(e)
      PROVE  /\ UNCHANGED <<slot, free, own>>
             /\ \A d \in Drivers : pc'[d] = "install" <=> pc[d] = "install"
  BY <1>0, <1>2 DEF Opening, StartTransaction, AcquireFails, Begin, BeginFails, BeginUnanswered,
     DisableRetry, StoreScope, BumpDepth
<1>3. ASSUME NEW e \in Drivers, Closure(e)
      PROVE  /\ UNCHANGED <<slot, free, own>>
             /\ \A d \in Drivers : pc'[d] = "install" <=> pc[d] = "install"
  BY <1>0, <1>3 DEF Closure, IssueStatement, ExecuteStatement, StatementFails, Run,
     StatementAborts, ClosureReturns
<1>4. ASSUME NEW e \in Drivers, Closing(e)
      PROVE  /\ UNCHANGED <<slot, free, own>>
             /\ \A d \in Drivers : pc'[d] = "install" <=> pc[d] = "install"
  BY <1>0, <1>4 DEF Closing, Commit, CommitFails, CommitUnanswered, Rollback,
     RollbackUnanswered, Finished, RestoreRetry,
     ExitDepth, ClearScope
<1>5. ASSUME NEW c \in Callers, Operation(c)
      PROVE  /\ UNCHANGED <<slot, free, own>>
             /\ \A d \in Drivers : pc'[d] = pc[d]
  BY <1>0, <1>5, DisjointTasks DEF Operation, StartOperation, OperationRejected,
     OperationOnPinned, OperationToPool, OperationAcquireFails
<1>6. CASE UNCHANGED vars
  BY <1>6 DEF vars
<1>7. ~\E e \in Drivers : Cancel(e)
  BY <1>0
<1> QED  BY <1>1, <1>2, <1>3, <1>4, <1>5, <1>6, <1>7 DEF Next

(* Nothing duplicates or forgets a connection.                               *)
LEMMA PossessionStep ==
    ASSUME Inv, [Next]_vars
    PROVE  Possession'
<1> USE DEF Inv, Goto, Return
<1>0. /\ pc \in [Tasks -> Places] /\ Drivers \subseteq Tasks /\ Callers \subseteq Tasks
      /\ own \in [Tasks -> Connections \cup {None}] /\ free \subseteq Connections
      /\ slot \in Connections \cup {None}
  BY Typed DEF TypeOK
<1>1. ASSUME NEW t \in Tasks, own[t] = None, CheckOut(t), slot' = slot,
             \A d \in Drivers : pc'[d] = IF d = t THEN "install" ELSE pc[d]
      PROVE  Possession'
  <2>1. PICK c \in free : free' = free \ {c} /\ own' = [own EXCEPT ![t] = c]
    BY <1>1 DEF CheckOut
  <2>2. c # None /\ c # slot /\ \A u \in Tasks : own[u] # c
    BY <1>0, <2>1, NoneAssumption DEF Possession
  <2> QED  BY <1>0, <1>1, <2>1, <2>2, NoneAssumption DEF Possession
<1>2. ASSUME NEW t \in Tasks, GiveBack(t), slot' = slot,
             \A d \in Drivers : pc'[d] = "install" <=> d # t /\ pc[d] = "install"
      PROVE  Possession'
  <2>1. free' = free \cup ({own[t]} \ {None}) /\ own' = [own EXCEPT ![t] = None]
    BY <1>2 DEF GiveBack
  <2> QED  BY <1>0, <1>2, <2>1, NoneAssumption DEF Possession
<1>3. ASSUME NEW d \in Drivers, AcquireOwned(d)
      PROVE  Possession'
  <2>1. own[d] = None
    BY <1>3 DEF AcquireOwned, Possession
  <2> QED  BY <1>0, <1>1, <1>3, <2>1 DEF AcquireOwned
<1>4. ASSUME NEW d \in Drivers, Install(d)
      PROVE  Possession'
  <2>1. slot' = own[d] /\ own' = [own EXCEPT ![d] = None] /\ free' = free /\ slot = None
        /\ pc' = [pc EXCEPT ![d] = "begin"] /\ own[d] # None
    BY <1>4 DEF Install, Possession
  <2> QED  BY <1>0, <2>1, NoneAssumption DEF Possession
<1>5. ASSUME NEW d \in Drivers, InstallRefused(d) \/ Cancel(d)
      PROVE  Possession'
  <2>1. GiveBack(d) /\ slot' = slot /\ pc' = [pc EXCEPT ![d] = "idle"]
    BY <1>5 DEF InstallRefused, Cancel
  <2> QED  BY <1>0, <1>2, <2>1
<1>6. ASSUME NEW d \in Drivers, Unpin(d)
      PROVE  Possession'
  <2>1. /\ slot' = None /\ own' = own /\ free' = free \cup {slot} /\ pc[d] = "unpin"
        /\ pc' = [pc EXCEPT ![d] = "idle"] /\ slot # None
    BY <1>6 DEF Unpin, Ownership, Pinned
  <2> QED  BY <1>0, <2>1, NoneAssumption DEF Possession
<1>7. ASSUME NEW c \in Callers, OperationAcquires(c)
      PROVE  Possession'
  <2>1. c \in Tasks /\ c \notin Drivers
    BY <1>0, DisjointTasks
  <2> QED  BY <1>1, <1>7, <2>1 DEF OperationAcquires
<1>8. ASSUME NEW c \in Callers, OperationOnOwn(c)
      PROVE  Possession'
  <2>1. c \in Tasks /\ c \notin Drivers
    BY <1>0, DisjointTasks
  <2>2. GiveBack(c) /\ slot' = slot /\ pc' = [pc EXCEPT ![c] = "idle"]
    BY <1>8 DEF OperationOnOwn
  <2> QED  BY <1>0, <1>2, <2>1, <2>2
<1>9. CASE \A t \in Tasks : ~Moves(t)
  BY <1>9, OnlyMovesMove DEF Possession
<1> QED  BY <1>3, <1>4, <1>5, <1>6, <1>7, <1>8, <1>9 DEF Moves

-----------------------------------------------------------------------------
(* What the tasks around a driver leave alone *)

DriverState(e) ==
    <<pc[e], calls[e], issued[e], scope[e], savedRetry[e], ran[e], outcome[e]>>

(* A driver writes its own state only.                                       *)
LEMMA DriversKeepApart ==
    ASSUME TypeOK, NEW d \in Drivers, Opening(d) \/ Closure(d) \/ Closing(d) \/ Cancel(d),
           NEW e \in Drivers, e # d
    PROVE  UNCHANGED DriverState(e)
<1> USE DEF Goto, Return, DriverState, locals, counters
<1>0. /\ pc \in [Tasks -> Places] /\ d \in Tasks /\ e \in Tasks
      /\ calls \in [Tasks -> 0..MaxCalls] /\ issued \in [Tasks -> Nat]
      /\ scope \in [Drivers -> Nat] /\ savedRetry \in [Drivers -> BOOLEAN]
      /\ ran \in [Drivers -> SUBSET Statements]
      /\ outcome \in [Drivers -> Outcomes]
  BY Typed DEF TypeOK
<1>1. CASE Opening(d)
  BY <1>0, <1>1 DEF Opening, StartTransaction, AcquireOwned, AcquireFails, Install,
     InstallRefused, Begin, BeginFails, BeginUnanswered, DisableRetry, StoreScope, BumpDepth
<1>2. CASE Closure(d)
  BY <1>0, <1>2 DEF Closure, IssueStatement, ExecuteStatement, StatementFails, Run,
     StatementAborts, ClosureReturns
<1>3. CASE Closing(d)
  BY <1>0, <1>3 DEF Closing, Commit, CommitFails, CommitUnanswered, Rollback,
     RollbackUnanswered, Finished, RestoreRetry,
     ExitDepth, ClearScope, Unpin
<1>4. CASE Cancel(d)
  BY <1>0, <1>4 DEF Cancel
<1> QED  BY <1>1, <1>2, <1>3, <1>4

(* Neither lock() nor an outer operation writes what belongs to a driver or  *)
(* to the runtime.                                                           *)
LEMMA OthersKeepDrivers ==
    ASSUME TypeOK,
           \/ \E t \in Tasks : Lock(t)
           \/ \E c \in Callers : Operation(c)
           \/ UNCHANGED vars
    PROVE  /\ UNCHANGED <<depth, activeScope, nextScope, slot>>
           /\ \A e \in Drivers : UNCHANGED DriverState(e)
<1> USE DEF Goto, DriverState, runtime, locals, counters
<1>0. /\ pc \in [Tasks -> Places] /\ Drivers \subseteq Tasks /\ Callers \subseteq Tasks
      /\ calls \in [Tasks -> 0..MaxCalls]
  BY Typed DEF TypeOK
<1>1. ASSUME NEW t \in Tasks, Lock(t)
      PROVE  UNCHANGED <<runtime, slot, pc, locals, counters>>
  BY <1>1 DEF Lock, CheckScope, Enqueue
<1>2. ASSUME NEW c \in Callers, Operation(c)
      PROVE  /\ UNCHANGED <<runtime, slot, locals, issued>>
             /\ \A e \in Drivers : pc'[e] = pc[e] /\ calls'[e] = calls[e]
  BY <1>0, <1>2, DisjointTasks DEF Operation, StartOperation, OperationRejected,
     OperationOnPinned, OperationToPool, OperationAcquires, OperationAcquireFails,
     OperationOnOwn
<1>3. CASE UNCHANGED vars
  BY <1>3 DEF vars
<1> QED  BY <1>1, <1>2, <1>3

(* An outer operation adds statements to the transaction it finds in the     *)
(* slot, none of them a driver's, and changes no connection of its own.      *)
LEMMA OthersKeepSessions ==
    ASSUME Inv,
           \/ \E t \in Tasks : Lock(t)
           \/ \E c \in Callers : Operation(c)
           \/ UNCHANGED vars,
           NEW k \in Connections
    PROVE  /\ sessions'[k].count = sessions[k].count
           /\ sessions'[k].retry = sessions[k].retry
           /\ sessions'[k].sure = sessions[k].sure
           /\ sessions[k].count = 0 => sessions'[k].pending = sessions[k].pending
           /\ OfDrivers(sessions'[k].pending) = OfDrivers(sessions[k].pending)
<1> USE DEF Inv, server
<1>0. /\ sessions \in [Connections -> SessionsOver(Statements)] /\ Callers \subseteq Tasks
      /\ sessions[k] \in SessionsOver(Statements)
  BY Typed
<1>1. CASE sessions' = sessions
  BY <1>1
<1>2. ASSUME NEW c \in Callers, NEW j, Execute(c, j)
      PROVE  /\ sessions'[k].count = sessions[k].count
             /\ sessions'[k].retry = sessions[k].retry
             /\ sessions'[k].sure = sessions[k].sure
             /\ sessions[k].count = 0 => sessions'[k].pending = sessions[k].pending
             /\ OfDrivers(sessions'[k].pending) = OfDrivers(sessions[k].pending)
  <2>1. Statement(c)[1] \notin Drivers
    BY DisjointTasks DEF Statement
  <2>2. \/ sessions'[k] = sessions[k]
        \/ sessions'[k] = JoinTran(sessions[k], Statement(c))
    BY <1>0, <1>2 DEF Execute
  <2>3. CASE sessions[k].count > 0 /\ sessions'[k] = JoinTran(sessions[k], Statement(c))
    <3>1. sessions'[k] = [sessions[k] EXCEPT !.pending = sessions[k].pending \cup {Statement(c)}]
      BY <2>3 DEF JoinTran, InTransaction
    <3>2. /\ sessions'[k].count = sessions[k].count
          /\ sessions'[k].retry = sessions[k].retry
          /\ sessions'[k].sure = sessions[k].sure
          /\ sessions'[k].pending = sessions[k].pending \cup {Statement(c)}
      BY <1>0, <3>1 DEF SessionsOver
    <3> QED  BY <2>1, <2>3, <3>2 DEF OfDrivers
  <2>4. CASE ~(sessions[k].count > 0) /\ sessions'[k] = JoinTran(sessions[k], Statement(c))
    BY <2>4 DEF JoinTran, InTransaction
  <2> QED  BY <2>2, <2>3, <2>4
<1>3. ASSUME NEW t \in Tasks, Lock(t)
      PROVE  sessions' = sessions
  BY <1>3 DEF Lock, CheckScope, Enqueue
<1>4. ASSUME NEW c \in Callers, Operation(c)
      PROVE  sessions' = sessions \/ \E j : Execute(c, j)
  BY <1>4 DEF Operation, StartOperation, OperationRejected, OperationOnPinned,
     OperationToPool, OperationAcquires, OperationAcquireFails, OperationOnOwn
<1>5. CASE UNCHANGED vars
  BY <1>5 DEF vars
<1> QED  BY <1>1, <1>2, <1>3, <1>4, <1>5

-----------------------------------------------------------------------------
(* The scope of the owner *)

(* The owner is the only one who stores a scope or clears it.                *)
LEMMA ScopingStep ==
    ASSUME Inv, [Next]_vars
    PROVE  Scoping'
<1> USE DEF Inv, Goto, Return, runtime, locals
<1>0. /\ pc \in [Tasks -> Places] /\ Drivers \subseteq Tasks
      /\ scope \in [Drivers -> Nat]
  BY Typed DEF TypeOK
<1>1. ASSUME NEW d \in Drivers, Opening(d)
      PROVE  Scoping'
  <2>1. CASE StartTransaction(d)
    <3>1. \A e \in Drivers : pc'[e] \in Pinned => pc[e] \in Pinned /\ e # d /\ pc'[e] = pc[e]
      BY <1>0, <2>1 DEF StartTransaction, Pinned, Entered
    <3>2. \A e \in Drivers : e # d => scope'[e] = scope[e]
      BY <1>0, <2>1 DEF StartTransaction
    <3>3. activeScope' = activeScope /\ slot' = slot
      BY <2>1 DEF StartTransaction
    <3> QED  BY <3>1, <3>2, <3>3 DEF Scoping
  <2>2. CASE AcquireOwned(d) \/ AcquireFails(d) \/ InstallRefused(d)
    BY <1>0, <2>2 DEF AcquireOwned, AcquireFails, InstallRefused, Scoping, Pinned, Entered
  <2>3. CASE Install(d)
    BY <1>0, <2>3 DEF Install, Scoping
  <2>4. CASE Begin(d) \/ BeginFails(d) \/ BeginUnanswered(d) \/ DisableRetry(d)
    BY <1>0, <2>4 DEF Begin, BeginFails, BeginUnanswered, DisableRetry, Scoping, Scoped,
       Pinned, Entered
  <2>5. CASE StoreScope(d) \/ BumpDepth(d)
    BY <1>0, <2>5 DEF StoreScope, BumpDepth, Scoping, Ownership, Scoped, Pinned, Entered
  <2> QED  BY <1>1, <2>1, <2>2, <2>3, <2>4, <2>5 DEF Opening
<1>2. ASSUME NEW d \in Drivers, Closure(d)
      PROVE  Scoping'
  BY <1>0, <1>2 DEF Closure, IssueStatement, ExecuteStatement, StatementFails, Run,
     StatementAborts, ClosureReturns, Scoping, Scoped, Pinned, Entered
<1>3. ASSUME NEW d \in Drivers, Closing(d)
      PROVE  Scoping'
  <2>1. CASE Unpin(d)
    BY <1>0, <2>1 DEF Unpin, Scoping, Scoped, Pinned, Entered
  <2>2. CASE ~Unpin(d)
    BY <1>0, <1>3, <2>2 DEF Closing, Commit, CommitFails, CommitUnanswered, Rollback,
     RollbackUnanswered, Finished, RestoreRetry,
       ExitDepth, ClearScope, Scoping, Scoped, Pinned, Entered
  <2> QED  BY <2>1, <2>2
<1>4. ASSUME NEW d \in Drivers, Cancel(d)
      PROVE  Scoping'
  BY <1>0, <1>4 DEF Cancel, Scoping, Pinned, Entered
<1>5. CASE \/ \E t \in Tasks : Lock(t)
           \/ \E c \in Callers : Operation(c)
           \/ UNCHANGED vars
  BY <1>5, OthersKeepDrivers DEF DriverState, Scoping
<1> QED  BY <1>1, <1>2, <1>3, <1>4, <1>5 DEF Next

-----------------------------------------------------------------------------
(* The server sessions *)

(* A step of the owner keeps Servers when it keeps what the owner knows.     *)
LEMMA OwnerKeepsServers ==
    ASSUME Inv, NEW d \in Drivers, pc[d] \in Pinned, UNCHANGED <<slot, free, own>>,
           \A e \in Drivers : e # d => UNCHANGED DriverState(e),
           \A k \in Connections : k # slot => sessions'[k] = sessions[k],
           sessions'[slot].count = 0 => sessions'[slot].pending = {},
           pc'[d] \in Pinned => PinnedSession(d)'
    PROVE  Servers'
<1> USE DEF Inv
<1>0. own \in [Tasks -> Connections \cup {None}] /\ free \subseteq Connections
  BY Typed DEF TypeOK
<1>1. \A k \in Connections : sessions'[k].count = 0 => sessions'[k].pending = {}
  BY DEF Servers
<1>2. \A k \in free : sessions'[k] = sessions[k]
  BY <1>0 DEF Possession
<1>3. \A t \in Tasks : own[t] # None => sessions'[own[t]] = sessions[own[t]]
  BY <1>0 DEF Possession
<1>4. \A e \in Drivers : e # d => ~(pc'[e] \in Pinned)
  BY DEF Ownership, DriverState
<1> QED  BY <1>1, <1>2, <1>3, <1>4 DEF Servers

(* What the owner knows of the session in the slot.                          *)
LEMMA OwnerKnows ==
    ASSUME Inv, NEW d \in Drivers, pc[d] \in Pinned
    PROVE  /\ slot \in Connections /\ sessions[slot] \in SessionsOver(Statements)
           /\ PinnedSession(d)
           /\ sessions[slot].count = 0 => sessions[slot].pending = {}
           /\ sessions[slot].count \in Nat /\ sessions[slot].retry \in BOOLEAN
           /\ sessions[slot].sure \in BOOLEAN /\ savedRetry[d] \in BOOLEAN
<1>1. slot # None /\ PinnedSession(d)
  BY DEF Inv, Ownership, Servers
<1>2. slot \in Connections /\ sessions[slot] \in SessionsOver(Statements)
  BY <1>1, Typed DEF Inv
<1>3. /\ sessions[slot].count \in Nat /\ sessions[slot].retry \in BOOLEAN
      /\ sessions[slot].sure \in BOOLEAN
  BY <1>2 DEF SessionsOver
<1> QED  BY <1>1, <1>2, <1>3 DEF Inv, Possession, Servers, TypeOK

(* What each operation on the pinned connection leaves in the session.       *)
LEMMA PinnedSessionFields ==
    ASSUME TypeOK, slot \in Connections, NEW s, OnPinned(s)
    PROVE  /\ sessions'[slot] = s
           /\ \A k \in Connections : k # slot => sessions'[k] = sessions[k]
  BY Typed DEF OnPinned

(* Up to the closure: the connection that is installed is clean, and BEGIN   *)
(* is sent on it once.                                                       *)
LEMMA OpeningKeepsServers ==
    ASSUME Inv, NEW d \in Drivers, Opening(d)
    PROVE  Servers'
<1> USE DEF Goto, Return, pool, server, locals
<1>0. /\ pc \in [Tasks -> Places] /\ Drivers \subseteq Tasks
      /\ own \in [Tasks -> Connections \cup {None}] /\ free \subseteq Connections
      /\ savedRetry \in [Drivers -> BOOLEAN]
  BY Typed DEF Inv, TypeOK
<1>1. \A e \in Drivers : e # d => UNCHANGED DriverState(e)
  BY DriversKeepApart DEF Inv
<1>2. Servers /\ TypeOK /\ d \in Tasks
  BY <1>0 DEF Inv
<1>3. CASE StartTransaction(d) \/ AcquireFails(d)
  <2>1. /\ UNCHANGED <<sessions, slot, free, own, savedRetry>>
        /\ \A e \in Drivers : pc'[e] \in Pinned => pc'[e] = pc[e]
    BY <1>0, <1>3 DEF StartTransaction, AcquireFails, Pinned, Entered
  <2> QED  BY <1>2, <2>1 DEF Servers, PinnedSession
<1>4. CASE AcquireOwned(d)
  <2>1. PICK c \in free : free' = free \ {c} /\ own' = [own EXCEPT ![d] = c]
    BY <1>4 DEF AcquireOwned, CheckOut
  <2>2. /\ UNCHANGED <<sessions, slot, savedRetry>>
        /\ \A e \in Drivers : pc'[e] \in Pinned => pc'[e] = pc[e]
    BY <1>0, <1>4 DEF AcquireOwned, Pinned, Entered
  <2> QED  BY <1>0, <1>2, <2>1, <2>2 DEF Servers, PinnedSession
<1>5. CASE InstallRefused(d)
  <2>1. /\ UNCHANGED <<sessions, slot, savedRetry>>
        /\ free' = free \cup ({own[d]} \ {None}) /\ own' = [own EXCEPT ![d] = None]
        /\ \A e \in Drivers : pc'[e] \in Pinned => pc'[e] = pc[e]
    BY <1>0, <1>5 DEF InstallRefused, GiveBack, Pinned, Entered
  <2> QED  BY <1>0, <1>2, <2>1 DEF Servers, PinnedSession
<1>6. CASE Install(d)
  <2>1. /\ sessions' = sessions /\ free' = free /\ slot' = own[d] /\ slot = None
        /\ own' = [own EXCEPT ![d] = None] /\ own[d] # None
        /\ pc' = [pc EXCEPT ![d] = "begin"]
    BY <1>6 DEF Install, Inv, Possession
  <2>2. Clean(sessions[slot'])
    BY <1>2, <2>1 DEF Servers
  <2>3. \A e \in Drivers : pc'[e] \in Pinned => e = d
    BY <1>0, <2>1 DEF Inv, Ownership
  <2>4. PinnedSession(d)'
    BY <1>0, <1>2, <2>1, <2>2
       DEF PinnedSession, Clean, Open, Shut, Configured
  <2> QED  BY <1>0, <1>2, <2>1, <2>3, <2>4 DEF Servers
<1>7. CASE \/ Begin(d) \/ BeginFails(d) \/ BeginUnanswered(d) \/ DisableRetry(d)
           \/ StoreScope(d) \/ BumpDepth(d)
  <2>1. pc[d] \in Pinned
    BY <1>7 DEF Begin, BeginFails, BeginUnanswered, DisableRetry, StoreScope, BumpDepth, Pinned
  <2>2. /\ slot \in Connections /\ sessions[slot] \in SessionsOver(Statements)
        /\ PinnedSession(d)
        /\ sessions[slot].count = 0 => sessions[slot].pending = {}
        /\ sessions[slot].count \in Nat
    BY <2>1, OwnerKnows
  <2>3. CASE Begin(d)
    <3>1. /\ sessions'[slot] = BeginTran(sessions[slot])
          /\ \A k \in Connections : k # slot => sessions'[k] = sessions[k]
      BY <1>2, <2>2, <2>3, PinnedSessionFields DEF Begin
    <3>2. sessions'[slot].count = sessions[slot].count + 1
          /\ sessions'[slot].retry = sessions[slot].retry
          /\ sessions'[slot].sure = sessions[slot].sure
      BY <2>2, <3>1 DEF BeginTran, SessionsOver
    <3>3. pc[d] = "begin" /\ pc'[d] = "disable" /\ UNCHANGED <<slot, free, own, savedRetry>>
      BY <1>2, <1>0, <2>3 DEF Begin
    <3>4. PinnedSession(d)'
      BY <2>2, <3>2, <3>3 DEF PinnedSession, Open, Shut, Configured
    <3>5. sessions'[slot].count # 0
      BY <2>2, <3>2
    <3> QED  BY <1>1, <2>1, <3>1, <3>3, <3>4, <3>5, OwnerKeepsServers
  <2>4. CASE DisableRetry(d)
    <3>1. /\ sessions'[slot] = WithRetry(sessions[slot], FALSE)
          /\ \A k \in Connections : k # slot => sessions'[k] = sessions[k]
      BY <1>2, <2>2, <2>4, PinnedSessionFields DEF DisableRetry
    <3>2. sessions'[slot].count = sessions[slot].count
          /\ sessions'[slot].pending = sessions[slot].pending
          /\ sessions'[slot].sure = sessions[slot].sure
      BY <2>2, <3>1 DEF WithRetry, SessionsOver
    <3>3. /\ pc[d] = "disable" /\ pc'[d] = "store" /\ UNCHANGED <<slot, free, own>>
          /\ savedRetry'[d] = sessions[slot].retry
      BY <1>0, <1>2, <2>4 DEF DisableRetry
    <3>4. PinnedSession(d)'
      BY <2>2, <3>2, <3>3 DEF PinnedSession, Open, Shut, Configured
    <3> QED  BY <1>1, <2>1, <2>2, <3>1, <3>2, <3>3, <3>4, OwnerKeepsServers
  <2>5. CASE BeginFails(d) \/ StoreScope(d) \/ BumpDepth(d)
    <3>1. UNCHANGED <<sessions, slot, free, own, savedRetry>>
      BY <2>5 DEF BeginFails, StoreScope, BumpDepth
    <3>2. \/ pc[d] = "begin" /\ pc'[d] = "unpin"
          \/ pc[d] = "store" /\ pc'[d] = "bump"
          \/ pc[d] = "bump" /\ pc'[d] = "body"
      BY <1>0, <1>2, <2>5 DEF BeginFails, StoreScope, BumpDepth
    <3>3. PinnedSession(d)'
      BY <2>2, <3>1, <3>2 DEF PinnedSession, Open, Shut, Configured
    <3> QED  BY <1>1, <2>1, <2>2, <3>1, <3>3, OwnerKeepsServers
  <2>6. CASE BeginUnanswered(d)
    <3>1. PICK s \in {sessions[slot], BeginTran(sessions[slot])} : OnPinned(Unsure(s))
      BY <2>6 DEF BeginUnanswered
    <3>2. /\ sessions'[slot] = Unsure(s)
          /\ \A k \in Connections : k # slot => sessions'[k] = sessions[k]
      BY <1>2, <2>2, <3>1, PinnedSessionFields
    <3>3. /\ s.count = 0 => s.pending = {}
          /\ s.retry = sessions[slot].retry /\ s \in SessionsOver(Statements)
      BY <2>2, <3>1 DEF BeginTran, SessionsOver
    <3>4. /\ sessions'[slot].count = 0 => sessions'[slot].pending = {}
          /\ sessions'[slot].retry = sessions[slot].retry
          /\ sessions'[slot].sure = FALSE
      BY <3>2, <3>3 DEF Unsure, SessionsOver
    <3>5. pc[d] = "begin" /\ pc'[d] = "unpin" /\ UNCHANGED <<slot, free, own, savedRetry>>
      BY <1>2, <1>0, <2>6 DEF BeginUnanswered
    <3>6. PinnedSession(d)'
      BY <2>2, <3>4, <3>5 DEF PinnedSession, Open, Shut, Configured
    <3> QED  BY <1>1, <2>1, <3>2, <3>4, <3>5, <3>6, OwnerKeepsServers
  <2> QED  BY <1>7, <2>3, <2>4, <2>5, <2>6
<1> QED  BY <1>3, <1>4, <1>5, <1>6, <1>7 DEF Opening

(* A driver whose statement joins the open transaction.                      *)
LEMMA StatementJoins ==
    ASSUME Inv, NEW d \in Drivers, pc[d] = "statement"
    PROVE  LET s == JoinTran(sessions[slot], Statement(d))
           IN  /\ s.count = sessions[slot].count /\ s.count > 0
               /\ s.retry = sessions[slot].retry /\ s.sure = sessions[slot].sure
               /\ s.pending = sessions[slot].pending \cup {Statement(d)}
               /\ AutoCommitted(sessions[slot], Statement(d)) = {}
<1>1. sessions[slot] \in SessionsOver(Statements) /\ PinnedSession(d)
  BY OwnerKnows DEF Pinned, Entered
<1>2. sessions[slot].count > 0
  BY <1>1 DEF PinnedSession, Open
<1> QED  BY <1>1, <1>2 DEF JoinTran, AutoCommitted, InTransaction, SessionsOver

(* The closure: a statement joins the transaction or ends it.                *)
LEMMA ClosureKeepsServers ==
    ASSUME Inv, NEW d \in Drivers, Closure(d)
    PROVE  Servers'
<1> USE DEF Goto, Return, pool, server, locals
<1>0. pc \in [Tasks -> Places] /\ d \in Tasks /\ TypeOK
  BY Typed DEF Inv
<1>1. \A e \in Drivers : e # d => UNCHANGED DriverState(e)
  BY DriversKeepApart DEF Inv
<1>2. pc[d] \in {"body", "statement"} /\ pc[d] \in Pinned
  BY DEF Closure, IssueStatement, ExecuteStatement, StatementFails, Run, StatementAborts,
     ClosureReturns, Pinned, Entered
<1>3. /\ slot \in Connections /\ sessions[slot] \in SessionsOver(Statements)
      /\ PinnedSession(d)
      /\ sessions[slot].count = 0 => sessions[slot].pending = {}
  BY <1>2, OwnerKnows
<1>4. UNCHANGED <<slot, free, own, savedRetry>>
  BY DEF Closure, IssueStatement, ExecuteStatement, StatementFails, Run, StatementAborts,
     ClosureReturns
<1>5. ASSUME ExecuteStatement(d) \/ StatementFails(d), Run(d)
      PROVE  Servers'
  <2>1. /\ sessions'[slot] = JoinTran(sessions[slot], Statement(d))
        /\ \A k \in Connections : k # slot => sessions'[k] = sessions[k]
    BY <1>0, <1>3, <1>5, Typed DEF Run, Execute
  <2>2. /\ sessions'[slot].count = sessions[slot].count /\ sessions'[slot].count > 0
        /\ sessions'[slot].retry = sessions[slot].retry
        /\ sessions'[slot].sure = sessions[slot].sure
    BY <1>5, <2>1, StatementJoins DEF ExecuteStatement, StatementFails
  <2>3. pc[d] = "statement" /\ pc'[d] = "body"
    BY <1>0, <1>5 DEF ExecuteStatement, StatementFails
  <2>4. PinnedSession(d)'
    BY <1>3, <1>4, <2>2, <2>3 DEF PinnedSession, Open, Shut, Configured
  <2> QED  BY <1>1, <1>2, <1>4, <2>1, <2>2, <2>4, OwnerKeepsServers
<1>6. CASE StatementAborts(d)
  <2>1. /\ sessions'[slot] = RollbackTran(sessions[slot])
        /\ \A k \in Connections : k # slot => sessions'[k] = sessions[k]
    BY <1>0, <1>3, <1>6, PinnedSessionFields DEF StatementAborts
  <2>2. sessions'[slot].count = 0 /\ sessions'[slot].pending = {}
    BY <1>3, <2>1 DEF RollbackTran, SessionsOver
  <2>3. pc[d] = "statement" /\ pc'[d] = "rollback"
    BY <1>0, <1>6 DEF StatementAborts
  <2>4. PinnedSession(d)'
    BY <1>3, <1>4, <2>2, <2>3 DEF PinnedSession, Open, Shut, Configured
  <2> QED  BY <1>1, <1>2, <1>4, <2>1, <2>2, <2>4, OwnerKeepsServers
<1>7. ASSUME \/ IssueStatement(d) \/ ClosureReturns(d)
             \/ StatementFails(d) /\ UNCHANGED <<server, ran>>
      PROVE  Servers'
  <2>1. sessions' = sessions /\ pc'[d] \in {"statement", "body", "commit", "rollback"}
    BY <1>0, <1>7 DEF IssueStatement, StatementFails, ClosureReturns
  <2>2. PinnedSession(d)'
    BY <1>2, <1>3, <1>4, <2>1 DEF PinnedSession, Open, Shut, Configured
  <2> QED  BY <1>1, <1>2, <1>3, <1>4, <2>1, <2>2, OwnerKeepsServers
<1> QED  BY <1>5, <1>6, <1>7 DEF Closure, ExecuteStatement, StatementFails

(* What the COMMIT of the owner leaves: no transaction, or the ones it was   *)
(* nested in, of a session that once went without an answer.                 *)
LEMMA CommitLeaves ==
    ASSUME Inv, NEW d \in Drivers, pc[d] = "commit"
    PROVE  LET s == CommitTran(sessions[slot])
           IN  /\ InTransaction(sessions[slot]) /\ s \in SessionsOver(Statements)
               /\ s.count = 0 => s.pending = {}
               /\ s.sure = sessions[slot].sure /\ (s.sure => s.count = 0)
<1>1. sessions[slot] \in SessionsOver(Statements) /\ PinnedSession(d)
  BY OwnerKnows DEF Pinned, Entered
<1>2. /\ sessions[slot].count > 0 /\ sessions[slot].count \in Nat
      /\ sessions[slot].sure => sessions[slot].count = 1
  BY <1>1 DEF PinnedSession, Open, SessionsOver
<1>3. InTransaction(sessions[slot]) /\ CommitTran(sessions[slot]) \in SessionsOver(Statements)
  BY <1>1, <1>2, SessionTyped DEF InTransaction
<1>4. CommitTran(sessions[slot]).sure = sessions[slot].sure
  BY <1>1, SessionAnswers
<1>5. CASE sessions[slot].count = 1
  BY <1>1, <1>3, <1>4, <1>5, SessionFields
<1>6. CASE sessions[slot].count > 1
  <2>1. CommitTran(sessions[slot]).count = sessions[slot].count - 1
    BY <1>1, <1>6, SessionFields
  <2>2. ~(CommitTran(sessions[slot]).count = 0) /\ ~(sessions[slot].count = 1)
    BY <1>2, <1>6, <2>1
  <2>3. sessions[slot].sure = FALSE
    BY <1>1, <1>2, <2>2 DEF SessionsOver
  <2> QED  BY <1>3, <1>4, <2>2, <2>3
<1> QED  BY <1>2, <1>5, <1>6

(* After the closure: what goes back to the pool is clean, as far as the     *)
(* answers told.                                                             *)
LEMMA ClosingKeepsServers ==
    ASSUME Inv, NEW d \in Drivers, Closing(d)
    PROVE  Servers'
<1> USE DEF Goto, Return, pool, server, locals
<1>0. pc \in [Tasks -> Places] /\ d \in Tasks /\ TypeOK
  BY Typed DEF Inv
<1>1. \A e \in Drivers : e # d => UNCHANGED DriverState(e)
  BY DriversKeepApart DEF Inv
<1>2. pc[d] \in Pinned
  BY DEF Closing, Commit, CommitFails, CommitUnanswered, Rollback,
     RollbackUnanswered, RestoreRetry, ExitDepth, ClearScope,
     Unpin, Pinned, Entered
<1>3. /\ slot \in Connections /\ sessions[slot] \in SessionsOver(Statements)
      /\ PinnedSession(d) /\ savedRetry[d] \in BOOLEAN
      /\ sessions[slot].count = 0 => sessions[slot].pending = {}
  BY <1>2, OwnerKnows
<1>4. CASE Commit(d)
  <2>1. pc[d] = "commit" /\ pc'[d] = "restore" /\ UNCHANGED <<slot, free, own, savedRetry>>
    BY <1>0, <1>4 DEF Commit, Finished
  <2>2. /\ sessions'[slot] = CommitTran(sessions[slot])
        /\ \A k \in Connections : k # slot => sessions'[k] = sessions[k]
    BY <1>0, <1>3, <1>4, PinnedSessionFields DEF Commit
  <2>3. /\ sessions'[slot].count = 0 => sessions'[slot].pending = {}
        /\ sessions'[slot].sure => sessions'[slot].count = 0
    BY <2>1, <2>2, CommitLeaves
  <2>4. PinnedSession(d)'
    BY <1>3, <2>1, <2>3 DEF PinnedSession, Open, Shut, Configured
  <2> QED  BY <1>1, <1>2, <2>1, <2>2, <2>3, <2>4, OwnerKeepsServers
<1>5. CASE CommitFails(d) \/ Rollback(d)
  <2>1. /\ pc[d] \in {"commit", "rollback"} /\ pc'[d] = "restore"
        /\ UNCHANGED <<slot, free, own, savedRetry>>
    BY <1>0, <1>5 DEF CommitFails, Rollback, Finished
  <2>2. /\ sessions'[slot] = RollbackTran(sessions[slot])
        /\ \A k \in Connections : k # slot => sessions'[k] = sessions[k]
    BY <1>0, <1>3, <1>5, PinnedSessionFields DEF CommitFails, Rollback
  <2>3. sessions'[slot].count = 0 /\ sessions'[slot].pending = {}
    BY <1>3, <2>2, SessionFields
  <2>4. PinnedSession(d)'
    BY <1>3, <2>1, <2>3 DEF PinnedSession, Open, Shut, Configured
  <2> QED  BY <1>1, <1>2, <2>1, <2>2, <2>3, <2>4, OwnerKeepsServers
<1>6. CASE RestoreRetry(d)
  <2>1. pc[d] = "restore" /\ pc'[d] = "exit" /\ UNCHANGED <<slot, free, own, savedRetry>>
    BY <1>0, <1>6 DEF RestoreRetry
  <2>2. /\ sessions'[slot] = WithRetry(sessions[slot], savedRetry[d])
        /\ \A k \in Connections : k # slot => sessions'[k] = sessions[k]
    BY <1>0, <1>3, <1>6, PinnedSessionFields DEF RestoreRetry
  <2>3. /\ sessions'[slot].count = sessions[slot].count
        /\ sessions'[slot].pending = sessions[slot].pending
        /\ sessions'[slot].retry = savedRetry[d]
        /\ sessions'[slot].sure = sessions[slot].sure
    BY <1>3, <2>2 DEF WithRetry, SessionsOver
  <2>4. PinnedSession(d)'
    BY <1>3, <2>1, <2>3 DEF PinnedSession, Open, Shut, Configured
  <2> QED  BY <1>1, <1>2, <1>3, <2>1, <2>2, <2>3, <2>4, OwnerKeepsServers
<1>7. CASE ExitDepth(d) \/ ClearScope(d)
  <2>1. /\ UNCHANGED <<sessions, slot, free, own, savedRetry>>
        /\ \/ pc[d] = "exit" /\ pc'[d] = "leave"
           \/ pc[d] = "leave" /\ pc'[d] = "unpin"
    BY <1>0, <1>7 DEF ExitDepth, ClearScope
  <2>2. PinnedSession(d)'
    BY <1>3, <2>1 DEF PinnedSession, Open, Shut, Configured
  <2> QED  BY <1>1, <1>2, <1>3, <2>1, <2>2, OwnerKeepsServers
<1>9. CASE CommitUnanswered(d) \/ RollbackUnanswered(d)
  <2>1. /\ pc[d] \in {"commit", "rollback"} /\ pc'[d] = "restore"
        /\ UNCHANGED <<slot, free, own, savedRetry>>
    BY <1>0, <1>9 DEF CommitUnanswered, RollbackUnanswered, Finished
  <2>2. PICK s \in SessionsOver(Statements) :
           OnPinned(Unsure(s)) /\ (s.count = 0 => s.pending = {})
    <3>1. /\ RollbackTran(sessions[slot]) \in SessionsOver(Statements)
          /\ RollbackTran(sessions[slot]).pending = {}
      BY <1>3, SessionTyped, SessionFields
    <3> QED  BY <1>3, <1>9, <3>1, CommitLeaves DEF CommitUnanswered, RollbackUnanswered
  <2>3. /\ sessions'[slot] = Unsure(s)
        /\ \A k \in Connections : k # slot => sessions'[k] = sessions[k]
    BY <1>0, <1>3, <2>2, PinnedSessionFields
  <2>4. /\ sessions'[slot].count = 0 => sessions'[slot].pending = {}
        /\ sessions'[slot].sure = FALSE
    BY <2>2, <2>3 DEF Unsure, SessionsOver
  <2>5. PinnedSession(d)'
    BY <1>3, <2>1, <2>4 DEF PinnedSession, Open, Shut, Configured
  <2> QED  BY <1>1, <1>2, <2>1, <2>3, <2>4, <2>5, OwnerKeepsServers
<1>8. CASE Unpin(d)
  <2>1. /\ UNCHANGED <<sessions, own, savedRetry>> /\ free' = free \cup {slot}
        /\ pc[d] = "unpin" /\ pc' = [pc EXCEPT ![d] = "idle"]
    BY <1>8 DEF Unpin
  <2>2. Clean(sessions[slot])
    BY <1>3, <2>1 DEF PinnedSession, Shut, Configured, Clean
  <2>3. \A e \in Drivers : ~(pc'[e] \in Pinned)
    BY <1>0, <1>2, <2>1 DEF Inv, Ownership, Pinned, Entered
  <2> QED  BY <2>1, <2>2, <2>3 DEF Inv, Servers
<1> QED  BY <1>4, <1>5, <1>6, <1>7, <1>8, <1>9 DEF Closing

(* The batch of a dropped future is one of those above.                      *)
LEMMA InFlightTyped ==
    ASSUME Inv, NEW d \in Drivers, pc[d] \in {"begin", "statement", "commit", "rollback"}
    PROVE  /\ InFlight(d) \in SessionsOver(Statements)
           /\ InFlight(d).count = 0 => InFlight(d).pending = {}
<1>1. sessions[slot] \in SessionsOver(Statements) /\ sessions[slot].count \in Nat
  BY OwnerKnows DEF Pinned, Entered
<1>2. CASE pc[d] = "begin"
  <2>1. /\ BeginTran(sessions[slot]) \in SessionsOver(Statements)
        /\ BeginTran(sessions[slot]).count = sessions[slot].count + 1
    BY <1>1, SessionTyped, SessionFields
  <2> QED  BY <1>1, <1>2, <2>1 DEF InFlight
<1>3. CASE pc[d] = "statement"
  <2>1. Statement(d) \in Statements
    BY StatementTyped DEF Inv, Tasks
  <2>2. JoinTran(sessions[slot], Statement(d)) \in SessionsOver(Statements)
    BY <1>1, <2>1, SessionTyped
  <2> QED  BY <1>3, <2>2, StatementJoins DEF InFlight
<1>4. CASE pc[d] = "commit"
  BY <1>4, CommitLeaves DEF InFlight
<1>5. CASE pc[d] = "rollback"
  <2>1. /\ RollbackTran(sessions[slot]) \in SessionsOver(Statements)
        /\ RollbackTran(sessions[slot]).pending = {}
    BY <1>1, SessionTyped, SessionFields
  <2> QED  BY <1>5, <2>1 DEF InFlight
<1> QED  BY <1>2, <1>3, <1>4, <1>5

(* A dropped future leaves the connection in the slot, with whatever its     *)
(* last batch did.                                                           *)
LEMMA CancelKeepsServers ==
    ASSUME Inv, NEW d \in Drivers, Cancel(d)
    PROVE  Servers'
<1> USE DEF Goto, Return, pool, server, locals
<1>0. /\ pc \in [Tasks -> Places] /\ d \in Tasks /\ TypeOK
      /\ own \in [Tasks -> Connections \cup {None}]
  BY Typed DEF Inv
<1>1. \A e \in Drivers : e # d => UNCHANGED DriverState(e)
  BY DriversKeepApart DEF Inv
<1>2. /\ slot' = slot /\ free' = free \cup ({own[d]} \ {None}) /\ own' = [own EXCEPT ![d] = None]
      /\ pc' = [pc EXCEPT ![d] = "idle"] /\ savedRetry' = savedRetry
  BY DEF Cancel, GiveBack
<1>3. CASE sessions' = sessions
  <2>1. \A e \in Drivers : pc'[e] \in Pinned => pc'[e] = pc[e]
    BY <1>0, <1>2 DEF Pinned, Entered
  <2> QED  BY <1>0, <1>2, <1>3, <2>1 DEF Inv, Servers, PinnedSession
<1>4. CASE sessions' # sessions
  <2>1. pc[d] \in {"begin", "statement", "commit", "rollback"} /\ OnPinned(Unsure(InFlight(d)))
    BY <1>4 DEF Cancel
  <2>2. pc[d] \in Pinned
    BY <2>1 DEF Pinned, Entered
  <2>3. slot \in Connections
    BY <2>2, OwnerKnows
  <2>4. own[d] = None
    BY <2>1 DEF Inv, Possession
  <2>5. UNCHANGED <<slot, free, own>>
    BY <1>0, <1>2, <2>4
  <2>6. /\ sessions'[slot] = Unsure(InFlight(d))
        /\ \A k \in Connections : k # slot => sessions'[k] = sessions[k]
    BY <1>0, <2>1, <2>3, PinnedSessionFields
  <2>7. /\ InFlight(d) \in SessionsOver(Statements)
        /\ InFlight(d).count = 0 => InFlight(d).pending = {}
    BY <2>1, InFlightTyped
  <2>9. sessions'[slot].count = 0 => sessions'[slot].pending = {}
    BY <2>6, <2>7 DEF Unsure, SessionsOver
  <2>8. ~(pc'[d] \in Pinned)
    BY <1>0, <1>2 DEF Pinned, Entered
  <2> QED  BY <1>1, <2>2, <2>5, <2>6, <2>8, <2>9, OwnerKeepsServers
<1> QED  BY <1>3, <1>4

(* One step keeps what is known of the sessions.                             *)
LEMMA ServersStep ==
    ASSUME Inv, [Next]_vars
    PROVE  Servers'
<1>1. CASE \/ \E t \in Tasks : Lock(t)
           \/ \E c \in Callers : Operation(c)
           \/ UNCHANGED vars
  <2>0. free \subseteq Connections /\ own \in [Tasks -> Connections \cup {None}]
        /\ Callers \subseteq Tasks
    BY Typed DEF Inv, TypeOK
  <2>1. \A k \in Connections :
           /\ sessions'[k].count = sessions[k].count
           /\ sessions'[k].retry = sessions[k].retry
           /\ sessions'[k].sure = sessions[k].sure
           /\ sessions[k].count = 0 => sessions'[k].pending = sessions[k].pending
    BY <1>1, OthersKeepSessions
  <2>2. /\ slot' = slot
        /\ \A d \in Drivers : pc'[d] = pc[d] /\ savedRetry'[d] = savedRetry[d]
    BY <1>1, OthersKeepDrivers DEF DriverState, Inv
  <2>3. /\ \A k \in free' : k \in free \/ \E u \in Tasks : own[u] # None /\ k = own[u]
        /\ \A t \in Tasks : own'[t] # None =>
              own'[t] \in free \/ \E u \in Tasks : own[u] # None /\ own'[t] = own[u]
    <3>1. ASSUME NEW t \in Tasks, Lock(t)
          PROVE  UNCHANGED <<free, own>>
      BY <3>1 DEF Lock, CheckScope, Enqueue, pool
    <3>2. ASSUME NEW c \in Callers, OperationAcquires(c)
          PROVE  \E k \in free : free' = free \ {k} /\ own' = [own EXCEPT ![c] = k]
      BY <3>2 DEF OperationAcquires, CheckOut
    <3>3. ASSUME NEW c \in Callers, OperationOnOwn(c)
          PROVE  free' = free \cup ({own[c]} \ {None}) /\ own' = [own EXCEPT ![c] = None]
      BY <3>3 DEF OperationOnOwn, GiveBack
    <3>4. ASSUME NEW c \in Callers, Operation(c), ~OperationAcquires(c), ~OperationOnOwn(c)
          PROVE  UNCHANGED <<free, own>>
      BY <3>4 DEF Operation, StartOperation, OperationRejected, OperationOnPinned,
         OperationToPool, OperationAcquireFails, pool
    <3>5. CASE UNCHANGED vars
      BY <3>5 DEF vars, pool
    <3>6. ASSUME NEW c \in Callers, Operation(c)
          PROVE  <2>3
      <4>1. CASE OperationAcquires(c)
        BY <2>0, <3>2, <4>1
      <4>2. CASE OperationOnOwn(c)
        BY <2>0, <3>3, <4>2
      <4>3. CASE ~OperationAcquires(c) /\ ~OperationOnOwn(c)
        BY <3>4, <3>6, <4>3
      <4> QED  BY <4>1, <4>2, <4>3
    <3> QED  BY <1>1, <3>1, <3>5, <3>6
  <2>4. \A k \in Connections : Clean(sessions[k]) => Clean(sessions'[k])
    BY <2>1 DEF Clean
  <2>5. \A k \in Connections : sessions'[k].count = 0 => sessions'[k].pending = {}
    BY <2>1 DEF Inv, Servers
  <2>6. \A k \in free' : Clean(sessions'[k])
    BY <2>0, <2>3, <2>4 DEF Inv, Servers
  <2>7. \A t \in Tasks : own'[t] # None => Clean(sessions'[own'[t]])
    BY <2>0, <2>3, <2>4 DEF Inv, Servers
  <2>8. \A d \in Drivers : pc'[d] \in Pinned => PinnedSession(d)'
    <3> SUFFICES ASSUME NEW d \in Drivers, pc[d] \in Pinned
                 PROVE  PinnedSession(d)'
      BY <2>2
    <3>1. slot \in Connections /\ PinnedSession(d)
      BY OwnerKnows
    <3> QED  BY <2>1, <2>2, <3>1 DEF PinnedSession
  <2> QED  BY <2>5, <2>6, <2>7, <2>8 DEF Servers
<1> QED  BY <1>1, OpeningKeepsServers, ClosureKeepsServers, ClosingKeepsServers,
            CancelKeepsServers DEF Next

-----------------------------------------------------------------------------
(* What drivers have been told *)

(* Who does not own the slot leaves the pinned session alone.                *)
LEMMA OutsidersKeepSlot ==
    ASSUME Inv, NEW d \in Drivers, Opening(d) \/ Closure(d) \/ Closing(d) \/ Cancel(d),
           pc[d] \notin Pinned, slot # None
    PROVE  slot' = slot /\ sessions' = sessions
<1> USE DEF server
<1>1. CASE Opening(d)
  BY <1>1 DEF Opening, StartTransaction, AcquireOwned, AcquireFails, Install,
     InstallRefused, Begin, BeginFails, BeginUnanswered, DisableRetry, StoreScope, BumpDepth, Pinned
<1>2. CASE Closure(d)
  BY <1>2 DEF Closure, IssueStatement, ExecuteStatement, StatementFails, Run, StatementAborts,
     ClosureReturns, Pinned, Entered
<1>3. CASE Closing(d)
  BY <1>3 DEF Closing, Commit, CommitFails, CommitUnanswered, Rollback,
     RollbackUnanswered, RestoreRetry, ExitDepth, ClearScope,
     Unpin, Pinned, Entered
<1>4. CASE Cancel(d)
  BY <1>4 DEF Cancel, Pinned, Entered
<1> QED  BY <1>1, <1>2, <1>3, <1>4

(* What a driver has been told when its closure starts: nothing.             *)
LEMMA OpeningTells ==
    ASSUME Inv, NEW d \in Drivers, Opening(d)
    PROVE  ToldTo(d)'
<1> USE DEF Goto, Return, server, locals, counters
<1>0. /\ pc \in [Tasks -> Places] /\ d \in Tasks /\ TypeOK
      /\ ran \in [Drivers -> SUBSET Statements]
      /\ outcome \in [Drivers -> Outcomes]
      /\ calls[d] \in Nat /\ calls \in [Tasks -> 0..MaxCalls]
  BY Typed DEF Inv, TypeOK
<1>1. ToldTo(d)
  BY DEF Inv, Told
<1>2. CASE StartTransaction(d)
  <2>1. /\ calls'[d] = calls[d] + 1 /\ ran'[d] = {}
        /\ \/ pc'[d] = "idle" /\ outcome'[d] = "err"
           \/ pc'[d] = "acquire" /\ outcome'[d] = "none"
    BY <1>0, <1>2 DEF StartTransaction
  <2> QED  BY <1>0, <2>1 DEF ToldTo, Undecided, Open
<1>3. CASE AcquireOwned(d) \/ Install(d)
  <2>1. /\ UNCHANGED <<outcome, calls, ran>>
        /\ pc[d] \in {"acquire", "install"} /\ pc'[d] \in {"install", "begin"}
    BY <1>0, <1>3 DEF AcquireOwned, Install
  <2> QED  BY <1>1, <2>1 DEF ToldTo, Undecided, Open
<1>4. CASE AcquireFails(d) \/ InstallRefused(d) \/ BeginFails(d) \/ BeginUnanswered(d)
  <2>1. /\ UNCHANGED calls /\ pc[d] # "idle" /\ pc'[d] \in {"idle", "unpin"}
        /\ outcome'[d] \in {"err", "unanswered"}
    BY <1>0, <1>4 DEF AcquireFails, InstallRefused, BeginFails, BeginUnanswered
  <2> QED  BY <1>1, <2>1 DEF ToldTo, Undecided, Open
<1>5. CASE Begin(d)
  <2>1. /\ UNCHANGED <<outcome, calls, ran, slot>>
        /\ pc[d] = "begin" /\ pc'[d] = "disable"
    BY <1>0, <1>5 DEF Begin
  <2>2. /\ slot \in Connections /\ sessions[slot] \in SessionsOver(Statements)
        /\ sessions[slot].count \in Nat
        /\ sessions[slot].count = 0 => sessions[slot].pending = {}
    BY <2>1, OwnerKnows DEF Pinned
  <2>3. sessions'[slot].count = 1 => sessions'[slot].pending = {}
    <3>1. sessions'[slot] = BeginTran(sessions[slot])
      BY <1>0, <1>5, <2>2, PinnedSessionFields DEF Begin
    <3>2. /\ BeginTran(sessions[slot]).count = sessions[slot].count + 1
          /\ BeginTran(sessions[slot]).pending = sessions[slot].pending
      BY <2>2, SessionFields
    <3> QED  BY <2>2, <3>1, <3>2
  <2> QED  BY <1>1, <2>1, <2>3 DEF ToldTo, Undecided, Open, OfDrivers
<1>6. CASE DisableRetry(d) \/ StoreScope(d) \/ BumpDepth(d)
  <2>1. /\ UNCHANGED <<outcome, calls, ran, slot>>
        /\ pc[d] \in {"disable", "store", "bump"} /\ pc'[d] \in {"store", "bump", "body"}
    BY <1>0, <1>6 DEF DisableRetry, StoreScope, BumpDepth
  <2>2. slot \in Connections /\ sessions[slot] \in SessionsOver(Statements)
    BY <2>1, OwnerKnows DEF Pinned
  <2>3. /\ sessions'[slot].pending = sessions[slot].pending
        /\ sessions'[slot].count = sessions[slot].count
    <3>1. CASE DisableRetry(d)
      <4>1. sessions'[slot] = WithRetry(sessions[slot], FALSE)
        BY <1>0, <2>2, <3>1, PinnedSessionFields DEF DisableRetry
      <4> QED  BY <2>2, <4>1 DEF WithRetry, SessionsOver
    <3>2. CASE StoreScope(d) \/ BumpDepth(d)
      BY <3>2 DEF StoreScope, BumpDepth
    <3> QED  BY <1>6, <3>1, <3>2
  <2> QED  BY <1>1, <2>1, <2>3 DEF ToldTo, Undecided, Open
<1> QED  BY <1>2, <1>3, <1>4, <1>5, <1>6 DEF Opening

(* The closure is told of exactly the statements that join its transaction.  *)
LEMMA ClosureTells ==
    ASSUME Inv, NEW d \in Drivers, Closure(d)
    PROVE  ToldTo(d)'
<1> USE DEF Goto, server, locals, counters
<1>0. /\ pc \in [Tasks -> Places] /\ d \in Tasks /\ TypeOK
      /\ ran \in [Drivers -> SUBSET Statements] /\ issued \in [Tasks -> Nat]
      /\ sessions \in [Connections -> SessionsOver(Statements)]
  BY Typed DEF Inv, TypeOK
<1>1. ToldTo(d)
  BY DEF Inv, Told
<1>2. ASSUME ExecuteStatement(d) \/ StatementFails(d), Run(d)
      PROVE  ToldTo(d)'
  <2>1. /\ UNCHANGED <<outcome, calls, slot>> /\ pc[d] = "statement" /\ pc'[d] = "body"
        /\ ran'[d] = ran[d] \cup {Statement(d)}
    BY <1>0, <1>2 DEF ExecuteStatement, StatementFails, Run
  <2>2. slot \in Connections
    BY <2>1, OwnerKnows DEF Pinned, Entered
  <2>3. sessions'[slot] = JoinTran(sessions[slot], Statement(d))
    BY <1>0, <1>2, <2>2 DEF Run, Execute
  <2>4. /\ sessions'[slot].pending = sessions[slot].pending \cup {Statement(d)}
        /\ sessions'[slot].count = sessions[slot].count
    BY <2>1, <2>3, StatementJoins
  <2>5. Statement(d)[1] \in Drivers
    BY DEF Statement
  <2>6. sessions'[slot].count = 1 => OfDrivers(sessions'[slot].pending) = ran'[d]
    BY <1>1, <2>1, <2>4, <2>5 DEF ToldTo, Open, OfDrivers
  <2> QED  BY <1>1, <2>1, <2>6 DEF ToldTo, Undecided, Open
<1>3. CASE StatementAborts(d)
  <2>1. /\ UNCHANGED <<outcome, calls>> /\ pc[d] = "statement" /\ pc'[d] = "rollback"
    BY <1>0, <1>3 DEF StatementAborts
  <2> QED  BY <1>1, <2>1 DEF ToldTo, Undecided, Open
<1>4. ASSUME \/ IssueStatement(d) \/ ClosureReturns(d)
             \/ StatementFails(d) /\ UNCHANGED <<server, ran>>
      PROVE  ToldTo(d)'
  <2>1. /\ UNCHANGED <<outcome, calls, ran, slot, sessions>> /\ pc[d] \in {"body", "statement"}
        /\ pc'[d] \in {"statement", "body", "commit", "rollback"}
        /\ pc'[d] = "statement" => issued'[d] = issued[d] + 1
    BY <1>0, <1>4 DEF IssueStatement, StatementFails, ClosureReturns
  <2>2. pc'[d] = "statement" => issued'[d] > 0
    BY <1>0, <2>1
  <2> QED  BY <1>1, <2>1, <2>2 DEF ToldTo, Undecided, Open
<1> QED  BY <1>2, <1>3, <1>4 DEF Closure, ExecuteStatement, StatementFails

(* The answer is decided at COMMIT or ROLLBACK and does not change after.    *)
LEMMA ClosingTells ==
    ASSUME Inv, NEW d \in Drivers, Closing(d) \/ Cancel(d)
    PROVE  ToldTo(d)'
<1> USE DEF Goto, Return, locals, counters
<1>0. /\ pc \in [Tasks -> Places] /\ d \in Tasks
      /\ outcome \in [Drivers -> Outcomes]
  BY Typed DEF Inv, TypeOK
<1>1. ToldTo(d)
  BY DEF Inv, Told
<1>2. CASE \/ Commit(d) \/ CommitFails(d) \/ CommitUnanswered(d) \/ Rollback(d)
           \/ RollbackUnanswered(d)
  <2>1. /\ calls' = calls /\ pc[d] # "idle" /\ pc'[d] = "restore"
        /\ outcome'[d] \in {"ok", "err", "unanswered", "unknown"}
    BY <1>0, <1>2 DEF Commit, CommitFails, CommitUnanswered, Rollback, RollbackUnanswered,
       Finished
  <2> QED  BY <1>1, <2>1 DEF ToldTo, Undecided, Open
<1>3. CASE RestoreRetry(d) \/ ExitDepth(d) \/ ClearScope(d) \/ Unpin(d)
  <2>1. /\ UNCHANGED <<calls, outcome>> /\ pc[d] \in {"restore", "exit", "leave", "unpin"}
        /\ pc'[d] \in {"exit", "leave", "unpin", "idle"}
    BY <1>0, <1>3 DEF RestoreRetry, ExitDepth, ClearScope, Unpin
  <2> QED  BY <1>1, <2>1 DEF ToldTo, Undecided, Open
<1>4. CASE Cancel(d)
  <2>1. calls' = calls /\ pc'[d] = "idle" /\ outcome'[d] = "cancelled"
    BY <1>0, <1>4 DEF Cancel
  <2> QED  BY <1>1, <2>1 DEF ToldTo, Undecided, Open
<1> QED  BY <1>2, <1>3, <1>4 DEF Closing

(* What one driver has been told is not disturbed by the others.             *)
LEMMA ToldStep ==
    ASSUME Inv, [Next]_vars
    PROVE  Told'
<1> SUFFICES ASSUME NEW e \in Drivers
             PROVE  ToldTo(e)'
  BY DEF Told
<1>1. ToldTo(e)
  BY DEF Inv, Told
<1>2. pc[e] \in Open => pc[e] \in Pinned
  BY DEF Open, Pinned, Entered
<1>3. ASSUME NEW d \in Drivers, Opening(d) \/ Closure(d) \/ Closing(d) \/ Cancel(d), e # d
      PROVE  ToldTo(e)'
  <2>1. UNCHANGED DriverState(e)
    BY <1>3, DriversKeepApart DEF Inv
  <2>2. pc[e] \in Open => slot' = slot /\ sessions' = sessions
    BY <1>2, <1>3, OutsidersKeepSlot DEF Inv, Ownership
  <2> QED  BY <1>1, <2>1, <2>2 DEF ToldTo, DriverState
<1>4. CASE \/ \E t \in Tasks : Lock(t)
           \/ \E c \in Callers : Operation(c)
           \/ UNCHANGED vars
  <2>1. UNCHANGED DriverState(e) /\ slot' = slot
    BY <1>4, OthersKeepDrivers DEF Inv
  <2>2. pc[e] \in Open =>
           /\ OfDrivers(sessions'[slot].pending) = OfDrivers(sessions[slot].pending)
           /\ sessions'[slot].count = sessions[slot].count
    BY <1>2, <1>4, OwnerKnows, OthersKeepSessions
  <2> QED  BY <1>1, <2>1, <2>2 DEF ToldTo, DriverState
<1> QED  BY <1>3, <1>4, OpeningTells, ClosureTells, ClosingTells DEF Next

-----------------------------------------------------------------------------
(* The invariant and what follows from it *)

(* The invariant holds in every reachable state.                             *)
LEMMA Invariance == Spec => []Inv
<1>1. Init => Inv
  <2> SUFFICES ASSUME Init
               PROVE  Inv
    OBVIOUS
  <2>0. Drivers \subseteq Tasks /\ \A d \in Drivers : pc[d] = "idle"
    BY DEF Init, Tasks
  <2>1. TypeOK
    <3>1. \A d \in Drivers : 0 <= MaxStatements[d]
      BY BoundsAssumption
    <3> QED  BY <3>1, BoundsAssumption DEF Init, TypeOK, FreshSession, SessionsOver, Outcomes,
                Tasks, Places
  <2>2. Possession
    BY <2>0, NoneAssumption DEF Init, Possession
  <2>3. Ownership /\ Scoping
    BY <2>0 DEF Init, Ownership, Scoping, Pinned, Entered
  <2>4. Servers
    BY <2>0 DEF Init, Servers, Clean, FreshSession, Pinned, Entered
  <2>5. Told
    BY <2>0 DEF Init, Told, ToldTo, Undecided, Open
  <2> QED  BY <2>1, <2>2, <2>3, <2>4, <2>5 DEF Inv
<1>2. Inv /\ [Next]_vars => Inv'
  BY TypeStep, PossessionStep, OwnershipStep, ScopingStep, ServersStep, ToldStep DEF Inv
<1> QED  BY <1>1, <1>2, PTL DEF Spec

(* Whatever fails and whoever goes away, every variable keeps its type,      *)
(* every connection is in the pool, in the slot or in one task's hands, and  *)
(* the ones in the pool have their configured retries and, unless a BEGIN,   *)
(* COMMIT or ROLLBACK on them went without an answer, no transaction.        *)
THEOREM PoolStaysSound == Spec => []PoolSound
<1>1. Inv => ConnectionsAccounted
  <2> SUFFICES ASSUME Inv, NEW c \in Connections
               PROVE  Cardinality({t \in Tasks : own[t] = c})
                        + (IF slot = c THEN 1 ELSE 0)
                        + (IF c \in free THEN 1 ELSE 0) = 1
    BY DEF ConnectionsAccounted
  <2> DEFINE holders == {t \in Tasks : own[t] = c}
  <2>0. c # None
    BY NoneAssumption
  <2>1. CASE c \in free \/ slot = c
    <3>1. holders = {}
      BY <2>0, <2>1 DEF Inv, Possession
    <3>2. ~(c \in free /\ slot = c)
      BY DEF Inv, Possession
    <3>3. Cardinality(holders) = 0
      BY <3>1, FS_EmptySet
    <3> QED  BY <2>1, <3>2, <3>3
  <2>2. CASE c \notin free /\ slot # c
    <3>1. PICK t \in Tasks : own[t] = c
      BY <2>2 DEF Inv, Possession
    <3>2. holders = {t}
      BY <2>0, <3>1 DEF Inv, Possession
    <3>3. Cardinality(holders) = 1
      BY <3>2, FS_Singleton
    <3> QED  BY <2>2, <3>3
  <2> QED  BY <2>1, <2>2
<1>2. Inv => PoolIsClean
  <2> SUFFICES ASSUME Inv, NEW c \in free
               PROVE  sessions[c].retry /\ (InTransaction(sessions[c]) => ~sessions[c].sure)
    BY DEF PoolIsClean
  <2>1. Clean(sessions[c])
    BY DEF Inv, Servers
  <2>2. sessions[c].count = 0 => ~InTransaction(sessions[c])
    BY DEF InTransaction
  <2> QED  BY <2>1, <2>2, Zenon DEF Clean
<1>3. Inv => PoolSound
  BY <1>1, <1>2 DEF PoolSound, Inv
<1> QED  BY <1>3, Invariance, PTL

(* The handle of a transaction is never refused and never finds the slot     *)
(* empty, whatever scopes other transactions store.                          *)
THEOREM HandleAdmitted == Spec => []TransactionHandleAdmitted
<1>1. Inv => TransactionHandleAdmitted
  BY DEF Inv, Ownership, Scoping, TransactionHandleAdmitted, TransactionScopeAllowsLock,
     HandleScope
<1> QED  BY <1>1, Invariance, PTL

(* At most one driver owns the slot, it is never empty under its owner, and  *)
(* only the drop of the owner's future leaves it occupied without one.       *)
THEOREM OneSlotOwner == Spec => SlotHasOneOwner
<1>1. Inv => OneOwner
  <2> SUFFICES ASSUME Inv
               PROVE  OneOwner
    OBVIOUS
  <2>1. CASE Owners = {}
    <3>1. Cardinality(Owners) = 0
      BY <2>1, FS_EmptySet
    <3> QED  BY <2>1, <3>1 DEF OneOwner
  <2>2. CASE Owners # {}
    <3>1. PICK d \in Drivers : pc[d] \in Pinned
      BY <2>2 DEF Owners
    <3>2. Owners = {d} /\ slot # None
      BY <3>1 DEF Inv, Ownership, Owners
    <3>3. Cardinality(Owners) = 1
      BY <3>2, FS_Singleton
    <3> QED  BY <3>2, <3>3 DEF OneOwner
  <2> QED  BY <2>1, <2>2
<1>2. Inv /\ [Next]_vars =>
         [Abandoned' /\ ~Abandoned => \E d \in Owners : outcome'[d] = "cancelled"]_vars
  <2> SUFFICES ASSUME Inv, [Next]_vars, Abandoned', ~Abandoned
               PROVE  \E d \in Owners : outcome'[d] = "cancelled"
    OBVIOUS
  <2> USE DEF Goto, Return
  <2>0. /\ pc \in [Tasks -> Places] /\ Drivers \subseteq Tasks
        /\ outcome \in [Drivers -> Outcomes]
    BY Typed DEF Inv, TypeOK
  <2>1. slot' # None /\ \A d \in Drivers : pc'[d] \notin Pinned
    BY DEF Abandoned, Owners
  <2>2. ASSUME NEW d \in Drivers, Install(d) \/ Unpin(d)
        PROVE  FALSE
    BY <2>0, <2>1, <2>2 DEF Install, Unpin, Pinned
  <2>3. slot' = slot
    BY <2>2, OnlyInstallPins DEF Inv
  <2>4. PICK d \in Drivers : pc[d] \in Pinned
    BY <2>1, <2>3 DEF Abandoned, Owners
  <2>5. pc'[d] # pc[d]
    BY <2>1, <2>4
  <2>6. ASSUME NEW e \in Drivers, Opening(e) \/ Closure(e) \/ Closing(e) \/ Cancel(e)
        PROVE  e = d
    BY <2>5, <2>6, DriversKeepApart DEF DriverState, Inv
  <2>7. CASE Opening(d)
    BY <2>0, <2>1, <2>4, <2>7 DEF Opening, StartTransaction, AcquireOwned, AcquireFails,
       Install, InstallRefused, Begin, BeginFails, BeginUnanswered, DisableRetry, StoreScope,
       BumpDepth,
       Pinned, Entered
  <2>8. CASE Closure(d)
    BY <2>0, <2>1, <2>8 DEF Closure, IssueStatement, ExecuteStatement, StatementFails, Run,
       StatementAborts, ClosureReturns, Pinned, Entered
  <2>9. CASE Closing(d)
    BY <2>0, <2>1, <2>2, <2>9 DEF Closing, Commit, CommitFails, CommitUnanswered, Rollback,
     RollbackUnanswered, Finished,
       RestoreRetry, ExitDepth, ClearScope, Pinned, Entered
  <2>10. CASE Cancel(d)
    BY <2>0, <2>4, <2>10 DEF Cancel, Owners
  <2>11. CASE \/ \E t \in Tasks : Lock(t)
              \/ \E c \in Callers : Operation(c)
              \/ UNCHANGED vars
    BY <2>5, <2>11, OthersKeepDrivers DEF DriverState, Inv
  <2> QED  BY <2>6, <2>7, <2>8, <2>9, <2>10, <2>11 DEF Next
<1>3. Inv' => OneOwner'
  BY <1>1, PTL
<1>4. Inv /\ Inv' /\ [Next]_vars =>
         [/\ OneOwner'
          /\ Abandoned' /\ ~Abandoned => \E d \in Owners : outcome'[d] = "cancelled"]_vars
  BY <1>2, <1>3
<1> QED  BY <1>1, <1>4, Invariance, PTL DEF Spec, SlotHasOneOwner

-----------------------------------------------------------------------------
(* Refinement of the contract *)

Verdict(d) ==
    IF outcome[d] = "none" THEN IF calls[d] = 0 THEN "idle" ELSE "open" ELSE outcome[d]
Effects == OfDrivers(durable)

Doubt == \E c \in Connections : ~sessions[c].sure

(* How a call may end, in terms of the contract.                             *)
Ends(d) ==
    /\ Verdict(d) = "open" /\ ran'[d] = ran[d]
    /\ \/ /\ Verdict(d)' = "ok" /\ Doubt' = Doubt
          /\ Effects' = Effects \cup ran[d] \/ (Effects' = Effects /\ Doubt)
       \/ Verdict(d)' = "err" /\ Doubt' = Doubt /\ Effects' = Effects
       \/ Verdict(d)' = "unanswered" /\ Doubt' = TRUE /\ Effects' = Effects
       \/ /\ Verdict(d)' = "unknown" /\ Doubt' = TRUE
          /\ Effects' = Effects \/ Effects' = Effects \cup ran[d]
       \/ /\ Verdict(d)' = "cancelled" /\ Doubt' \in {Doubt, TRUE}
          /\ Effects' = Effects \/ Effects' = Effects \cup ran[d]

(* A driver's step, with the drivers around it still, is a step of the       *)
(* contract when it calls, works, ends the call or loses its answer.         *)
LEMMA ContractSteps ==
    ASSUME TypeOK, TypeOK', NEW d \in Drivers,
           \A e \in Drivers : e # d => UNCHANGED DriverState(e),
           \/ /\ Verdict(d) # "open" /\ Verdict(d)' \in {"open", "err"}
              /\ ran'[d] = {} /\ Effects' = Effects /\ Doubt' = Doubt
           \/ /\ Verdict(d) = "open" /\ Verdict(d)' = "open"
              /\ Effects' = Effects /\ Doubt' = Doubt
              /\ 1 <= calls[d] /\ 1 <= issued[d] /\ ran'[d] = ran[d] \cup {Statement(d)}
           \/ Ends(d)
           \/ /\ Verdict(d) \in Contract!Results \ {"cancelled"} /\ Verdict(d)' = "cancelled"
              /\ ran'[d] = ran[d] /\ Effects' = Effects /\ Doubt' = Doubt
    PROVE  Contract!Next
<1> DEFINE verdict == [e \in Drivers |-> Verdict(e)]
           verdict1 == [e \in Drivers |-> Verdict(e)']
           allowed == UNION {{e} \X (1..MaxCalls) \X (1..MaxStatements[e]) : e \in Drivers}
<1>1. verdict1 = [verdict EXCEPT ![d] = Verdict(d)']
  <2>1. \A e \in Drivers : e # d => Verdict(e)' = Verdict(e)
    BY DEF Verdict, DriverState
  <2> QED  BY <2>1
<1>2. ran' = [ran EXCEPT ![d] = ran'[d]] /\ ran \in [Drivers -> SUBSET Statements]
  BY DEF TypeOK, DriverState
<1>3. /\ verdict[d] = Verdict(d)
      /\ verdict = [e \in Drivers |->
            IF outcome[e] = "none" THEN IF calls[e] = 0 THEN "idle" ELSE "open" ELSE outcome[e]]
      /\ verdict1 = [e \in Drivers |->
            IF outcome'[e] = "none" THEN IF calls'[e] = 0 THEN "idle" ELSE "open"
            ELSE outcome'[e]]
      /\ Effects = {s \in durable : s[1] \in Drivers}
      /\ Effects' = {s \in durable' : s[1] \in Drivers}
      /\ Doubt = (\E c \in Connections : ~sessions[c].sure)
      /\ Doubt' = (\E c \in Connections : ~sessions'[c].sure)
  BY DEF Verdict, Effects, OfDrivers, Doubt
<1> HIDE DEF verdict, verdict1
<1>4. CASE /\ Verdict(d) # "open" /\ Verdict(d)' \in {"open", "err"}
           /\ ran'[d] = {} /\ Effects' = Effects /\ Doubt' = Doubt
  <2>1. Contract!Call(d)
    BY <1>1, <1>2, <1>3, <1>4 DEF Contract!Call
  <2> QED  BY <2>1 DEF Contract!Next
<1>5. CASE /\ Verdict(d) = "open" /\ Verdict(d)' = "open"
           /\ Effects' = Effects /\ Doubt' = Doubt
           /\ 1 <= calls[d] /\ 1 <= issued[d] /\ ran'[d] = ran[d] \cup {Statement(d)}
  <2>1. d \in Tasks /\ calls[d] \in 1..MaxCalls /\ issued[d] \in 1..MaxStatements[d]
    BY <1>5, BoundsAssumption DEF TypeOK, Tasks
  <2>2. Statement(d) \in allowed
    BY <2>1 DEF Statement
  <2>3. verdict1 = verdict
    BY <1>1, <1>3, <1>5 DEF verdict
  <2>4. Contract!Work(d)
    BY <1>2, <1>3, <1>5, <2>2, <2>3 DEF Contract!Work
  <2> QED  BY <2>4 DEF Contract!Next
<1>6. CASE Ends(d)
  <2>0. Verdict(d) = "open"
    BY <1>6 DEF Ends
  <2>1. ran' = ran
    BY <1>2, <1>6 DEF Ends
  <2>2. PICK result : result = Verdict(d)'
    OBVIOUS
  <2>3. Contract!Settle(d, result)
    <3>1. CASE result \in {"ok", "err"}
      BY <1>1, <1>3, <1>6, <2>2, <3>1, Zenon DEF Contract!Settle, Ends
    <3>2. CASE result \in {"unknown", "unanswered"}
      BY <1>1, <1>3, <1>6, <2>2, <3>2, Zenon DEF Contract!Settle, Ends
    <3>3. CASE result = "cancelled"
      BY <1>1, <1>3, <1>6, <2>2, <3>3, Zenon DEF Contract!Settle, Ends
    <3> QED  BY <1>6, <2>2, <3>1, <3>2, <3>3 DEF Ends
  <2>4. CASE result \in {"ok", "unknown", "cancelled"} /\ Effects' = Effects \cup ran[d]
    <3>1. Contract!Commit(d)
      BY <1>3, <2>0, <2>1, <2>3, <2>4 DEF Contract!Commit
    <3> QED  BY <3>1 DEF Contract!Next
  <2>5. CASE result # "ok" /\ Effects' = Effects
    <3>1. result \in Contract!Results \ {"ok"}
      BY <1>6, <2>2, <2>5 DEF Contract!Results, Ends
    <3>2. Contract!Abort(d)
      BY <1>3, <2>0, <2>1, <2>3, <2>5, <3>1 DEF Contract!Abort
    <3> QED  BY <3>2 DEF Contract!Next
  <2>6. CASE result = "ok" /\ Effects' = Effects /\ Doubt
    <3>1. Contract!CommitInside(d)
      BY <1>3, <2>0, <2>1, <2>3, <2>6 DEF Contract!CommitInside
    <3> QED  BY <3>1 DEF Contract!Next
  <2> QED  BY <1>6, <2>2, <2>4, <2>5, <2>6 DEF Ends
<1>7. CASE /\ Verdict(d) \in Contract!Results \ {"cancelled"} /\ Verdict(d)' = "cancelled"
           /\ ran'[d] = ran[d] /\ Effects' = Effects /\ Doubt' = Doubt
  <2>1. ran' = ran
    BY <1>2, <1>7
  <2>2. Contract!Settle(d, "cancelled")
    BY <1>1, <1>3, <1>7, Zenon DEF Contract!Settle
  <2>3. Contract!LoseAnswer(d)
    BY <1>3, <1>7, <2>1, <2>2 DEF Contract!LoseAnswer
  <2> QED  BY <2>3 DEF Contract!Next
<1> QED  BY <1>4, <1>5, <1>6, <1>7

(* A step no part of the contract sees.                                      *)
LEMMA ContractStutters ==
    ASSUME TypeOK, TypeOK', Effects' = Effects, Doubt' = Doubt,
           \A e \in Drivers : Verdict(e)' = Verdict(e) /\ ran'[e] = ran[e]
    PROVE  UNCHANGED Contract!vars
<1>1. ran' = ran
  BY DEF TypeOK
<1>2. \A e \in Drivers :
        (IF outcome'[e] = "none" THEN IF calls'[e] = 0 THEN "idle" ELSE "open" ELSE outcome'[e])
      = (IF outcome[e] = "none" THEN IF calls[e] = 0 THEN "idle" ELSE "open" ELSE outcome[e])
  BY DEF Verdict
<1>3. {s \in durable' : s[1] \in Drivers} = {s \in durable : s[1] \in Drivers}
  BY DEF Effects, OfDrivers
<1>4. (\E c \in Connections : ~sessions'[c].sure) = (\E c \in Connections : ~sessions[c].sure)
  BY DEF Doubt
<1> QED  BY <1>1, <1>2, <1>3, <1>4 DEF Contract!vars

(* An answered command leaves what is in doubt as it was.                    *)
LEMMA AnsweredKeepsDoubt ==
    ASSUME TypeOK, slot \in Connections, NEW s, OnPinned(s), s.sure = sessions[slot].sure
    PROVE  Doubt' = Doubt
<1>1. \A c \in Connections : sessions'[c].sure = sessions[c].sure
  BY PinnedSessionFields
<1> QED  BY <1>1, Zenon DEF Doubt

(* One that is not answered leaves something in doubt.                       *)
LEMMA UnansweredDoubts ==
    ASSUME TypeOK, slot \in Connections, NEW s \in SessionsOver(Statements),
           OnPinned(Unsure(s))
    PROVE  Doubt' = TRUE
<1>1. sessions'[slot] = Unsure(s) /\ ~Unsure(s).sure
  BY PinnedSessionFields, SessionAnswers
<1>2. ~sessions'[slot].sure
  BY <1>1, Zenon
<1> QED  BY <1>2, Zenon DEF Doubt

(* StartTransaction is the call; a failure before the closure aborts it.     *)
LEMMA OpeningRefines ==
    ASSUME Inv, Inv', NEW d \in Drivers, Opening(d)
    PROVE  Contract!Next \/ UNCHANGED Contract!vars
<1> USE DEF Goto, Return, server, locals, counters
<1>0. /\ pc \in [Tasks -> Places] /\ d \in Tasks /\ TypeOK /\ TypeOK'
      /\ ran \in [Drivers -> SUBSET Statements] /\ calls \in [Tasks -> 0..MaxCalls]
      /\ outcome \in [Drivers -> Outcomes]
  BY Typed DEF Inv, TypeOK
<1>1. ToldTo(d) /\ calls[d] \in Nat
  BY <1>0 DEF Inv, Told
<1>2. \A e \in Drivers : e # d => UNCHANGED DriverState(e)
  BY DriversKeepApart DEF Inv
<1>3. CASE StartTransaction(d)
  <2>1. Verdict(d) # "open"
    BY <1>0, <1>1, <1>3 DEF StartTransaction, Verdict, ToldTo, Outcomes
  <2>2. /\ calls'[d] = calls[d] + 1 /\ ran'[d] = {} /\ UNCHANGED <<sessions, durable>>
        /\ outcome'[d] \in {"err", "none"}
    BY <1>0, <1>3 DEF StartTransaction
  <2>3. Verdict(d)' \in {"open", "err"} /\ Effects' = Effects /\ Doubt' = Doubt
    BY <1>0, <2>2 DEF Verdict, Effects, Doubt
  <2> QED  BY <1>0, <1>2, <2>1, <2>2, <2>3, ContractSteps
<1>4. CASE AcquireFails(d) \/ InstallRefused(d) \/ BeginFails(d)
  <2>1. /\ pc[d] \in {"acquire", "install", "begin"}
        /\ outcome'[d] = "err" /\ ran' = ran /\ UNCHANGED <<sessions, durable>>
    BY <1>0, <1>4 DEF AcquireFails, InstallRefused, BeginFails
  <2>2. /\ Verdict(d) = "open" /\ Verdict(d)' = "err"
        /\ Effects' = Effects /\ Doubt' = Doubt
    BY <1>1, <2>1 DEF Verdict, Effects, Doubt, ToldTo, Undecided
  <2>3. Ends(d)
    BY <2>1, <2>2 DEF Ends
  <2> QED  BY <1>0, <1>2, <2>3, ContractSteps
<1>5. CASE \/ AcquireOwned(d) \/ Install(d) \/ StoreScope(d) \/ BumpDepth(d)
  <2>1. UNCHANGED <<outcome, calls, ran, durable, sessions>>
    BY <1>5 DEF AcquireOwned, Install, StoreScope, BumpDepth
  <2> QED  BY <1>0, <2>1, ContractStutters DEF Verdict, Effects, Doubt
<1>6. CASE Begin(d) \/ DisableRetry(d)
  <2>1. /\ UNCHANGED <<outcome, calls, ran, durable>> /\ pc[d] \in Pinned
        /\ \E s \in {BeginTran(sessions[slot]), WithRetry(sessions[slot], FALSE)} : OnPinned(s)
    BY <1>6 DEF Begin, DisableRetry, Pinned
  <2>2. slot \in Connections /\ sessions[slot] \in SessionsOver(Statements)
    BY <2>1, OwnerKnows
  <2>3. /\ BeginTran(sessions[slot]).sure = sessions[slot].sure
        /\ WithRetry(sessions[slot], FALSE).sure = sessions[slot].sure
    BY <2>2 DEF SessionsOver, BeginTran, WithRetry
  <2>4. Doubt' = Doubt
    BY <1>0, <2>1, <2>2, <2>3, AnsweredKeepsDoubt
  <2> QED  BY <1>0, <2>1, <2>4, ContractStutters DEF Verdict, Effects
<1>7. CASE BeginUnanswered(d)
  <2>1. /\ pc[d] = "begin" /\ outcome'[d] = "unanswered" /\ ran' = ran /\ durable' = durable
        /\ \E s \in {sessions[slot], BeginTran(sessions[slot])} : OnPinned(Unsure(s))
    BY <1>0, <1>7 DEF BeginUnanswered
  <2>2. slot \in Connections /\ sessions[slot] \in SessionsOver(Statements)
    BY <2>1, OwnerKnows DEF Pinned
  <2>3. Doubt' = TRUE
    BY <1>0, <2>1, <2>2, SessionTyped, UnansweredDoubts
  <2>4. Verdict(d) = "open" /\ Verdict(d)' = "unanswered" /\ Effects' = Effects
    BY <1>1, <2>1 DEF Verdict, Effects, ToldTo, Undecided
  <2>5. Ends(d)
    BY <2>1, <2>3, <2>4 DEF Ends
  <2> QED  BY <1>0, <1>2, <2>5, ContractSteps
<1> QED  BY <1>3, <1>4, <1>5, <1>6, <1>7 DEF Opening

(* Each statement the server executes is work; the rest is not seen.         *)
LEMMA ClosureRefines ==
    ASSUME Inv, Inv', NEW d \in Drivers, Closure(d)
    PROVE  Contract!Next \/ UNCHANGED Contract!vars
<1> USE DEF Goto, server, locals, counters
<1>0. /\ d \in Tasks /\ TypeOK /\ TypeOK' /\ ran \in [Drivers -> SUBSET Statements]
      /\ calls \in [Tasks -> 0..MaxCalls] /\ issued \in [Tasks -> Nat]
      /\ sessions \in [Connections -> SessionsOver(Statements)]
  BY Typed DEF Inv, TypeOK
<1>1. ToldTo(d) /\ calls[d] \in Nat /\ issued[d] \in Nat
  BY <1>0 DEF Inv, Told
<1>2. ASSUME ExecuteStatement(d) \/ StatementFails(d), Run(d)
      PROVE  Contract!Next
  <2>0. \A e \in Drivers : e # d => UNCHANGED DriverState(e)
    BY <1>2, DriversKeepApart DEF Inv, Closure
  <2>1. /\ pc[d] = "statement" /\ ran'[d] = ran[d] \cup {Statement(d)}
        /\ UNCHANGED <<outcome, calls>>
        /\ durable' = durable \cup AutoCommitted(sessions[slot], Statement(d))
    BY <1>0, <1>2 DEF ExecuteStatement, StatementFails, Run, Execute
  <2>2. durable' = durable
    BY <2>1, StatementJoins
  <2>3. Doubt' = Doubt
    <3>1. slot \in Connections
      BY <2>1, OwnerKnows DEF Pinned, Entered
    <3>2. OnPinned(JoinTran(sessions[slot], Statement(d)))
      BY <1>2 DEF Run, Execute, OnPinned
    <3> QED  BY <1>0, <2>1, <3>1, <3>2, StatementJoins, AnsweredKeepsDoubt
  <2>4. Verdict(d) = "open" /\ 1 <= calls[d] /\ 1 <= issued[d]
    BY <1>0, <1>1, <2>1 DEF Verdict, ToldTo, Undecided, Open
  <2>5. Verdict(d)' = "open" /\ Effects' = Effects
    BY <2>1, <2>2, <2>4 DEF Verdict, Effects
  <2> QED  BY <1>0, <2>0, <2>1, <2>3, <2>4, <2>5, ContractSteps
<1>3. CASE \/ IssueStatement(d) \/ ClosureReturns(d)
           \/ StatementFails(d) /\ UNCHANGED <<server, ran>>
  <2>1. UNCHANGED <<outcome, calls, ran, durable, sessions>>
    BY <1>3 DEF IssueStatement, StatementFails, ClosureReturns
  <2> QED  BY <1>0, <2>1, ContractStutters DEF Verdict, Effects, Doubt
<1>4. CASE StatementAborts(d)
  <2>1. /\ UNCHANGED <<outcome, calls, ran, durable>> /\ pc[d] = "statement"
        /\ OnPinned(RollbackTran(sessions[slot]))
    BY <1>4 DEF StatementAborts
  <2>2. slot \in Connections /\ sessions[slot] \in SessionsOver(Statements)
    BY <2>1, OwnerKnows DEF Pinned, Entered
  <2>3. Doubt' = Doubt
    BY <1>0, <2>1, <2>2, SessionAnswers, AnsweredKeepsDoubt
  <2> QED  BY <1>0, <2>1, <2>3, ContractStutters DEF Verdict, Effects
<1> QED  BY <1>2, <1>3, <1>4 DEF Closure, ExecuteStatement, StatementFails

(* What a COMMIT that reaches the server makes durable is what the server    *)
(* executed for the closure, or nothing when it only ends an inner level.    *)
LEMMA CommitMakesDurable ==
    ASSUME Inv, NEW d \in Drivers, pc[d] = "commit",
           durable' = durable \cup MadeDurable(sessions[slot])
    PROVE  Effects' = Effects \cup ran[d] \/ (Effects' = Effects /\ Doubt)
<1>1. /\ slot \in Connections /\ sessions[slot] \in SessionsOver(Statements)
      /\ sessions[slot].count > 0
      /\ sessions[slot].sure => sessions[slot].count = 1
      /\ sessions[slot].count = 1 => OfDrivers(sessions[slot].pending) = ran[d]
  BY OwnerKnows DEF Pinned, Entered, PinnedSession, Open, Inv, Told, ToldTo
<1>2. CASE sessions[slot].count = 1
  <2>1. durable' = durable \cup sessions[slot].pending
    BY <1>2 DEF MadeDurable
  <2> QED  BY <1>1, <1>2, <2>1 DEF Effects, OfDrivers
<1>3. CASE sessions[slot].count # 1
  <2>1. durable' = durable
    BY <1>3 DEF MadeDurable
  <2>2. ~sessions[slot].sure
    BY <1>1, <1>3, Zenon
  <2>3. Doubt
    BY <1>1, <2>2, Zenon DEF Doubt
  <2> QED  BY <2>1, <2>3 DEF Effects
<1> QED  BY <1>2, <1>3

(* COMMIT commits, its failure and ROLLBACK abort, an answer that is missing *)
(* leaves a doubt, and the cleanup is not seen.                              *)
LEMMA ClosingRefines ==
    ASSUME Inv, Inv', NEW d \in Drivers, Closing(d)
    PROVE  Contract!Next \/ UNCHANGED Contract!vars
<1> USE DEF Goto, server, locals, counters
<1>0. /\ d \in Tasks /\ TypeOK /\ TypeOK'
      /\ outcome \in [Drivers -> Outcomes]
  BY Typed DEF Inv, TypeOK
<1>1. pc[d] \in Undecided => Verdict(d) = "open"
  BY DEF Inv, Told, ToldTo, Verdict, Undecided, Open
<1>2. \A e \in Drivers : e # d => UNCHANGED DriverState(e)
  BY DriversKeepApart DEF Inv
<1>3. pc[d] \in Pinned => slot \in Connections /\ sessions[slot] \in SessionsOver(Statements)
  BY OwnerKnows
<1>4. CASE Commit(d)
  <2>1. /\ pc[d] = "commit" /\ outcome'[d] = "ok" /\ ran' = ran
        /\ durable' = durable \cup MadeDurable(sessions[slot])
        /\ OnPinned(CommitTran(sessions[slot]))
    BY <1>0, <1>4 DEF Commit, Finished
  <2>2. Verdict(d) = "open" /\ Verdict(d)' = "ok"
    BY <1>1, <2>1 DEF Undecided, Open, Verdict
  <2>3. Doubt' = Doubt
    BY <1>0, <1>3, <2>1, CommitLeaves, AnsweredKeepsDoubt DEF Pinned, Entered
  <2>4. Ends(d)
    BY <2>1, <2>2, <2>3, CommitMakesDurable DEF Ends
  <2> QED  BY <1>0, <1>2, <2>4, ContractSteps
<1>5. CASE CommitFails(d) \/ Rollback(d)
  <2>1. /\ pc[d] \in {"commit", "rollback"} /\ outcome'[d] = "err" /\ ran' = ran
        /\ durable' = durable /\ OnPinned(RollbackTran(sessions[slot]))
    BY <1>0, <1>5 DEF CommitFails, Rollback, Finished
  <2>2. Verdict(d) = "open" /\ Verdict(d)' = "err" /\ Effects' = Effects
    BY <1>1, <2>1 DEF Undecided, Open, Verdict, Effects
  <2>3. Doubt' = Doubt
    BY <1>0, <1>3, <2>1, SessionAnswers, AnsweredKeepsDoubt DEF Pinned, Entered
  <2>4. Ends(d)
    BY <2>1, <2>2, <2>3 DEF Ends
  <2> QED  BY <1>0, <1>2, <2>4, ContractSteps
<1>6. CASE CommitUnanswered(d)
  <2>1. /\ pc[d] = "commit" /\ outcome'[d] = "unknown" /\ ran' = ran
        /\ durable' = durable \/ durable' = durable \cup MadeDurable(sessions[slot])
        /\ \E s \in {sessions[slot], RollbackTran(sessions[slot]), CommitTran(sessions[slot])} :
              OnPinned(Unsure(s))
    BY <1>0, <1>6 DEF CommitUnanswered, Finished
  <2>2. Verdict(d) = "open" /\ Verdict(d)' = "unknown"
    BY <1>1, <2>1 DEF Undecided, Open, Verdict
  <2>3. Effects' = Effects \/ Effects' = Effects \cup ran[d]
    BY <2>1, CommitMakesDurable DEF Effects
  <2>4. Doubt' = TRUE
    BY <1>0, <1>3, <2>1, SessionTyped, CommitLeaves, UnansweredDoubts DEF Pinned, Entered
  <2>5. Ends(d)
    BY <2>1, <2>2, <2>3, <2>4 DEF Ends
  <2> QED  BY <1>0, <1>2, <2>5, ContractSteps
<1>7. CASE RollbackUnanswered(d)
  <2>1. /\ pc[d] = "rollback" /\ outcome'[d] = "unanswered" /\ ran' = ran /\ durable' = durable
        /\ \E s \in {sessions[slot], RollbackTran(sessions[slot])} : OnPinned(Unsure(s))
    BY <1>0, <1>7 DEF RollbackUnanswered, Finished
  <2>2. Verdict(d) = "open" /\ Verdict(d)' = "unanswered" /\ Effects' = Effects
    BY <1>1, <2>1 DEF Undecided, Verdict, Effects
  <2>3. Doubt' = TRUE
    BY <1>0, <1>3, <2>1, SessionTyped, UnansweredDoubts DEF Pinned, Entered
  <2>4. Ends(d)
    BY <2>1, <2>2, <2>3 DEF Ends
  <2> QED  BY <1>0, <1>2, <2>4, ContractSteps
<1>8. CASE ExitDepth(d) \/ ClearScope(d) \/ Unpin(d)
  <2>1. UNCHANGED <<outcome, calls, ran, durable, sessions>>
    BY <1>8 DEF ExitDepth, ClearScope, Unpin
  <2> QED  BY <1>0, <2>1, ContractStutters DEF Verdict, Effects, Doubt
<1>9. CASE RestoreRetry(d)
  <2>1. /\ UNCHANGED <<outcome, calls, ran, durable>> /\ pc[d] = "restore"
        /\ OnPinned(WithRetry(sessions[slot], savedRetry[d]))
    BY <1>9 DEF RestoreRetry
  <2>2. savedRetry[d] \in BOOLEAN
    BY <1>0 DEF TypeOK
  <2>3. Doubt' = Doubt
    BY <1>0, <1>3, <2>1, <2>2, SessionAnswers, AnsweredKeepsDoubt DEF Pinned, Entered
  <2> QED  BY <1>0, <2>1, <2>3, ContractStutters DEF Verdict, Effects
<1> QED  BY <1>4, <1>5, <1>6, <1>7, <1>8, <1>9 DEF Closing

(* A dropped future commits when its COMMIT reached the server, aborts       *)
(* before that, and only loses the answer after it.                          *)
LEMMA CancelRefines ==
    ASSUME Inv, Inv', NEW d \in Drivers, Cancel(d)
    PROVE  Contract!Next \/ UNCHANGED Contract!vars
<1> USE DEF Return, server, locals, counters
<1>0. /\ d \in Tasks /\ TypeOK /\ TypeOK' /\ ran' = ran
      /\ outcome \in [Drivers -> Outcomes]
  BY Typed DEF Inv, TypeOK, Cancel
<1>1. ToldTo(d) /\ outcome'[d] = "cancelled"
  BY <1>0 DEF Inv, Told, Cancel
<1>2. \A e \in Drivers : e # d => UNCHANGED DriverState(e)
  BY DriversKeepApart DEF Inv
<1>3. Verdict(d)' = "cancelled"
  BY <1>1 DEF Verdict
<1>4. \/ durable' = durable
      \/ pc[d] = "commit" /\ durable' = durable \cup MadeDurable(sessions[slot])
  BY DEF Cancel
<1>5. CASE pc[d] \in {"restore", "unpin"}
  <2>1. Verdict(d) \in Contract!Results \ {"cancelled"}
    BY <1>0, <1>1, <1>5 DEF ToldTo, Verdict, Outcomes, Contract!Results
  <2>2. Effects' = Effects /\ sessions' = sessions
    BY <1>5 DEF Effects, Cancel
  <2> QED  BY <1>0, <1>2, <1>3, <2>1, <2>2, ContractSteps DEF Doubt
<1>6. CASE pc[d] \notin {"restore", "unpin"}
  <2>1. Verdict(d) = "open"
    BY <1>1, <1>6 DEF Cancel, ToldTo, Verdict, Undecided, Open
  <2>2. Effects' = Effects \/ Effects' = Effects \cup ran[d]
    BY <1>4, CommitMakesDurable DEF Effects
  <2>3. Doubt' \in {Doubt, TRUE}
    <3>1. CASE sessions' = sessions
      BY <3>1 DEF Doubt
    <3>2. CASE sessions' # sessions
      <4>1. pc[d] \in {"begin", "statement", "commit", "rollback"} /\ OnPinned(Unsure(InFlight(d)))
        BY <3>2 DEF Cancel
      <4>2. slot \in Connections
        BY <4>1, OwnerKnows DEF Pinned, Entered
      <4>3. InFlight(d) \in SessionsOver(Statements)
        BY <4>1, InFlightTyped
      <4> QED  BY <1>0, <4>1, <4>2, <4>3, UnansweredDoubts
    <3> QED  BY <3>1, <3>2
  <2>4. Ends(d)
    BY <1>0, <1>3, <2>1, <2>2, <2>3 DEF Ends
  <2> QED  BY <1>0, <1>2, <2>4, ContractSteps
<1> QED  BY <1>5, <1>6

(* Nothing an outer operation does is seen.                                  *)
LEMMA OthersRefine ==
    ASSUME Inv, Inv',
           \/ \E t \in Tasks : Lock(t)
           \/ \E c \in Callers : Operation(c)
           \/ UNCHANGED vars
    PROVE  UNCHANGED Contract!vars
<1> USE DEF server
<1>1. \A e \in Drivers : UNCHANGED DriverState(e)
  BY OthersKeepDrivers DEF Inv
<1>2. Effects' = Effects
  <2>1. ASSUME NEW c \in Callers, NEW j, Execute(c, j)
        PROVE  Effects' = Effects
    <3>1. Statement(c)[1] \notin Drivers
      BY DisjointTasks DEF Statement
    <3>2. durable' = durable \/ durable' = durable \cup {Statement(c)}
      BY <2>1 DEF Execute, AutoCommitted
    <3> QED  BY <3>1, <3>2 DEF Effects, OfDrivers
  <2>2. ASSUME NEW t \in Tasks, Lock(t)
        PROVE  durable' = durable
    BY <2>2 DEF Lock, CheckScope, Enqueue
  <2>3. ASSUME NEW c \in Callers, Operation(c)
        PROVE  durable' = durable \/ \E j : Execute(c, j)
    BY <2>3 DEF Operation, StartOperation, OperationRejected, OperationOnPinned,
       OperationToPool, OperationAcquires, OperationAcquireFails, OperationOnOwn
  <2>4. CASE UNCHANGED vars
    BY <2>4 DEF vars, Effects
  <2> QED  BY <2>1, <2>2, <2>3, <2>4 DEF Effects
<1>3. Doubt' = Doubt
  <2>1. \A c \in Connections : sessions'[c].sure = sessions[c].sure
    BY OthersKeepSessions
  <2> QED  BY <2>1, Zenon DEF Doubt
<1> QED  BY <1>1, <1>2, <1>3, ContractStutters DEF DriverState, Verdict, Inv

(* db.transaction over the pool implements the contract: for every number of *)
(* concurrent drivers and outer operations, every pool and every mixture of  *)
(* failures, missing answers and dropped futures, the statements of a call   *)
(* become durable together with its Ok, whole or not at all when COMMIT is   *)
(* not answered or the future is dropped, and never with another Err; only   *)
(* after an unanswered command may an Ok have had no effect.                 *)
THEOREM PoolImplementsContract == Spec => ImplementsContract
<1>1. Init => Contract!Init
  <2> SUFFICES ASSUME Init
               PROVE  Contract!Init
    OBVIOUS
  <2>1. \A d \in Drivers : outcome[d] = "none" /\ calls[d] = 0 /\ ran[d] = {}
    BY DEF Init, Tasks
  <2>2. {s \in durable : s[1] \in Drivers} = {}
    BY DEF Init
  <2>3. ran = [d \in Drivers |-> {}]
    BY DEF Init
  <2>4. (\E c \in Connections : ~sessions[c].sure) = FALSE
    BY DEF Init, FreshSession
  <2> QED  BY <2>1, <2>2, <2>3, <2>4 DEF Contract!Init
<1>2. Inv /\ Inv' /\ [Next]_vars => [Contract!Next]_(Contract!vars)
  BY OpeningRefines, ClosureRefines, ClosingRefines, CancelRefines, OthersRefine DEF Next
<1> QED  BY <1>1, <1>2, Invariance, PTL DEF Spec, ImplementsContract, Contract!Spec
=============================================================================
