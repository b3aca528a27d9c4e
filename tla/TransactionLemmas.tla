------------------------- MODULE TransactionLemmas -------------------------
(* What the proofs about DirectTransaction and PooledTransaction share: the  *)
(* operators of SqlSession over any set of statements, and the queue of a    *)
(* tokio mutex.                                                              *)
EXTENDS SqlSession, Sequences, SequenceTheorems, TLAPS

-----------------------------------------------------------------------------
(* The mutex queue *)

(* A future that leaves the queue keeps the others in their order: what is   *)
(* left is a queue, with the same holder unless the holder left.             *)
LEMMA LeftQueue ==
    ASSUME NEW S, NEW q \in Seq(S), NEW i \in 1..Len(q)
    PROVE  LET rest == SubSeq(q, 1, i - 1) \o SubSeq(q, i + 1, Len(q))
           IN  /\ rest \in Seq(S)
               /\ i # 1 => rest # <<>> /\ Head(rest) = Head(q)
<1> DEFINE before == SubSeq(q, 1, i - 1)
           after == SubSeq(q, i + 1, Len(q))
           rest == before \o after
<1>1. Len(q) \in Nat /\ \A k \in 1..Len(q) : q[k] \in S
  BY LenProperties, ElementOfSeq
<1>2. before \in Seq(S) /\ Len(before) = i - 1 /\ \A k \in 1..(i - 1) : before[k] = q[k]
  <2>1. \A k \in 1..(i - 1) : q[k] \in S
    BY <1>1
  <2> QED  BY <1>1, <2>1, SubSeqProperties
<1>3. after \in Seq(S)
  <2>1. \A k \in (i + 1)..Len(q) : q[k] \in S
    BY <1>1
  <2> QED  BY <1>1, <2>1, SubSeqProperties
<1> HIDE DEF before, after
<1>4. /\ rest \in Seq(S) /\ Len(rest) = Len(before) + Len(after)
      /\ \A k \in 1..(Len(before) + Len(after)) :
            rest[k] = IF k <= Len(before) THEN before[k] ELSE after[k - Len(before)]
  BY <1>2, <1>3, ConcatProperties
<1> HIDE DEF rest
<1>5. ASSUME i # 1
      PROVE  rest # <<>> /\ Head(rest) = Head(q)
  <2>1. Len(after) \in Nat
    BY <1>3, LenProperties
  <2>2. Len(rest) > 0 /\ rest[1] = q[1]
    BY <1>1, <1>2, <1>4, <1>5, <2>1
  <2> QED  BY <2>2, <1>4, EmptySeq
<1> QED  BY <1>4, <1>5 DEF rest, before, after

-----------------------------------------------------------------------------
(* Server sessions *)

(* Each operator on a server session yields a session over the same          *)
(* statements.                                                               *)
LEMMA SessionTyped ==
    ASSUME NEW S, NEW s \in SessionsOver(S)
    PROVE  /\ BeginTran(s) \in SessionsOver(S)
           /\ InTransaction(s) => CommitTran(s) \in SessionsOver(S)
           /\ RollbackTran(s) \in SessionsOver(S)
           /\ Unsure(s) \in SessionsOver(S)
           /\ \A r \in BOOLEAN : WithRetry(s, r) \in SessionsOver(S)
           /\ \A x \in S : JoinTran(s, x) \in SessionsOver(S)
           /\ MadeDurable(s) \in SUBSET S
           /\ \A x \in S : AutoCommitted(s, x) \in SUBSET S
<1>1. BeginTran(s) \in SessionsOver(S)
  BY DEF SessionsOver, BeginTran
<1>2. InTransaction(s) => CommitTran(s) \in SessionsOver(S)
  <2> SUFFICES ASSUME InTransaction(s)
               PROVE  CommitTran(s) \in SessionsOver(S)
    OBVIOUS
  <2>1. s.count - 1 \in Nat
    BY DEF SessionsOver, InTransaction
  <2>2. CASE s.count = 1
    BY <2>1, <2>2 DEF SessionsOver, CommitTran
  <2>3. CASE s.count # 1
    BY <2>1, <2>3 DEF SessionsOver, CommitTran
  <2> QED  BY <2>2, <2>3
<1>3. RollbackTran(s) \in SessionsOver(S) /\ Unsure(s) \in SessionsOver(S)
  BY DEF SessionsOver, RollbackTran, Unsure
<1>4. \A x \in S : JoinTran(s, x) \in SessionsOver(S)
  BY DEF SessionsOver, JoinTran, InTransaction
<1>5. \A r \in BOOLEAN : WithRetry(s, r) \in SessionsOver(S)
  BY DEF SessionsOver, WithRetry
<1>6. /\ MadeDurable(s) \in SUBSET S
      /\ \A x \in S : AutoCommitted(s, x) \in SUBSET S
  BY DEF SessionsOver, MadeDurable, AutoCommitted, InTransaction
<1> QED  BY <1>1, <1>2, <1>3, <1>4, <1>5, <1>6

(* What the server's operations do to the transaction of a session.          *)
LEMMA SessionFields ==
    ASSUME NEW S, NEW s \in SessionsOver(S)
    PROVE  /\ BeginTran(s).count = s.count + 1 /\ BeginTran(s).pending = s.pending
           /\ RollbackTran(s).count = 0 /\ RollbackTran(s).pending = {}
           /\ s.count = 1 => /\ CommitTran(s).count = 0 /\ CommitTran(s).pending = {}
                             /\ MadeDurable(s) = s.pending
           /\ s.count > 1 => /\ CommitTran(s).count = s.count - 1
                             /\ CommitTran(s).pending = s.pending /\ MadeDurable(s) = {}
           /\ \A r \in BOOLEAN :
                 WithRetry(s, r).count = s.count /\ WithRetry(s, r).pending = s.pending
           /\ \A x \in S :
                 /\ JoinTran(s, x).count = s.count
                 /\ s.count > 0 => /\ JoinTran(s, x).pending = s.pending \cup {x}
                                   /\ AutoCommitted(s, x) = {}
                 /\ s.count = 0 => /\ JoinTran(s, x).pending = s.pending
                                   /\ AutoCommitted(s, x) = {x}
<1>1. BeginTran(s).count = s.count + 1 /\ BeginTran(s).pending = s.pending
  BY DEF BeginTran, SessionsOver
<1>2. RollbackTran(s).count = 0 /\ RollbackTran(s).pending = {}
  BY DEF RollbackTran, SessionsOver
<1>3. ASSUME s.count = 1
      PROVE  /\ CommitTran(s).count = 0 /\ CommitTran(s).pending = {}
             /\ MadeDurable(s) = s.pending
  BY <1>3 DEF CommitTran, MadeDurable, SessionsOver
<1>4. ASSUME s.count > 1
      PROVE  /\ CommitTran(s).count = s.count - 1
             /\ CommitTran(s).pending = s.pending /\ MadeDurable(s) = {}
  <2>1. s.count # 1
    BY <1>4
  <2> QED  BY <2>1 DEF CommitTran, MadeDurable, SessionsOver
<1>5. \A r \in BOOLEAN :
        WithRetry(s, r).count = s.count /\ WithRetry(s, r).pending = s.pending
  BY DEF WithRetry, SessionsOver
<1>6. ASSUME NEW x \in S
      PROVE  /\ JoinTran(s, x).count = s.count
             /\ s.count > 0 => /\ JoinTran(s, x).pending = s.pending \cup {x}
                               /\ AutoCommitted(s, x) = {}
             /\ s.count = 0 => /\ JoinTran(s, x).pending = s.pending
                               /\ AutoCommitted(s, x) = {x}
  BY DEF JoinTran, AutoCommitted, InTransaction, SessionsOver
<1> QED  BY <1>1, <1>2, <1>3, <1>4, <1>5, <1>6

(* A missing answer changes nothing else, and nothing but a missing answer   *)
(* makes a session unsure.                                                   *)
LEMMA SessionAnswers ==
    ASSUME NEW S, NEW s \in SessionsOver(S)
    PROVE  /\ Unsure(s).count = s.count /\ Unsure(s).pending = s.pending
           /\ Unsure(s).retry = s.retry /\ ~Unsure(s).sure
           /\ BeginTran(s).sure = s.sure /\ BeginTran(s).retry = s.retry
           /\ CommitTran(s).sure = s.sure /\ CommitTran(s).retry = s.retry
           /\ RollbackTran(s).sure = s.sure /\ RollbackTran(s).retry = s.retry
           /\ \A r \in BOOLEAN : WithRetry(s, r).sure = s.sure /\ WithRetry(s, r).retry = r
           /\ \A x : JoinTran(s, x).sure = s.sure /\ JoinTran(s, x).retry = s.retry
<1>1. s.sure \in BOOLEAN /\ s.retry \in BOOLEAN
  BY DEF SessionsOver
<1>2. /\ Unsure(s).count = s.count /\ Unsure(s).pending = s.pending
      /\ Unsure(s).retry = s.retry /\ ~Unsure(s).sure
  BY DEF Unsure, SessionsOver
<1>3. /\ BeginTran(s).sure = s.sure /\ BeginTran(s).retry = s.retry
      /\ RollbackTran(s).sure = s.sure /\ RollbackTran(s).retry = s.retry
  BY DEF BeginTran, RollbackTran, SessionsOver
<1>4. CommitTran(s).sure = s.sure /\ CommitTran(s).retry = s.retry
  BY DEF CommitTran, SessionsOver
<1>5. \A r \in BOOLEAN : WithRetry(s, r).sure = s.sure /\ WithRetry(s, r).retry = r
  BY DEF WithRetry, SessionsOver
<1>6. \A x : JoinTran(s, x).sure = s.sure /\ JoinTran(s, x).retry = s.retry
  BY DEF JoinTran, SessionsOver
<1> QED  BY <1>2, <1>3, <1>4, <1>5, <1>6
=============================================================================
