--------------------------- MODULE Executor_proofs ---------------------------
(* What Executor guarantees for every configuration, every set of            *)
(* statements, errors and operations, and every number of calls.             *)
EXTENDS Executor, FiniteSetTheorems, SequenceTheorems, WellFoundedInduction, TLAPS

-----------------------------------------------------------------------------
(* The delay of an attempt *)

(* Induction on the natural numbers, for a set of them.                      *)
LEMMA Induction ==
    ASSUME NEW S, 0 \in S, \A n \in Nat : n \in S => n + 1 \in S
    PROVE  Nat \subseteq S
<1> DEFINE T == Nat \ S
<1>1. SUFFICES ASSUME T # {}
               PROVE  FALSE
  OBVIOUS
<1>2. PICK m \in T : \A y \in T : <<y, m>> \notin OpToRel(<, Nat)
  BY <1>1, NatLessThanWellFounded, WFMin
<1>3. \A y \in T : ~(y < m)
  BY <1>2 DEF OpToRel
<1>4. m \in Nat /\ m \notin S /\ m # 0
  OBVIOUS
<1>5. m - 1 \in Nat /\ m - 1 < m /\ (m - 1) + 1 = m
  BY <1>4
<1>6. m - 1 \in S
  BY <1>3, <1>5
<1> QED
  BY <1>4, <1>5, <1>6

(* A table of the powers of two up to n.                                     *)
Doubles(f, n) ==
    /\ f \in [0..n -> Nat]
    /\ \A m \in 0..n : f[m] = IF m = 0 THEN 1 ELSE 2 * f[m - 1]

(* There is such a table for every n.                                        *)
LEMMA DoublesExist == \A n \in Nat : \E f : Doubles(f, n)
<1> DEFINE S == {n \in Nat : \E f : Doubles(f, n)}
<1>1. 0 \in S
  <2>1. Doubles([m \in 0..0 |-> 1], 0)
    BY DEF Doubles
  <2> QED  BY <2>1
<1>2. ASSUME NEW n \in Nat, n \in S
      PROVE  n + 1 \in S
  <2>1. PICK f : Doubles(f, n)
    BY <1>2
  <2> DEFINE g == [m \in 0..n + 1 |-> IF m = n + 1 THEN 2 * f[n] ELSE f[m]]
  <2>2. \A m \in 0..n : m \in 0..n + 1 /\ m # n + 1 /\ g[m] = f[m]
    OBVIOUS
  <2>3. g[n + 1] = 2 * f[n] /\ f[n] \in Nat /\ n \in 0..n /\ g[n] = f[n]
    BY <2>1 DEF Doubles
  <2>4. \A m \in 0..n + 1 : m \in 0..n \/ m = n + 1
    OBVIOUS
  <2>5. g \in [0..n + 1 -> Nat]
    BY <2>1, <2>3, <2>4 DEF Doubles
  <2>6. ASSUME NEW m \in 0..n + 1
        PROVE  g[m] = IF m = 0 THEN 1 ELSE 2 * g[m - 1]
    <3>1. CASE m = n + 1
      <4>1. m # 0 /\ m - 1 = n
        BY <3>1
      <4> HIDE DEF g
      <4> QED  BY <2>3, <3>1, <4>1
    <3>2. CASE m \in 0..n
      <4>1. m # 0 => m - 1 \in 0..n
        BY <3>2
      <4>2. f[m] = IF m = 0 THEN 1 ELSE 2 * f[m - 1]
        BY <2>1, <3>2 DEF Doubles
      <4> HIDE DEF g
      <4> QED  BY <2>2, <3>2, <4>1, <4>2
    <3> QED  BY <2>4, <3>1, <3>2
  <2>7. Doubles(g, n + 1)
    BY <2>5, <2>6 DEF Doubles
  <2> QED  BY <2>7
<1> HIDE DEF S
<1>3. Nat \subseteq S
  BY <1>1, <1>2, Induction
<1> QED
  BY <1>3 DEF S

(* Two tables agree where both are defined.                                  *)
LEMMA DoublesAgree ==
    \A n \in Nat : \A k \in Nat : \A f, g :
        n <= k /\ Doubles(f, n) /\ Doubles(g, k) => f[n] = g[n]
<1> DEFINE Same(n) == \A j, k \in Nat : \A f, g :
        n <= j /\ n <= k /\ Doubles(f, j) /\ Doubles(g, k) => f[n] = g[n]
           S == {n \in Nat : Same(n)}
<1>1. 0 \in S
  <2>1. Same(0)
    BY DEF Doubles
  <2> QED  BY <2>1
<1>2. ASSUME NEW n \in Nat, n \in S
      PROVE  n + 1 \in S
  <2>1. ASSUME NEW j \in Nat, NEW k \in Nat, NEW f, NEW g, n + 1 <= j, n + 1 <= k,
               Doubles(f, j), Doubles(g, k)
        PROVE  f[n + 1] = g[n + 1]
    <3>1. n <= j /\ n <= k
      BY <2>1
    <3>2. f[n] = g[n]
      BY <1>2, <2>1, <3>1
    <3>3. n + 1 \in 0..j /\ n + 1 \in 0..k /\ n + 1 # 0 /\ (n + 1) - 1 = n
      BY <2>1
    <3>4. f[n + 1] = 2 * f[n] /\ g[n + 1] = 2 * g[n]
      BY <2>1, <3>3 DEF Doubles
    <3> QED  BY <3>2, <3>4
  <2> QED  BY <2>1
<1>3. Nat \subseteq S
  <2> HIDE DEF S
  <2> QED  BY <1>1, <1>2, Induction
<1> QED
  BY <1>3

(* Doubled is the function its recursive definition describes.               *)
LEMMA DoubledIs ==
    /\ Doubled \in [Nat -> Nat]
    /\ Doubled[0] = 1
    /\ \A n \in Nat : Doubled[n + 1] = 2 * Doubled[n]
<1> DEFINE Table(n) == CHOOSE f : Doubles(f, n)
           F == [n \in Nat |-> Table(n)[n]]
<1>1. \A n \in Nat : Doubles(Table(n), n)
  BY DoublesExist
<1> HIDE DEF Table
<1>2. ASSUME NEW n \in Nat
      PROVE  F[n] = (IF n = 0 THEN 1 ELSE 2 * F[n - 1]) /\ F[n] \in Nat
  <2>1. n \in 0..n /\ F[n] = Table(n)[n]
    OBVIOUS
  <2>2. F[n] \in Nat
    BY <1>1, <2>1 DEF Doubles
  <2>3. CASE n = 0
    <3>1. Table(n)[n] = 1
      BY <1>1, <2>1, <2>3 DEF Doubles
    <3> QED  BY <2>1, <2>2, <2>3, <3>1
  <2>4. CASE n # 0
    <3>1. n - 1 \in Nat /\ n - 1 <= n
      BY <2>4
    <3>2. Table(n - 1)[n - 1] = Table(n)[n - 1]
      BY <1>1, <3>1, DoublesAgree
    <3>3. Table(n)[n] = 2 * Table(n)[n - 1]
      BY <1>1, <2>1, <2>4 DEF Doubles
    <3>4. F[n - 1] = Table(n - 1)[n - 1]
      BY <3>1
    <3> QED  BY <2>1, <2>2, <2>4, <3>2, <3>3, <3>4
  <2> QED  BY <2>3, <2>4
<1>3. F = [n \in Nat |-> IF n = 0 THEN 1 ELSE 2 * F[n - 1]]
  BY <1>2
<1> HIDE DEF F
<1>4. Doubled = [n \in Nat |-> IF n = 0 THEN 1 ELSE 2 * Doubled[n - 1]]
  BY <1>3 DEF Doubled
<1>5. \A n \in Nat : Doubled[n] = IF n = 0 THEN 1 ELSE 2 * Doubled[n - 1]
  BY <1>4
<1>6. \A n \in Nat : n + 1 \in Nat /\ n + 1 # 0 /\ (n + 1) - 1 = n
  OBVIOUS
<1>7. Doubled[0] = 1 /\ \A n \in Nat : Doubled[n + 1] = 2 * Doubled[n]
  BY <1>5, <1>6
<1> DEFINE S == {n \in Nat : Doubled[n] \in Nat}
<1>8. 0 \in S /\ \A n \in Nat : n \in S => n + 1 \in S
  BY <1>7
<1>9. Nat \subseteq S
  <2> HIDE DEF S
  <2> QED  BY <1>8, Induction
<1> QED
  BY <1>4, <1>7, <1>9

(* Powers of two grow, by at least one at each step.                         *)
LEMMA DoubledGrows ==
    \A m, n \in Nat : m < n => Doubled[m] + 1 <= Doubled[n]
<1>1. \A n \in Nat : Doubled[n] \in Nat
  BY DoubledIs
<1> DEFINE P(n) == Doubled[n] >= 1 /\ \A m \in Nat : m < n => Doubled[m] + 1 <= Doubled[n]
           S == {n \in Nat : P(n)}
<1>2. 0 \in S
  BY DoubledIs
<1>3. ASSUME NEW n \in Nat, n \in S
      PROVE  n + 1 \in S
  <2>1. Doubled[n + 1] = 2 * Doubled[n] /\ Doubled[n] \in Nat /\ Doubled[n] >= 1
    BY <1>1, <1>3, DoubledIs
  <2>2. ASSUME NEW m \in Nat, m < n + 1
        PROVE  Doubled[m] + 1 <= Doubled[n + 1]
    <3>1. m = n \/ m < n
      BY <2>2
    <3>2. m < n => Doubled[m] + 1 <= Doubled[n]
      BY <1>3
    <3> QED  BY <1>1, <2>1, <3>1, <3>2
  <2>3. P(n + 1)
    BY <2>1, <2>2
  <2> QED  BY <2>3
<1>4. Nat \subseteq S
  <2> HIDE DEF S
  <2> QED  BY <1>2, <1>3, Induction
<1> QED
  BY <1>4

(* Products of natural numbers are natural, and grow with their factors.     *)
LEMMA ProductGrows ==
    ASSUME NEW b \in Nat, NEW x \in Nat, NEW y \in Nat, x <= y
    PROVE  b * x \in Nat /\ b * x <= b * y
<1> DEFINE S == {n \in Nat : n * x \in Nat /\ n * y \in Nat /\ n * x <= n * y}
<1>1. 0 \in S
  OBVIOUS
<1>2. ASSUME NEW n \in Nat, n \in S
      PROVE  n + 1 \in S
  <2>1. (n + 1) * x = n * x + x /\ (n + 1) * y = n * y + y
    OBVIOUS
  <2> QED  BY <1>2, <2>1
<1>3. Nat \subseteq S
  <2> HIDE DEF S
  <2> QED  BY <1>1, <1>2, Induction
<1> QED
  BY <1>3

(* The multiplier never shrinks from one attempt to a later one, saturated   *)
(* or not.                                                                   *)
LEMMA MultiplierGrows ==
    /\ \A n \in Nat \ {0} : Multiplier(n) \in Nat
    /\ \A m, n \in Nat \ {0} : m < n => Multiplier(m) <= Multiplier(n)
<1>1. ShiftBits \in Nat /\ Doubled[ShiftBits] \in Nat
  BY BoundsAssumption, DoubledIs
<1>2. ASSUME NEW n \in Nat \ {0}
      PROVE  /\ n - 1 \in Nat /\ Doubled[n - 1] \in Nat
             /\ n - 1 < ShiftBits => Doubled[n - 1] <= Doubled[ShiftBits] - 1
  <2>1. n - 1 \in Nat
    OBVIOUS
  <2>2. Doubled[n - 1] \in Nat
    BY <2>1, DoubledIs
  <2>3. n - 1 < ShiftBits => Doubled[n - 1] + 1 <= Doubled[ShiftBits]
    BY <1>1, <2>1, DoubledGrows
  <2> QED  BY <1>1, <2>1, <2>2, <2>3
<1>3. Doubled[ShiftBits] - 1 \in Nat
  <2>1. 0 < ShiftBits
    BY BoundsAssumption
  <2>2. Doubled[0] + 1 <= Doubled[ShiftBits]
    BY <1>1, <2>1, DoubledGrows
  <2> QED  BY <1>1, <2>2, DoubledIs
<1>4. ASSUME NEW m \in Nat \ {0}, NEW n \in Nat \ {0}, m < n
      PROVE  Multiplier(m) <= Multiplier(n)
  <2>1. CASE n - 1 < ShiftBits
    <3>1. m - 1 < n - 1 /\ m - 1 < ShiftBits
      BY <1>1, <1>4, <2>1
    <3>2. Doubled[m - 1] + 1 <= Doubled[n - 1]
      BY <1>2, <3>1, DoubledGrows
    <3> QED  BY <1>2, <2>1, <3>1, <3>2 DEF Multiplier
  <2>2. CASE ~(n - 1 < ShiftBits)
    BY <1>1, <1>2, <1>3, <2>2 DEF Multiplier
  <2> QED  BY <2>1, <2>2
<1>5. ASSUME NEW n \in Nat \ {0}
      PROVE  Multiplier(n) \in Nat
  BY <1>2, <1>3 DEF Multiplier
<1> QED
  BY <1>4, <1>5

(* Nor does the delay, which stays under max_delay.                          *)
LEMMA DelayGrows ==
    ASSUME NEW retry \in Retries
    PROVE  /\ \A n \in Nat \ {0} :
                  RetryDelay(retry, n) \in Nat /\ RetryDelay(retry, n) <= retry.max_delay
           /\ \A m, n \in Nat \ {0} :
                  m < n => RetryDelay(retry, m) <= RetryDelay(retry, n)
<1>1. retry.base_delay \in Nat /\ retry.max_delay \in Nat
  BY DEF Retries
<1>2. ASSUME NEW n \in Nat \ {0}
      PROVE  retry.base_delay * Multiplier(n) \in Nat
  <2>1. Multiplier(n) \in Nat /\ Multiplier(n) <= Multiplier(n)
    BY MultiplierGrows
  <2> QED  BY <1>1, <2>1, ProductGrows
<1>3. ASSUME NEW m \in Nat \ {0}, NEW n \in Nat \ {0}, m < n
      PROVE  retry.base_delay * Multiplier(m) <= retry.base_delay * Multiplier(n)
  <2>1. Multiplier(m) \in Nat /\ Multiplier(n) \in Nat /\ Multiplier(m) <= Multiplier(n)
    BY <1>3, MultiplierGrows
  <2> QED  BY <1>1, <2>1, ProductGrows
<1> DEFINE scaled(n) == retry.base_delay * Multiplier(n)
<1>4. \A n : RetryDelay(retry, n) =
              IF scaled(n) < retry.max_delay THEN scaled(n) ELSE retry.max_delay
  BY DEF RetryDelay
<1>5. /\ \A n \in Nat \ {0} : scaled(n) \in Nat
      /\ \A m, n \in Nat \ {0} : m < n => scaled(m) <= scaled(n)
  BY <1>2, <1>3
<1> HIDE DEF scaled
<1>6. \A n \in Nat \ {0} :
          RetryDelay(retry, n) \in Nat /\ RetryDelay(retry, n) <= retry.max_delay
  BY <1>1, <1>4, <1>5
<1>7. ASSUME NEW m \in Nat \ {0}, NEW n \in Nat \ {0}, m < n
      PROVE  RetryDelay(retry, m) <= RetryDelay(retry, n)
  <2>1. scaled(m) \in Nat /\ scaled(n) \in Nat /\ scaled(m) <= scaled(n)
    BY <1>5, <1>7
  <2> QED  BY <1>1, <1>4, <2>1
<1> QED
  BY <1>6, <1>7

-----------------------------------------------------------------------------
(* Types *)

(* Only a read is sent again, so a write has one try.                        *)
Tries == Nat \X {0}
Sessions == [count : Nat, pending : SUBSET Tries, retry : BOOLEAN, sure : BOOLEAN]
Ended == [op : Commands \cup {"write"}, handle : Nat \cup {None}, trusted : BOOLEAN,
          outcome : {"applied", "refused", "unknown"}]

Logs == [start : Nat, finish : Nat, error : Nat]

Typed ==
    /\ config \in Configs /\ link \in {"up", "down"}
    /\ session \in Sessions /\ durable \in SUBSET Tries
    /\ done \in Seq(Ended)
    /\ handle \in 1..Len(done) \cup {None}
    /\ trusted \in BOOLEAN
    /\ call \in Calls \cup {None}

(* What is known of the call being awaited.                                  *)
InFlight ==
    call # None =>
        /\ call.handle = handle /\ call.trusted = trusted
        /\ call.op \notin Queries => call.stmt = HealthQuery
        /\ call.op \in {"commit", "rollback"} => handle # None
        /\ call.op \in Checks \cup {"begin"} => handle = None
        /\ call.attempt > 0 \/ call.phase = "asleep" => IsRetryableRead(call)
        /\ call.phase = "answered" =>
            /\ call.reply \in Errors \cup {"ok", "misfit"}
            /\ call.reply = "misfit" => call.op \in Reads

IsWriteCall == call.op \in Queries /\ call.stmt.writes

(* A call that changes the database is not sent again.                       *)
LEMMA WritesSentOnce ==
    ASSUME Typed, InFlight, call # None, Changes(call.op, call.stmt)
    PROVE  call.attempt = 0 /\ call.phase # "asleep" /\ ~MayRetry(call)
<1>1. call \in Calls
  BY DEF Typed
<1>2. ~IsRetryableRead(call)
  <2>1. call.op \in Commands => ~IsRetryableRead(call)
    BY DEF IsRetryableRead, Commands, Reads, Checks
  <2>2. call.stmt.writes => ~IsRetryableRead(call)
    BY <1>1, ReadOnlyIsIdempotent DEF Calls, IsRetryableRead, HealthQuery
  <2> QED  BY <2>1, <2>2 DEF Changes
<1> QED  BY <1>1, <1>2 DEF InFlight, MayRetry, Calls

(* A new call is well formed.                                                *)
LEMMA FreshTyped ==
    ASSUME Typed, NEW op \in Queries \cup Commands \cup Checks,
           NEW s \in Statements \cup {HealthQuery}
    PROVE  Fresh(op, s) \in Calls
<1>1. config.retry \in Retries /\ config.tracing \in BOOLEAN
      /\ config.query_timeout \in Nat \cup {None} /\ config.health_timeout \in Nat \cup {None}
  BY ConfigsAssumption DEF Typed
<1>2. RetryOptions \in Retries
  BY <1>1 DEF RetryOptions, DisabledRetry, Retries
<1>3. TimeoutOf(op) \in Nat \cup {None}
  BY <1>1 DEF TimeoutOf, HealthTimeout
<1>4. Started(op, Silent) \in [start : Nat, finish : Nat, error : Nat]
  BY DEF Started, Silent
<1>5. handle \in Nat \cup {None} /\ trusted \in BOOLEAN
  <2>1. Len(done) \in Nat
    BY LenProperties DEF Typed
  <2> QED  BY <2>1 DEF Typed
<1> QED  BY <1>2, <1>3, <1>4, <1>5 DEF Fresh, Calls

(* What the server does to a well-formed session leaves one.                 *)
LEMMA SessionTyped ==
    ASSUME NEW s \in Sessions
    PROVE  /\ BeginTran(s) \in Sessions
           /\ InTransaction(s) => CommitTran(s) \in Sessions
           /\ RollbackTran(s) \in Sessions
           /\ MadeDurable(s) \in SUBSET Tries
           /\ \A x \in Tries : JoinTran(s, x) \in Sessions
           /\ \A x \in Tries : AutoCommitted(s, x) \in SUBSET Tries
<1>1. BeginTran(s) \in Sessions
  BY DEF Sessions, BeginTran
<1>2. InTransaction(s) => CommitTran(s) \in Sessions
  <2> SUFFICES ASSUME InTransaction(s)
               PROVE  CommitTran(s) \in Sessions
    OBVIOUS
  <2>1. s.count - 1 \in Nat
    BY DEF Sessions, InTransaction
  <2> QED  BY <2>1 DEF Sessions, CommitTran
<1>3. \A x \in Tries : JoinTran(s, x) \in Sessions
  BY DEF Sessions, JoinTran
<1>4. MadeDurable(s) \in SUBSET Tries /\ \A x \in Tries : AutoCommitted(s, x) \in SUBSET Tries
  BY DEF Sessions, MadeDurable, AutoCommitted
<1>5. RollbackTran(s) \in Sessions
  BY DEF Sessions, RollbackTran
<1> QED  BY <1>1, <1>2, <1>3, <1>4, <1>5

(* Executing what was sent, whatever it is.                                  *)
LEMMA AppliesTyped ==
    ASSUME Typed, InFlight, call # None, Applies(call)
    PROVE  session' \in Sessions /\ durable' \in SUBSET Tries
<1>0. session \in Sessions /\ durable \in SUBSET Tries /\ call \in Calls /\ NextId \in Nat
  BY LenProperties DEF Typed, NextId
<1>1. CASE call.op = "begin"
  BY <1>0, <1>1, SessionTyped DEF Applies
<1>2. CASE call.op = "commit"
  BY <1>0, <1>2, SessionTyped DEF Applies
<1>3. CASE call.op = "rollback"
  BY <1>0, <1>3, SessionTyped DEF Applies
<1>4. CASE call.op \in Queries /\ call.stmt.writes
  <2>1. Effect(call) \in Tries
    BY <1>0, <1>4, WritesSentOnce DEF Effect, Tries, Changes
  <2>2. session' = JoinTran(session, Effect(call))
        /\ durable' = durable \cup AutoCommitted(session, Effect(call))
    BY <1>4 DEF Applies, Write, Queries
  <2> QED  BY <1>0, <2>1, <2>2, SessionTyped
<1>5. CASE call.op \notin Commands /\ ~(call.op \in Queries /\ call.stmt.writes)
  BY <1>0, <1>5 DEF Applies, Commands
<1> QED  BY <1>1, <1>2, <1>3, <1>4, <1>5 DEF Commands

(* A call whose attempt is counted is a call: the first of the fields, each  *)
(* set to a value of its type.                                               *)
LEMMA AttemptSet ==
    ASSUME NEW c \in Calls, NEW n \in Nat
    PROVE  [c EXCEPT !.attempt = n] \in Calls
BY DEF Calls
(* So does its phase.                                                        *)
LEMMA PhaseSet ==
    ASSUME NEW c \in Calls, NEW p \in {"sent", "answered", "asleep"}
    PROVE  [c EXCEPT !.phase = p] \in Calls
BY DEF Calls
(* The reply.                                                                *)
LEMMA ReplySet ==
    ASSUME NEW c \in Calls, NEW r \in Errors \cup {None, "ok", "misfit"}
    PROVE  [c EXCEPT !.reply = r] \in Calls
BY DEF Calls
(* The delays slept.                                                         *)
LEMMA DelaysSet ==
    ASSUME NEW c \in Calls, NEW d \in SUBSET (Nat \X Nat)
    PROVE  [c EXCEPT !.delays = d] \in Calls
BY DEF Calls
(* The log of the attempts.                                                  *)
LEMMA LogSet ==
    ASSUME NEW c \in Calls, NEW l \in Logs
    PROVE  [c EXCEPT !.log = l] \in Calls
BY DEF Calls, Logs
(* The time passed and the time to wait.                                     *)
LEMMA TimesSet ==
    ASSUME NEW c \in Calls, NEW a \in Nat, NEW w \in Nat
    PROVE  /\ [c EXCEPT !.age = a] \in Calls
           /\ [c EXCEPT !.wait = w] \in Calls
BY DEF Calls

(* Counting an event leaves a log.                                           *)
LEMMA LogTyped ==
    ASSUME NEW op, NEW l \in Logs, NEW ok \in BOOLEAN
    PROVE  Started(op, l) \in Logs /\ Logged(l, ok) \in Logs
<1>1. Started(op, l) \in Logs
  BY DEF Started, Logs
<1>2. Logged(l, ok) \in Logs
  BY DEF Logged, Logs
<1> QED  BY <1>1, <1>2

(* The server or the stream answers.                                         *)
Answering == ServerExecutes \/ ServerFails \/ ServerRefuses \/ Interrupted
             \/ LinkBreaks \/ LinkIsDown
(* The executor goes on with the call.                                       *)
GoingOn == Retry \/ Wake \/ Tick

(* An answer changes the awaited call in its phase and its reply only.       *)
LEMMA AnsweringCall ==
    ASSUME Answering
    PROVE  /\ call # None /\ call.phase = "sent" /\ (link = "up" \/ LinkIsDown)
           /\ \E reply \in Errors \cup {"ok", "misfit"} :
                /\ call' = [call EXCEPT !.phase = "answered", !.reply = reply]
                /\ reply = "misfit" => call.op \in Reads
           /\ UNCHANGED <<config, handle, trusted, last, done>>
<1>1. CASE ServerExecutes
  BY <1>1 DEF Errors, ServerExecutes, Answer, ReadsRows
<1>2. CASE ServerFails
  BY <1>2, RepliesAssumption DEF Errors, ServerFails, Answer
<1>3. CASE ServerRefuses
  BY <1>3 DEF Errors, server, ServerRefuses, Answer
<1>4. CASE Interrupted
  BY <1>4 DEF Errors, server, Interrupted, Answer
<1>5. CASE LinkBreaks
  BY <1>5 DEF Errors, server, LinkBreaks, Answer
<1>6. CASE LinkIsDown
  BY <1>6 DEF Errors, server, LinkIsDown, Answer
<1> QED  BY <1>1, <1>2, <1>3, <1>4, <1>5, <1>6 DEF Answering

(* A retry, a wake and a tick leave the server alone and keep what the call  *)
(* is; only a retry counts an attempt.                                       *)
LEMMA GoingOnCall ==
    ASSUME Typed, InFlight, GoingOn
    PROVE  /\ call # None /\ call' \in Calls
           /\ UNCHANGED <<config, server, handle, trusted, last, done>>
           /\ call'.op = call.op /\ call'.stmt = call.stmt /\ call'.retry = call.retry
           /\ call'.handle = call.handle /\ call'.trusted = call.trusted
           /\ \/ /\ MayRetry(call) /\ call.phase = "answered" /\ call'.phase = "asleep"
                 /\ call'.attempt = call.attempt + 1
                 /\ call'.log = Traced(call).log
              \/ /\ call'.attempt = call.attempt /\ call'.phase = "sent"
                 /\ call.phase = "asleep"
                 /\ call'.log = Started(call.op, call.log)
              \/ /\ call'.attempt = call.attempt /\ call'.phase = call.phase
                 /\ call'.reply = call.reply /\ call'.log = call.log
<1>1. call # None /\ call \in Calls
  BY DEF Typed, GoingOn, Retry, Wake, Tick
<1>2. Logged(call.log, call.reply \in {"ok", "misfit"}) \in Logs
  <2>1. call.log \in Logs
    BY <1>1 DEF Calls, Logs
  <2>2. CASE call.reply \in {"ok", "misfit"}
    BY <2>1, <2>2 DEF Logged, Logs
  <2>3. CASE call.reply \notin {"ok", "misfit"}
    BY <2>1, <2>3 DEF Logged, Logs
  <2> QED  BY <2>2, <2>3
<1>3. CASE Retry
  <2> DEFINE l == Logged(call.log, call.reply \in {"ok", "misfit"})
  <2>1. l \in Logs /\ Traced(call) = [call EXCEPT !.log = l]
    BY <1>2 DEF Traced
  <2> HIDE DEF l
  <2>2. PICK n \in Nat : n = RetryDelay(call.retry, call.attempt + 1)
    <3>1. call.retry \in Retries /\ call.attempt + 1 \in Nat \ {0}
      BY <1>1 DEF Calls
    <3> QED  BY <3>1, DelayGrows
  <2> DEFINE c1 == [call EXCEPT !.log = l]
             c2 == [c1 EXCEPT !.attempt = call.attempt + 1]
             c3 == [c2 EXCEPT !.phase = "asleep"]
             c4 == [c3 EXCEPT !.wait = n]
             c5 == [c4 EXCEPT !.delays = call.delays \cup {<<call.attempt + 1, n>>}]
  <2>3. c1 \in Calls /\ c2 \in Calls /\ c3 \in Calls /\ c4 \in Calls
    <3>1. c1 \in Calls
      BY <1>1, <2>1, LogSet
    <3>2. c2 \in Calls
      <4>1. call.attempt + 1 \in Nat
        BY <1>1 DEF Calls
      <4> QED  BY <3>1, <4>1, AttemptSet
    <3>3. c3 \in Calls
      BY <3>2, PhaseSet
    <3>4. c4 \in Calls
      BY <2>2, <3>3, TimesSet
    <3> QED  BY <3>1, <3>2, <3>3, <3>4
  <2>4. c5 \in Calls
    <3>1. call.delays \cup {<<call.attempt + 1, n>>} \in SUBSET (Nat \X Nat)
      BY <1>1, <2>2 DEF Calls
    <3> HIDE DEF c4
    <3> QED  BY <2>3, <3>1, DelaysSet
  <2>5. call' = c5
    <3>1. c1.retry = call.retry /\ c1.attempt = call.attempt /\ c1.delays = call.delays
      BY <1>1 DEF Calls
    <3> QED  BY <1>3, <2>1, <2>2, <3>1 DEF Retry, Retried
  <2>6. /\ c5.op = call.op /\ c5.stmt = call.stmt /\ c5.retry = call.retry
        /\ c5.handle = call.handle /\ c5.trusted = call.trusted
        /\ c5.phase = "asleep" /\ c5.attempt = call.attempt + 1 /\ c5.log = l
    BY <1>1 DEF Calls
  <2>7. Traced(call).log = l
    BY <1>1, <2>1 DEF Calls
  <2> HIDE DEF c5
  <2> QED  BY <1>1, <1>3, <2>4, <2>5, <2>6, <2>7 DEF Retry, server
<1>4. CASE Wake
  <2>1. PICK l \in Logs : Started(call.op, call.log) = l
    <3>1. call.log \in Logs
      BY <1>1 DEF Calls, Logs
    <3> QED  BY <3>1, LogTyped
  <2> DEFINE c1 == [call EXCEPT !.phase = "sent"]
             c2 == [c1 EXCEPT !.reply = None]
             c3 == [c2 EXCEPT !.log = l]
  <2>2. c3 \in Calls
    BY <1>1, <2>1, PhaseSet, ReplySet, LogSet
  <2>3. call' = c3
    <3>1. c2.log = call.log
      BY <1>1 DEF Calls
    <3> QED  BY <1>4, <2>1, <3>1 DEF Wake
  <2>4. /\ c3.op = call.op /\ c3.stmt = call.stmt /\ c3.retry = call.retry
        /\ c3.handle = call.handle /\ c3.trusted = call.trusted
        /\ c3.phase = "sent" /\ c3.attempt = call.attempt /\ c3.log = l
    BY <1>1 DEF Calls
  <2> HIDE DEF c3
  <2> QED  BY <1>1, <1>4, <2>1, <2>2, <2>3, <2>4 DEF Wake, server
<1>5. CASE Tick
  <2> DEFINE age == IF call.deadline = None THEN call.age ELSE call.age + 1
             wait == IF call.wait > 0 THEN call.wait - 1 ELSE 0
             c1 == [call EXCEPT !.age = age]
             c2 == [c1 EXCEPT !.wait = wait]
  <2>1. age \in Nat /\ wait \in Nat
    <3>1. call.age \in Nat /\ call.wait \in Nat
      BY <1>1 DEF Calls
    <3> QED  BY <3>1
  <2>2. c2 \in Calls
    <3> HIDE DEF age, wait
    <3> QED  BY <1>1, <2>1, TimesSet
  <2>3. call' = c2
    <3>1. c1.wait = call.wait
      BY <1>1 DEF Calls
    <3> QED  BY <1>5, <3>1 DEF Tick
  <2>4. /\ c2.op = call.op /\ c2.stmt = call.stmt /\ c2.retry = call.retry
        /\ c2.handle = call.handle /\ c2.trusted = call.trusted /\ c2.phase = call.phase
        /\ c2.attempt = call.attempt /\ c2.reply = call.reply /\ c2.log = call.log
    BY <1>1 DEF Calls
  <2> HIDE DEF c2
  <2> QED  BY <1>1, <1>5, <2>2, <2>3, <2>4 DEF Tick, server
<1> QED  BY <1>3, <1>4, <1>5 DEF GoingOn

(* What a finished call adds to the record of the finished calls.            *)
Entry(c, reply) ==
    [op |-> IF c.op \in Queries THEN "write" ELSE c.op, handle |-> c.handle,
     trusted |-> c.trusted, outcome |-> Outcome(reply)]

(* A call that ends leaves a well-formed record, and one more of them if it  *)
(* was numbered.                                                             *)
LEMMA FinishRecords ==
    ASSUME Typed, NEW c, NEW reply, Finish(c, reply),
           c.op \in Queries \cup Commands \cup Checks,
           c.handle \in Nat \cup {None}, c.trusted \in BOOLEAN
    PROVE  /\ done' \in Seq(Ended) /\ Len(done) \in Nat
           /\ \A id \in 1..Len(done) : done'[id] = done[id]
           /\ Changes(c.op, c.stmt) => Len(done') = NextId /\ done'[NextId] = Entry(c, reply)
           /\ ~Changes(c.op, c.stmt) => Len(done') = Len(done)
<1>1. done \in Seq(Ended) /\ Len(done) \in Nat
  BY LenProperties DEF Typed
<1>2. CASE Changes(c.op, c.stmt)
  <2>1. Entry(c, reply) \in Ended
    <3>1. Outcome(reply) \in {"applied", "refused", "unknown"}
      BY DEF Outcome
    <3>2. (IF c.op \in Queries THEN "write" ELSE c.op) \in Commands \cup {"write"}
      BY <1>2 DEF Changes
    <3> QED  BY <3>1, <3>2 DEF Entry, Ended
  <2>2. done' = Append(done, Entry(c, reply))
    BY <1>2 DEF Finish, Entry
  <2> QED  BY <1>1, <1>2, <2>1, <2>2, AppendProperties DEF NextId
<1>3. CASE ~Changes(c.op, c.stmt)
  BY <1>1, <1>3 DEF Finish
<1> QED  BY <1>2, <1>3

(* The call a Return or a Lost ends has the fields of the one awaited.       *)
LEMMA EndedCall ==
    ASSUME Typed, InFlight, call # None, NEW l,
           NEW c, c = call \/ c = [call EXCEPT !.log = l]
    PROVE  /\ c.op = call.op /\ c.stmt = call.stmt /\ c.attempt = call.attempt
           /\ c.reply = call.reply /\ c.phase = call.phase
           /\ c.handle = handle /\ c.trusted = trusted
           /\ c.op \in Queries \cup Commands \cup Checks
           /\ c.handle \in Nat \cup {None} /\ c.trusted \in BOOLEAN
           /\ Entry(c, call.reply) = Entry(call, call.reply)
           /\ call.stmt \in Statements \cup {HealthQuery}
<1>1. call \in Calls
  BY DEF Typed
<1>2. /\ c.op = call.op /\ c.stmt = call.stmt /\ c.attempt = call.attempt
      /\ c.reply = call.reply /\ c.phase = call.phase
      /\ c.handle = call.handle /\ c.trusted = call.trusted
  BY <1>1 DEF Calls
<1> QED  BY <1>1, <1>2 DEF Calls, InFlight, Entry

Recorded(reply) ==
    /\ done' \in Seq(Ended) /\ Len(done) \in Nat
    /\ \A id \in 1..Len(done) : done'[id] = done[id]
    /\ Changes(call.op, call.stmt) => Len(done') = NextId /\ done'[NextId] = Entry(call, reply)
    /\ ~Changes(call.op, call.stmt) => Len(done') = Len(done)

(* Each way a call ends.                                                     *)
LEMMA EndingRecords ==
    ASSUME Typed, InFlight, call # None, NEW reply,
           (Return /\ reply = call.reply) \/ Lost(call, reply)
    PROVE  Recorded(reply) /\ call' = None
<1>1. PICK c : /\ c = call \/ \E l : c = [call EXCEPT !.log = l]
               /\ Finish(c, reply)
  BY DEF Return, Lost, Traced
<1>2. /\ c.op = call.op /\ c.stmt = call.stmt
      /\ c.handle = handle /\ c.trusted = trusted
      /\ c.op \in Queries \cup Commands \cup Checks
      /\ c.handle \in Nat \cup {None} /\ c.trusted \in BOOLEAN
      /\ call.handle = handle /\ call.trusted = trusted
  BY <1>1, EndedCall DEF InFlight
<1>3. Entry(c, reply) = Entry(call, reply)
  BY <1>2 DEF Entry
<1> QED  BY <1>1, <1>2, <1>3, FinishRecords DEF Recorded, Finish

(* A statement that never left is recorded as refused.                       *)
LEMMA RefusedRecords ==
    ASSUME Typed, NEW op \in Queries, NEW s \in Statements, QueryRefused(op, s)
    PROVE  /\ done' \in Seq(Ended) /\ Len(done') \in {Len(done), NextId} /\ call' = None
           /\ Len(done') = NextId =>
                /\ done'[NextId].op = "write" /\ done'[NextId].handle = handle
                /\ done'[NextId].outcome = "refused"
<1>0. Len(done) \in Nat
  BY LenProperties DEF Typed
<1>1. PICK l : Finish([Fresh(op, s) EXCEPT !.attempt = -1, !.log = l], "compile")
  BY DEF QueryRefused
<1> DEFINE c == [Fresh(op, s) EXCEPT !.attempt = -1, !.log = l]
<1>2. c.op = op /\ c.stmt = s /\ c.handle = handle /\ c.trusted = trusted
  <2> DEFINE f == Fresh(op, s)
  <2>1. f \in Calls
    BY FreshTyped
  <2>2. f.op = op /\ f.stmt = s /\ f.handle = handle /\ f.trusted = trusted
    BY DEF Fresh
  <2> HIDE DEF f
  <2>3. c = [f EXCEPT !.attempt = -1, !.log = l]
    BY DEF f
  <2> QED  BY <2>1, <2>2, <2>3 DEF Calls
<1> HIDE DEF c
<1>3. Finish(c, "compile")
  BY <1>1 DEF c
<1>4. c.handle \in Nat \cup {None} /\ c.trusted \in BOOLEAN
  BY <1>0, <1>2 DEF Typed
<1>5. /\ done' \in Seq(Ended)
      /\ Changes(c.op, c.stmt) => Len(done') = NextId /\ done'[NextId] = Entry(c, "compile")
      /\ ~Changes(c.op, c.stmt) => Len(done') = Len(done)
  BY <1>2, <1>3, <1>4, FinishRecords
<1>6. Outcome("compile") = "refused"
  BY DEF Outcome
<1>7. Len(done) # NextId
  BY <1>0 DEF NextId
<1> QED  BY <1>2, <1>3, <1>5, <1>6, <1>7 DEF Entry, Finish

(* An answered call is the sent one with a reply the code can see.           *)
LEMMA AnsweredCall ==
    ASSUME Typed, Answering
    PROVE  \E reply \in Errors \cup {"ok", "misfit"} :
              /\ call # None /\ call \in Calls /\ call.phase = "sent"
              /\ reply = "misfit" => call.op \in Reads
              /\ call' = [call EXCEPT !.phase = "answered", !.reply = reply]
              /\ call' \in Calls /\ call' # None
              /\ call'.op = call.op /\ call'.stmt = call.stmt /\ call'.retry = call.retry
              /\ call'.handle = call.handle /\ call'.trusted = call.trusted
              /\ call'.attempt = call.attempt /\ call'.log = call.log
              /\ call'.phase = "answered" /\ call'.reply = reply
<1>1. PICK reply \in Errors \cup {"ok", "misfit"} :
          /\ call' = [call EXCEPT !.phase = "answered", !.reply = reply]
          /\ reply = "misfit" => call.op \in Reads
  BY AnsweringCall
<1>2. call # None /\ call \in Calls /\ call.phase = "sent"
  BY AnsweringCall DEF Typed
<1>3. [call EXCEPT !.phase = "answered"] \in Calls
  BY <1>2, PhaseSet
<1>4. call' \in Calls /\ call' # None
  BY <1>1, <1>3, ReplySet, NoneAssumption
<1>5. /\ call'.op = call.op /\ call'.stmt = call.stmt /\ call'.retry = call.retry
      /\ call'.handle = call.handle /\ call'.trusted = call.trusted
      /\ call'.attempt = call.attempt /\ call'.log = call.log
      /\ call'.phase = "answered" /\ call'.reply = reply
  BY <1>1, <1>2 DEF Calls
<1> QED  BY <1>1, <1>2, <1>4, <1>5

(* Every step keeps every variable in its type.                              *)
LEMMA TypedStep ==
    ASSUME Typed, InFlight, [Next]_vars
    PROVE  Typed'
<1>0. Len(done) \in Nat
  BY LenProperties DEF Typed
<1>1. ASSUME NEW op \in Queries, NEW s \in Statements, Query(op, s)
      PROVE  Typed'
  BY <1>1, FreshTyped DEF Query, Typed, server
<1>2. ASSUME NEW op \in Queries, NEW s \in Statements, QueryRefused(op, s)
      PROVE  Typed'
  <2>1. done' \in Seq(Ended) /\ Len(done') \in {Len(done), NextId} /\ call' = None
    BY <1>2, RefusedRecords DEF QueryRefused, Finish
  <2> QED  BY <1>0, <1>2, <2>1 DEF QueryRefused, Typed, NextId, server
<1>3. ASSUME NEW op \in Commands \cup Checks, Command(op)
      PROVE  Typed'
  BY <1>3, FreshTyped DEF Command, Typed, server
<1>4. CASE DropHandle
  BY <1>4 DEF DropHandle, Typed, server
<1>5. CASE Answering
  <2>1. call' \in Calls
    BY <1>5, AnsweredCall
  <2>2. session' \in Sessions /\ durable' \in SUBSET Tries /\ link' \in {"up", "down"}
    <3>0. session \in Sessions /\ durable \in SUBSET Tries /\ RollbackTran(session) \in Sessions
          /\ link \in {"up", "down"} /\ call # None
      BY <1>5, SessionTyped, AnsweringCall DEF Typed
    <3>1. CASE ServerExecutes
      BY <3>0, <3>1, AppliesTyped DEF ServerExecutes
    <3>2. CASE ServerFails
      BY <3>0, <3>2 DEF ServerFails
    <3>3. CASE ServerRefuses \/ LinkIsDown
      BY <3>0, <3>3 DEF ServerRefuses, LinkIsDown, server
    <3>4. CASE Interrupted
      BY <3>0, <3>4, AppliesTyped DEF Interrupted
    <3>5. CASE LinkBreaks
      <4>1. CASE call.op \in Queries /\ call.stmt.writes
        <5>1. Effect(call) \in Tries
          BY <1>0, <3>0, <4>1, WritesSentOnce DEF Effect, Tries, Changes, NextId
        <5> QED  BY <3>0, <3>5, <5>1, SessionTyped DEF LinkBreaks
      <4>2. CASE ~(call.op \in Queries /\ call.stmt.writes)
        BY <3>0, <3>5, <4>2, SessionTyped DEF LinkBreaks
      <4> QED  BY <4>1, <4>2
    <3> QED  BY <1>5, <3>1, <3>2, <3>3, <3>4, <3>5 DEF Answering
  <2> QED  BY <1>5, <2>1, <2>2, AnsweringCall DEF Typed
<1>6. CASE GoingOn
  BY <1>6, GoingOnCall DEF Typed, server
<1>7. ASSUME call # None, NEW reply, (Return /\ reply = call.reply) \/ Lost(call, reply)
      PROVE  Typed'
  <2>1. /\ call' = None /\ done' \in Seq(Ended)
        /\ Changes(call.op, call.stmt) => Len(done') = NextId
        /\ ~Changes(call.op, call.stmt) => Len(done') = Len(done)
    BY <1>7, EndingRecords DEF Recorded
  <2>2. config' \in Configs
    BY <1>7 DEF Return, Lost, Typed
  <2>3. link' \in {"up", "down"} /\ trusted' \in BOOLEAN
    BY <1>7 DEF Return, Settled, Lost, Dropped, Typed
  <2>4. session' \in Sessions /\ durable' \in SUBSET Tries
    <3>1. FreshSession \in Sessions
      BY DEF FreshSession, Sessions
    <3> QED  BY <1>7, <3>1, AppliesTyped DEF Return, Settled, Lost, Dropped, Typed
  <2>5. handle' \in 1..Len(done') \cup {None}
    <3>1. handle' \in {handle, None} \/ (call.op = "begin" /\ handle' = NextId)
      <4>1. CASE Return
        BY <4>1 DEF Return, Settled
      <4>2. CASE Lost(call, reply)
        BY <4>2 DEF Lost
      <4> QED  BY <1>7, <4>1, <4>2
    <3> QED  BY <1>0, <2>1, <3>1 DEF Typed, NextId, Changes, Commands
  <2> QED  BY <2>1, <2>2, <2>3, <2>4, <2>5 DEF Typed
<1>8. CASE UNCHANGED vars
  BY <1>8 DEF vars, Typed
<1> QED  BY <1>1, <1>2, <1>3, <1>4, <1>5, <1>6, <1>7, <1>8
         DEF Next, Answering, GoingOn, Return, Timeout, Cancel

(* InFlight is kept: the handle and the trust of a call do not change under  *)
(* it.                                                                       *)
LEMMA InFlightStep ==
    ASSUME Typed, InFlight, [Next]_vars
    PROVE  InFlight'
<1>1. ASSUME NEW op \in Queries, NEW s \in Statements, Query(op, s)
      PROVE  InFlight'
  <2>1. op \notin Commands \cup Checks
    BY DEF Queries, Commands, Checks
  <2> QED  BY <1>1, <2>1 DEF Query, Fresh, InFlight, Commands, Checks
<1>2. ASSUME NEW op \in Queries, NEW s \in Statements, QueryRefused(op, s)
      PROVE  InFlight'
  BY <1>2 DEF QueryRefused, Finish, InFlight
<1>3. ASSUME NEW op \in Commands \cup Checks, Command(op)
      PROVE  InFlight'
  <2>1. op \notin Queries /\ (op \in Checks => op \notin Commands)
    BY DEF Queries, Commands, Checks
  <2> QED  BY <1>3, <2>1 DEF Command, Allowed, Fresh, InFlight, Commands
<1>4. CASE DropHandle
  BY <1>4 DEF DropHandle, InFlight
<1>5. CASE Answering
  <2>1. UNCHANGED <<handle, trusted>>
    BY <1>5, AnsweringCall
  <2> QED  BY <1>5, <2>1, AnsweredCall DEF InFlight, IsRetryableRead
<1>6. CASE GoingOn
  <2>1. MayRetry(call) => IsRetryableRead(call)
    BY DEF MayRetry
  <2> QED  BY <1>6, <2>1, GoingOnCall DEF InFlight, IsRetryableRead
<1>7. ASSUME call' = None
      PROVE  InFlight'
  BY <1>7 DEF InFlight
<1>8. CASE UNCHANGED vars
  BY <1>8 DEF vars, InFlight, IsRetryableRead
<1> QED  BY <1>1, <1>2, <1>3, <1>4, <1>5, <1>6, <1>7, <1>8, EndingRecords
         DEF Next, Answering, GoingOn, Return, Timeout, Cancel

-----------------------------------------------------------------------------
(* Effects *)

(* The write with this number was executed and not rolled back.              *)
Effected(id) == <<id, 0>> \in durable \cup session.pending

(* The write being awaited may have been executed.                           *)
MayHaveRun ==
    /\ call # None /\ IsWriteCall /\ call.phase = "answered"
    /\ Outcome(call.reply) # "refused"

(* What is in the database are the writes of the program, and none of those  *)
(* the caller knows to be refused.                                           *)
Effects ==
    /\ \A id \in Nat : Effected(id) => id \in 1..Len(done) \/ (id = NextId /\ MayHaveRun)
    /\ \A id \in 1..Len(done) : done[id].outcome = "refused" => ~Effected(id)

(* Executing a statement puts at most the awaited write into the database.   *)
LEMMA AppliesEffects ==
    ASSUME Typed, InFlight, call # None, Applies(call)
    PROVE  \A id \in Nat : Effected(id)' => Effected(id) \/ (id = NextId /\ IsWriteCall)
<1>1. session \in Sessions /\ durable \in SUBSET Tries
  BY DEF Typed
<1>2. CASE call.op = "begin"
  BY <1>1, <1>2 DEF Applies, Effected, BeginTran, Sessions
<1>3. CASE call.op = "commit"
  BY <1>1, <1>3 DEF Applies, Effected, CommitTran, MadeDurable, Sessions
<1>4. CASE call.op = "rollback"
  BY <1>1, <1>4 DEF Applies, Effected, RollbackTran, Sessions
<1>5. CASE IsWriteCall
  <2>1. Effect(call) = <<NextId, 0>>
    BY <1>5, WritesSentOnce DEF IsWriteCall, Changes, Effect
  <2>2. session' = JoinTran(session, Effect(call))
        /\ durable' = durable \cup AutoCommitted(session, Effect(call))
    BY <1>5 DEF IsWriteCall, Applies, Write, Queries
  <2>3. session'.pending \subseteq session.pending \cup {Effect(call)}
    BY <1>1, <2>2 DEF JoinTran, Sessions
  <2>4. durable' \subseteq durable \cup {Effect(call)}
    BY <2>2 DEF AutoCommitted
  <2> QED  BY <1>5, <2>1, <2>3, <2>4 DEF Effected
<1>6. CASE call.op \notin Commands /\ ~IsWriteCall
  BY <1>6 DEF Applies, Effected, Commands, IsWriteCall
<1> QED  BY <1>2, <1>3, <1>4, <1>5, <1>6 DEF Commands

(* Only the write that was sent adds an effect, when it is answered with     *)
(* something else than a refusal or abandoned.                               *)
LEMMA OnlyTheCallWrites ==
    ASSUME Typed, InFlight, [Next]_vars
    PROVE  \A id \in Nat : Effected(id)' =>
              \/ Effected(id)
              \/ /\ id = NextId /\ call # None /\ IsWriteCall /\ call.phase = "sent"
                 /\ \/ Answering /\ Outcome(call'.reply) # "refused"
                    \/ \E reply \in {"timeout", "cancelled"} : Lost(call, reply)
<1>0. session \in Sessions /\ durable \in SUBSET Tries
  BY DEF Typed
<1>1. CASE Answering
  <2>1. call # None /\ call.phase = "sent" /\ call \in Calls
    BY <1>1, AnsweringCall DEF Typed
  <2>2. ASSUME NEW reply, Answer(reply)
        PROVE  call'.reply = reply
    BY <2>1, <2>2 DEF Answer, Calls
  <2>3. CASE ServerExecutes
    <3>1. Applies(call) /\ call'.reply \in {"ok", "misfit"}
      BY <2>2, <2>3 DEF ServerExecutes
    <3> QED  BY <1>1, <2>1, <3>1, AppliesEffects DEF Outcome
  <2>4. CASE ServerFails
    BY <1>0, <2>4 DEF ServerFails, RollbackTran, Effected, Sessions
  <2>5. CASE ServerRefuses \/ LinkIsDown
    BY <2>5 DEF ServerRefuses, LinkIsDown, server, Effected
  <2>6. CASE Interrupted
    <3>1. call'.reply = "interrupted" /\ (UNCHANGED <<session, durable>> \/ Applies(call))
      BY <2>2, <2>6 DEF Interrupted
    <3> QED  BY <1>1, <2>1, <3>1, AppliesEffects DEF Outcome, Effected
  <2>7. CASE LinkBreaks
    <3>1. call'.reply = "io" /\ session' = RollbackTran(session)
      BY <2>2, <2>7 DEF LinkBreaks
    <3>2. session'.pending = {}
      BY <1>0, <3>1 DEF RollbackTran, Sessions
    <3>3. \/ durable' = durable
          \/ IsWriteCall /\ durable' = durable \cup AutoCommitted(session, Effect(call))
          \/ durable' = durable \cup MadeDurable(session)
      BY <2>7 DEF LinkBreaks, IsWriteCall
    <3>4. IsWriteCall => Effect(call) = <<NextId, 0>>
      BY <2>1, WritesSentOnce DEF IsWriteCall, Changes, Effect
    <3>5. AutoCommitted(session, Effect(call)) \subseteq {Effect(call)}
          /\ MadeDurable(session) \subseteq session.pending
      BY DEF AutoCommitted, MadeDurable
    <3> QED  BY <1>1, <2>1, <3>1, <3>2, <3>3, <3>4, <3>5 DEF Effected, Outcome
  <2> QED  BY <1>1, <2>3, <2>4, <2>5, <2>6, <2>7 DEF Answering
<1>2. ASSUME NEW reply \in {"timeout", "cancelled"}, Lost(call, reply), call # None
      PROVE  \A id \in Nat : Effected(id)' =>
                Effected(id) \/ (id = NextId /\ IsWriteCall /\ call.phase = "sent")
  <2>1. CASE call.op = "is_valid"
    BY <1>2, <2>1 DEF Lost, FreshSession, Effected
  <2>2. CASE call.op # "is_valid"
    <3>1. UNCHANGED <<session, durable>> \/ (call.phase = "sent" /\ Applies(call))
      BY <1>2, <2>2 DEF Lost, Dropped
    <3> QED  BY <1>2, <3>1, AppliesEffects DEF Effected
  <2> QED  BY <2>1, <2>2
<1>3. CASE Return
  BY <1>3 DEF Return, Settled, FreshSession, Effected
<1>4. CASE UNCHANGED <<session, durable>>
  BY <1>4 DEF Effected
<1> QED  BY <1>1, <1>2, <1>3, <1>4 DEF Next, vars, server, Query, QueryRefused, Command,
         DropHandle, Answering, Retry, Wake, Tick, Timeout, Cancel

(* What a step leaves of the record of the finished calls.                   *)
LEMMA DoneGrows ==
    ASSUME Typed, InFlight, [Next]_vars
    PROVE  /\ Len(done) \in Nat /\ Len(done') \in {Len(done), NextId}
           /\ \A id \in 1..Len(done) : id \in 1..Len(done') /\ done'[id] = done[id]
<1>0. Len(done) \in Nat
  BY LenProperties DEF Typed
<1>1. ASSUME NEW op \in Queries, NEW s \in Statements, QueryRefused(op, s)
      PROVE  done' = done \/ (\E e : done' = Append(done, e))
  BY <1>1 DEF QueryRefused, Finish
<1>2. ASSUME NEW reply, (Return /\ reply = call.reply) \/ Lost(call, reply), call # None
      PROVE  done' = done \/ (\E e : done' = Append(done, e))
  BY <1>2 DEF Return, Lost, Finish
<1>3. CASE done' = done
  BY <1>0, <1>3
<1>4. ASSUME NEW e, done' = Append(done, e)
      PROVE  /\ Len(done') = NextId
             /\ \A id \in 1..Len(done) : id \in 1..Len(done') /\ done'[id] = done[id]
  <2>1. done \in Seq(Ended \cup {e})
    <3>1. done \in [1..Len(done) -> Ended]
      BY LenProperties DEF Typed
    <3>2. done \in [1..Len(done) -> Ended \cup {e}]
      BY <3>1
    <3> QED  BY <1>0, <3>2, SeqDef
  <2> QED  BY <1>0, <1>4, <2>1, AppendProperties DEF NextId
<1>5. done' = done \/ (\E e : done' = Append(done, e))
  BY <1>1, <1>2, AnsweringCall, GoingOnCall DEF Next, vars, Query, Command,
     DropHandle, Answering, GoingOn, Return, Timeout, Cancel
<1> QED  BY <1>0, <1>3, <1>4, <1>5

(* Effects is kept by every step.                                            *)
LEMMA EffectsStep ==
    ASSUME Typed, InFlight, Effects, [Next]_vars
    PROVE  Effects'
<1>0. /\ Len(done) \in Nat /\ Len(done') \in {Len(done), NextId} /\ NextId \in Nat
      /\ \A id \in 1..Len(done) : id \in 1..Len(done') /\ done'[id] = done[id]
  BY DoneGrows DEF NextId
<1>1. ASSUME NEW op \in Queries, NEW s \in Statements, QueryRefused(op, s)
      PROVE  Effects'
  <2>1. /\ ~MayHaveRun /\ \A id \in Nat : Effected(id)' <=> Effected(id)
    BY <1>1 DEF QueryRefused, MayCall, MayHaveRun, server, Effected
  <2> QED  BY <1>0, <2>1 DEF Effects, NextId
<1>2. CASE Answering
  <2>1. done' = done /\ ~MayHaveRun
    BY <1>2, AnsweringCall DEF MayHaveRun
  <2>2. \A id \in Nat : Effected(id)' => Effected(id) \/ (id = NextId /\ MayHaveRun')
    <3>1. ASSUME IsWriteCall, Outcome(call'.reply) # "refused"
          PROVE  MayHaveRun'
      BY <1>2, <3>1, AnsweredCall DEF MayHaveRun, IsWriteCall
    <3>2. \A reply : ~Lost(call, reply)
      BY <1>2, AnsweredCall DEF Lost, Finish
    <3> QED  BY <3>1, <3>2, OnlyTheCallWrites
  <2> QED  BY <1>0, <2>1, <2>2 DEF Effects, NextId
<1>3. CASE GoingOn
  <2>1. /\ done' = done /\ call # None /\ call' \in Calls /\ call' # None
        /\ \A id \in Nat : Effected(id)' <=> Effected(id)
    BY <1>3, GoingOnCall, NoneAssumption DEF server, Effected
  <2>2. MayHaveRun => MayHaveRun'
    <3>1. IsWriteCall => ~MayRetry(call)
      BY <2>1, WritesSentOnce DEF IsWriteCall, Changes
    <3> QED  BY <1>3, <2>1, <3>1, GoingOnCall DEF MayHaveRun, IsWriteCall
  <2> QED  BY <1>0, <2>1, <2>2 DEF Effects, NextId
<1>4. CASE Return
  <2>1. /\ Recorded(call.reply) /\ call # None /\ call.phase = "answered"
        /\ \A id \in Nat : Effected(id)' => Effected(id)
    <3>1. session' \in {session, FreshSession} /\ durable' = durable
      BY <1>4 DEF Return, Settled
    <3>2. \A id \in Nat : Effected(id)' => Effected(id)
      BY <3>1 DEF FreshSession, Effected
    <3> QED  BY <1>4, <3>2, EndingRecords DEF Return
  <2>2. MayHaveRun => Len(done') = NextId /\ done'[NextId].outcome # "refused"
    BY <2>1 DEF MayHaveRun, IsWriteCall, Changes, Recorded, Entry
  <2> QED  BY <1>0, <2>1, <2>2 DEF Effects, NextId
<1>5. ASSUME NEW reply \in {"timeout", "cancelled"}, Lost(call, reply), call # None
      PROVE  Effects'
  <2>1. Recorded(reply) /\ Outcome(reply) = "unknown"
    BY <1>5, EndingRecords DEF Outcome
  <2>2. Len(done') = NextId => done'[NextId].outcome # "refused"
    BY <1>0, <2>1 DEF Recorded, Entry, NextId
  <2>3. IsWriteCall => Len(done') = NextId
    BY <2>1 DEF IsWriteCall, Changes, Recorded
  <2>4. \A id \in Nat : Effected(id)' => Effected(id) \/ (id = NextId /\ IsWriteCall)
    BY OnlyTheCallWrites
  <2> QED  BY <1>0, <2>2, <2>3, <2>4 DEF Effects, NextId, MayHaveRun
<1>6. CASE UNCHANGED <<session, durable, done>> /\ (call = None \/ UNCHANGED call)
  <2>1. /\ MayHaveRun => MayHaveRun'
        /\ \A id \in Nat : Effected(id)' <=> Effected(id)
    BY <1>6 DEF MayHaveRun, IsWriteCall, Effected
  <2> QED  BY <1>0, <1>6, <2>1 DEF Effects, NextId
<1>7. Effects'
  <2>1. ASSUME NEW op \in Queries, NEW s \in Statements, Query(op, s)
        PROVE  Effects'
    BY <1>6, <2>1 DEF Query, MayCall, server
  <2>2. ASSUME NEW op \in Commands \cup Checks, Command(op)
        PROVE  Effects'
    BY <1>6, <2>2 DEF Command, MayCall, server
  <2>3. CASE DropHandle \/ UNCHANGED vars
    BY <1>6, <2>3 DEF DropHandle, server, vars
  <2> QED  BY <1>1, <1>2, <1>3, <1>4, <1>5, <2>1, <2>2, <2>3
           DEF Next, Answering, GoingOn, Timeout, Cancel
<1> QED  BY <1>7

(* No write is applied twice, and none that was refused.                     *)
LEMMA EffectsSound ==
    ASSUME Typed, Effects
    PROVE  AppliedAtMostOnce
<1>1. session.pending \in SUBSET Tries /\ durable \in SUBSET Tries /\ Len(done) \in Nat
      /\ DOMAIN done = 1..Len(done)
  BY LenProperties DEF Typed, Sessions
<1>2. ASSUME NEW id
      PROVE  Attempts(id) \subseteq {<<id, 0>>}
  BY <1>1 DEF Attempts, Tries
<1>3. ASSUME NEW id
      PROVE  Cardinality(Attempts(id)) <= 1
  <2>1. IsFiniteSet({<<id, 0>>}) /\ Cardinality({<<id, 0>>}) = 1
    BY FS_Singleton
  <2>2. Cardinality(Attempts(id)) <= Cardinality({<<id, 0>>})
    BY <1>2, <2>1, FS_Subset
  <2> QED  BY <2>1, <2>2
<1>4. ASSUME NEW id \in 1..Len(done), done[id].outcome = "refused"
      PROVE  Attempts(id) = {}
  <2>1. <<id, 0>> \notin Attempts(id)
    BY <1>4 DEF Effects, Effected, Attempts
  <2> QED  BY <1>2, <2>1
<1> QED  BY <1>1, <1>3, <1>4 DEF AppliedAtMostOnce, Finished

-----------------------------------------------------------------------------
(* Transactions *)

(* BEGIN may have been executed, and the caller has not seen the answer.     *)
BeginAnswered ==
    /\ call # None /\ call.op = "begin" /\ call.phase = "answered"
    /\ Outcome(call.reply) # "refused"
EndAnswered ==
    /\ call # None /\ call.op \in {"commit", "rollback"} /\ call.phase = "answered"
    /\ call.reply = "ok"

(* While the program lost no transaction, one is open only behind a handle   *)
(* or a BEGIN it is about to learn of.                                       *)
Open ==
    /\ session.count = 0 => session.pending = {}
    /\ trusted =>
        /\ session.count <= 1
        /\ handle = None => session.count = 0 \/ BeginAnswered
        /\ EndAnswered => session.count = 0

(* What executing a statement does to the nesting of the session.            *)
LEMMA AppliesCounts ==
    ASSUME Typed, InFlight, call # None, Applies(call),
           session.count = 0 => session.pending = {}
    PROVE  /\ session'.count = 0 => session'.pending = {}
           /\ call.op = "begin" => session'.count = session.count + 1
           /\ call.op = "commit" => session.count > 0 /\ session'.count = session.count - 1
           /\ call.op = "rollback" => session'.count = 0
           /\ call.op \notin Commands => session'.count = session.count
<1>1. session \in Sessions
  BY DEF Typed
<1>2. CASE call.op = "begin"
  <2>1. session'.count = session.count + 1 /\ session.count \in Nat
    BY <1>1, <1>2 DEF Applies, BeginTran, Sessions
  <2> QED  BY <1>2, <2>1 DEF Commands
<1>3. CASE call.op = "commit"
  <2>1. /\ session.count > 0 /\ session'.count = session.count - 1 /\ session.count \in Nat
        /\ session'.pending = IF session.count = 1 THEN {} ELSE session.pending
    BY <1>1, <1>3 DEF Applies, CommitTran, InTransaction, Sessions
  <2> QED  BY <1>3, <2>1 DEF Commands
<1>4. CASE call.op = "rollback"
  BY <1>1, <1>4 DEF Applies, RollbackTran, Sessions, Commands
<1>5. CASE IsWriteCall
  <2>1. session' = JoinTran(session, Effect(call)) /\ call.op \notin Commands
    BY <1>5 DEF IsWriteCall, Applies, Write, Queries, Commands
  <2>2. session'.count = session.count /\ (session.count = 0 => session' = session)
    BY <1>1, <2>1 DEF JoinTran, InTransaction, Sessions
  <2> QED  BY <2>1, <2>2 DEF Commands
<1>6. CASE call.op \notin Commands /\ ~IsWriteCall
  BY <1>6 DEF Applies, Commands, IsWriteCall
<1> QED  BY <1>2, <1>3, <1>4, <1>5, <1>6 DEF Commands

(* Open is kept: no transaction of a trusted program is open without its     *)
(* handle.                                                                   *)
LEMMA OpenStep ==
    ASSUME Typed, InFlight, Open, [Next]_vars
    PROVE  Open'
<1>0. session \in Sessions /\ session.count \in Nat
  BY DEF Typed, Sessions
<1>1. ASSUME UNCHANGED session, call = None,
             call' = None \/ call'.phase = "sent", ~trusted' \/ UNCHANGED <<handle, trusted>>
      PROVE  Open'
  BY <1>1 DEF Open, BeginAnswered, EndAnswered
<1>2. CASE Answering
  <2>1. PICK reply \in Errors \cup {"ok", "misfit"} :
            /\ call # None /\ call.phase = "sent" /\ call \in Calls /\ call' # None
            /\ reply = "misfit" => call.op \in Reads
            /\ call'.op = call.op /\ call'.phase = "answered" /\ call'.reply = reply
            /\ UNCHANGED <<handle, trusted>>
    BY <1>2, AnsweredCall, AnsweringCall
  <2>2. ASSUME Applies(call), Outcome(reply) # "refused"
        PROVE  Open'
    <3>1. CASE call.op = "begin"
      BY <1>0, <2>1, <2>2, <3>1, AppliesCounts
         DEF Open, InFlight, BeginAnswered, EndAnswered
    <3>2. CASE call.op \in {"commit", "rollback"}
      BY <1>0, <2>1, <2>2, <3>2, AppliesCounts
         DEF Open, InFlight, BeginAnswered, EndAnswered, Commands
    <3>3. CASE call.op \notin Commands
      BY <1>0, <2>1, <2>2, <3>3, AppliesCounts
         DEF Open, BeginAnswered, EndAnswered, Commands
    <3> QED  BY <3>1, <3>2, <3>3 DEF Commands
  <2>3. ASSUME session' = RollbackTran(session)
        PROVE  Open'
    <3>1. session'.count = 0 /\ session'.pending = {}
      BY <1>0, <2>3 DEF RollbackTran, Sessions
    <3> QED  BY <3>1 DEF Open
  <2>4. ASSUME UNCHANGED session, reply # "ok"
        PROVE  Open'
    BY <2>1, <2>4 DEF Open, BeginAnswered, EndAnswered
  <2>5. ASSUME NEW r, Answer(r)
        PROVE  reply = r
    BY <2>1, <2>5 DEF Answer, Calls
  <2>6. CASE ServerExecutes
    BY <2>2, <2>5, <2>6 DEF ServerExecutes, Outcome
  <2>7. CASE ServerFails
    <3>1. reply # "ok"
      BY <2>5, <2>7, RepliesAssumption DEF ServerFails, Errors
    <3> QED  BY <2>3, <2>4, <2>7, <3>1 DEF ServerFails
  <2>8. CASE ServerRefuses \/ LinkIsDown
    BY <2>4, <2>5, <2>8 DEF ServerRefuses, LinkIsDown, server
  <2>10. CASE Interrupted
    BY <2>2, <2>4, <2>5, <2>10 DEF Interrupted, Outcome
  <2>9. CASE LinkBreaks
    BY <2>3, <2>9 DEF LinkBreaks
  <2> QED  BY <1>2, <2>6, <2>7, <2>8, <2>9, <2>10 DEF Answering
<1>3. CASE GoingOn
  <2>1. UNCHANGED <<session, handle, trusted>>
    BY <1>3, GoingOnCall DEF server
  <2>2. call.op \in Commands => ~MayRetry(call) /\ call.phase # "asleep"
    BY <1>3, GoingOnCall, WritesSentOnce DEF Changes
  <2>3. call' # None
    BY <1>3, GoingOnCall, NoneAssumption
  <2>4. BeginAnswered => BeginAnswered'
    BY <1>3, <2>2, <2>3, GoingOnCall DEF BeginAnswered, Commands
  <2>5. EndAnswered' => EndAnswered
    BY <1>3, GoingOnCall DEF EndAnswered
  <2> QED  BY <2>1, <2>4, <2>5 DEF Open
<1>4. CASE Return
  <2>1. call # None /\ call.phase = "answered" /\ Settled(call, call.reply)
        /\ call' = None /\ call.reply \in Errors \cup {"ok", "misfit"}
        /\ (call.reply = "misfit" => call.op \in Reads)
    BY <1>4, EndingRecords DEF Return, InFlight
  <2>2. CASE call.op = "is_valid" /\ call.reply # "ok"
    BY <2>1, <2>2 DEF Settled, FreshSession, Open, EndAnswered
  <2>3. CASE ~(call.op = "is_valid" /\ call.reply # "ok")
    <3>1. session' = session /\ (trusted' => trusted)
          /\ (trusted' /\ call.op = "begin" => Outcome(call.reply) # "unknown")
          /\ (trusted' /\ call.op \in {"commit", "rollback"} => call.reply = "ok")
      BY <2>1, <2>3 DEF Settled
    <3>2. CASE call.op = "begin"
      <4>1. handle' = None => call.reply # "ok"
        <5>1. NextId # None
          <6>1. Len(done) \in Nat
            BY LenProperties DEF Typed
          <6> QED  BY <6>1, NoneAssumption DEF NextId
        <5> QED  BY <2>1, <3>2, <5>1 DEF Settled
      <4>2. trusted' /\ handle' = None => Outcome(call.reply) = "refused"
        <5>1. call.reply # "misfit"
          BY <2>1, <3>2 DEF Reads, Checks
        <5> QED  BY <2>1, <3>1, <3>2, <4>1, <5>1 DEF Outcome, Errors
      <4>3. handle = None
        BY <2>1, <3>2 DEF InFlight
      <4> QED  BY <2>1, <3>1, <4>2, <4>3 DEF Open, BeginAnswered, EndAnswered
    <3>3. CASE call.op \in {"commit", "rollback"}
      BY <2>1, <3>1, <3>3 DEF Open, BeginAnswered, EndAnswered
    <3>4. CASE call.op \notin Commands
      <4>1. handle' = handle
        BY <2>1, <3>4 DEF Settled, Commands
      <4> QED  BY <2>1, <3>1, <3>4, <4>1 DEF Open, BeginAnswered, EndAnswered, Commands
    <3> QED  BY <3>2, <3>3, <3>4 DEF Commands
  <2> QED  BY <2>2, <2>3
<1>5. ASSUME NEW reply \in {"timeout", "cancelled"}, Lost(call, reply), call # None
      PROVE  Open'
  <2>0. call' = None
    BY <1>5, EndingRecords
  <2>1. CASE call.op = "is_valid"
    BY <1>5, <2>0, <2>1 DEF Lost, FreshSession, Open, EndAnswered
  <2>2. CASE call.op # "is_valid"
    <3>1. (UNCHANGED session \/ Applies(call)) /\ trusted' = (trusted /\ call.op \notin Commands)
          /\ (call.op \notin Commands => handle' = handle)
      BY <1>5, <2>2 DEF Lost, Dropped, Commands
    <3>2. CASE call.op \in Commands
      <4>1. ~trusted' /\ (session'.count = 0 => session'.pending = {})
        BY <1>5, <3>1, <3>2, AppliesCounts DEF Open
      <4> QED  BY <4>1 DEF Open
    <3>3. CASE call.op \notin Commands
      <4>1. /\ session'.count = session.count
            /\ session'.count = 0 => session'.pending = {}
        BY <1>5, <3>1, <3>3, AppliesCounts DEF Open
      <4> QED  BY <2>0, <3>1, <3>3, <4>1 DEF Open, BeginAnswered, EndAnswered, Commands
    <3> QED  BY <3>2, <3>3
  <2> QED  BY <2>1, <2>2
<1>6. CASE UNCHANGED vars
  BY <1>6 DEF Open, BeginAnswered, EndAnswered, vars
<1>7. ASSUME NEW op \in Queries, NEW s \in Statements, Query(op, s) \/ QueryRefused(op, s)
      PROVE  Open'
  <2>1. CASE Query(op, s)
    BY <1>1, <2>1 DEF Query, Fresh, MayCall, server
  <2>2. CASE QueryRefused(op, s)
    BY <1>1, <2>2 DEF QueryRefused, Finish, MayCall, server
  <2> QED  BY <1>7, <2>1, <2>2
<1>8. ASSUME NEW op \in Commands \cup Checks, Command(op)
      PROVE  Open'
  BY <1>1, <1>8 DEF Command, Fresh, MayCall, server
<1>9. CASE DropHandle
  BY <1>1, <1>9 DEF DropHandle, server
<1> QED  BY <1>2, <1>3, <1>4, <1>5, <1>6, <1>7, <1>8, <1>9
         DEF Next, Answering, GoingOn, Timeout, Cancel

-----------------------------------------------------------------------------
(* What an Ok promises *)

Committed(id) == <<id, 0>> \in durable
(* A finished write of the handle h (None: of no handle) that was answered.  *)
WroteWith(w, h) ==
    /\ w \in 1..Len(done)
    /\ done[w].op = "write" /\ done[w].handle = h /\ done[w].outcome = "applied"
Ends(id) == done[id].op \in {"commit", "rollback"}

(* A handle carries the number of the call that made it, and the call that   *)
(* ends its transaction consumes it.                                         *)
Handles ==
    \A id \in 1..Len(done) :
        /\ done[id].handle \in 1..(id - 1) \cup {None}
        /\ Ends(id) => done[id].handle # None /\ done[id].handle # handle

(* The writes of the open transaction are pending, all of them.              *)
Held ==
    trusted /\ handle # None /\ session.count > 0 =>
        \A w \in 1..Len(done) : WroteWith(w, handle) =>
            <<w, 0>> \in session.pending /\ ~Committed(w)

(* The same promises of the answer that is on its way.                       *)
Promised ==
    call # None /\ call.phase = "answered" /\ call.reply \in {"ok", "misfit"} /\ trusted =>
        /\ IsWriteCall /\ handle = None => Committed(NextId)
        /\ IsWriteCall /\ handle # None /\ session.count > 0 =>
                <<NextId, 0>> \in session.pending /\ ~Committed(NextId)
        /\ call.op = "commit" => \A w \in 1..Len(done) : WroteWith(w, handle) => Committed(w)
        /\ call.op = "rollback" => \A w \in 1..Len(done) : WroteWith(w, handle) => ~Effected(w)

Kept ==
    \A id \in 1..Len(done) : done[id].outcome = "applied" /\ done[id].trusted =>
        /\ done[id].op = "write" /\ done[id].handle = None => Committed(id)
        /\ done[id].op = "commit" =>
               \A w \in 1..Len(done) : WroteWith(w, done[id].handle) => Committed(w)
        /\ done[id].op = "rollback" =>
               \A w \in 1..Len(done) : WroteWith(w, done[id].handle) => ~Effected(w)

(* What is durable stays.                                                    *)
LEMMA DurableGrows ==
    ASSUME [Next]_vars
    PROVE  durable \subseteq durable'
<1>1. ASSUME Applies(call)
      PROVE  durable \subseteq durable'
  BY <1>1 DEF Applies, Write
<1>2. CASE Answering
  BY <1>1, <1>2 DEF Answering, ServerExecutes, ServerFails, ServerRefuses, Interrupted,
     LinkBreaks, LinkIsDown, server
<1>3. ASSUME NEW reply, Lost(call, reply)
      PROVE  durable \subseteq durable'
  BY <1>1, <1>3 DEF Lost, Dropped
<1>4. CASE Return
  BY <1>4 DEF Return, Settled
<1>5. CASE durable' = durable
  BY <1>5
<1> QED  BY <1>2, <1>3, <1>4, <1>5 DEF Next, vars, server, Query, QueryRefused, Command,
         DropHandle, Answering, Retry, Wake, Tick, Timeout, Cancel

(* What is known of the call that a step adds to the record.                 *)
LEMMA NewlyDone ==
    ASSUME Typed, InFlight, [Next]_vars, Len(done') # Len(done)
    PROVE  /\ Len(done') = NextId /\ call' = None
           /\ done'[NextId].handle = handle
           /\ done'[NextId].op \in {"commit", "rollback"} => handle # None /\ handle' = None
           /\ done'[NextId].outcome = "applied" =>
                /\ Return /\ call # None /\ call.phase = "answered"
                /\ call.reply \in {"ok", "misfit"} /\ done'[NextId].trusted = trusted
                /\ done'[NextId].op = IF call.op \in Queries THEN "write" ELSE call.op
                /\ done'[NextId].op = "write" => IsWriteCall
<1>0. Len(done) \in Nat /\ Len(done') = NextId
  BY DoneGrows
<1>1. ASSUME NEW op \in Queries, NEW s \in Statements, QueryRefused(op, s)
      PROVE  /\ call' = None /\ done'[NextId].handle = handle
             /\ done'[NextId].op = "write" /\ done'[NextId].outcome = "refused"
  BY <1>0, <1>1, RefusedRecords
<1>2. ASSUME NEW reply, (Return /\ reply = call.reply) \/ Lost(call, reply), call # None
      PROVE  /\ call' = None /\ Changes(call.op, call.stmt)
             /\ done'[NextId].handle = handle /\ done'[NextId].trusted = trusted
             /\ done'[NextId].op = IF call.op \in Queries THEN "write" ELSE call.op
             /\ done'[NextId].outcome = Outcome(reply)
             /\ call.op \in {"commit", "rollback"} => handle # None /\ handle' = None
  <2>1. Recorded(reply) /\ call' = None
    BY <1>2, EndingRecords
  <2>2. Changes(call.op, call.stmt) /\ done'[NextId] = Entry(call, reply)
    BY <2>1 DEF Recorded
  <2>3. call.op \in {"commit", "rollback"} => handle # None /\ handle' = None
    <3>1. CASE Return
      BY <1>2, <3>1 DEF InFlight, Return, Settled
    <3>2. CASE Lost(call, reply)
      BY <1>2, <3>2 DEF InFlight, Lost
    <3> QED  BY <1>2, <3>1, <3>2
  <2> QED  BY <1>2, <2>1, <2>2, <2>3 DEF Entry, InFlight
<1>3. ASSUME Return
      PROVE  /\ call' = None /\ done'[NextId].handle = handle
             /\ done'[NextId].op \in {"commit", "rollback"} => handle # None /\ handle' = None
             /\ call # None /\ call.phase = "answered" /\ done'[NextId].trusted = trusted
             /\ done'[NextId].op = IF call.op \in Queries THEN "write" ELSE call.op
             /\ done'[NextId].op = "write" => IsWriteCall
             /\ done'[NextId].outcome = "applied" => call.reply \in {"ok", "misfit"}
  <2>1. call # None /\ call.phase = "answered"
    BY <1>3 DEF Return
  <2>2. /\ call' = None /\ Changes(call.op, call.stmt)
        /\ done'[NextId].handle = handle /\ done'[NextId].trusted = trusted
        /\ done'[NextId].op = IF call.op \in Queries THEN "write" ELSE call.op
        /\ done'[NextId].outcome = Outcome(call.reply)
        /\ call.op \in {"commit", "rollback"} => handle # None /\ handle' = None
    BY <1>2, <1>3, <2>1
  <2>3. done'[NextId].op \in {"commit", "rollback"} => call.op \in {"commit", "rollback"}
    BY <2>2
  <2>4. done'[NextId].op = "write" => IsWriteCall
    BY <2>2 DEF IsWriteCall, Changes, Commands, Queries
  <2>5. Outcome(call.reply) = "applied" => call.reply \in {"ok", "misfit"}
    BY DEF Outcome
  <2> QED  BY <2>1, <2>2, <2>3, <2>4, <2>5
<1>4. ASSUME NEW reply \in {"timeout", "cancelled"}, Lost(call, reply), call # None
      PROVE  /\ call' = None /\ done'[NextId].handle = handle
             /\ done'[NextId].op \in {"commit", "rollback"} => handle # None /\ handle' = None
             /\ done'[NextId].outcome = "unknown"
  <2>1. /\ call' = None /\ Changes(call.op, call.stmt)
        /\ done'[NextId].handle = handle
        /\ done'[NextId].op = IF call.op \in Queries THEN "write" ELSE call.op
        /\ done'[NextId].outcome = Outcome(reply)
        /\ call.op \in {"commit", "rollback"} => handle # None /\ handle' = None
    BY <1>2, <1>4
  <2>2. Outcome(reply) = "unknown"
    BY <1>4 DEF Outcome
  <2> QED  BY <2>1, <2>2
<1>5. done' # done
  BY <1>0
<1>6. CASE Answering \/ GoingOn
  BY <1>5, <1>6, AnsweringCall, GoingOnCall
<1> QED  BY <1>0, <1>1, <1>3, <1>4, <1>5, <1>6 DEF Next, vars, Query, Command, DropHandle,
         Answering, GoingOn, Timeout, Cancel

(* A handle lasts until it is None again; a new one has the number of its    *)
(* BEGIN.  Trust comes back only without a handle.                           *)
LEMMA HandleMoves ==
    ASSUME Typed, InFlight, [Next]_vars
    PROVE  /\ handle' \in {handle, None}
              \/ (handle' = NextId /\ call # None /\ call.op = "begin" /\ Return)
           /\ trusted' => trusted \/ handle' = None
<1>1. CASE Answering \/ GoingOn
  <2>1. UNCHANGED <<handle, trusted>>
    BY <1>1, AnsweringCall, GoingOnCall
  <2> QED  BY <2>1
<1>2. CASE Return
  <2>1. call # None /\ Settled(call, call.reply) /\ (call.op = "is_valid" => handle = None)
    BY <1>2 DEF Return, InFlight, Checks
  <2> QED  BY <1>2, <2>1 DEF Settled
<1>3. ASSUME NEW reply, Lost(call, reply), call # None
      PROVE  handle' \in {handle, None} /\ (trusted' => trusted \/ handle' = None)
  <2>1. call.op = "is_valid" => handle = None
    BY <1>3 DEF InFlight, Checks
  <2> QED  BY <1>3, <2>1 DEF Lost
<1>4. CASE DropHandle
  BY <1>4 DEF DropHandle
<1>5. CASE UNCHANGED <<handle, trusted>>
  BY <1>5
<1> QED  BY <1>1, <1>2, <1>3, <1>4, <1>5 DEF Next, vars, Query, QueryRefused, Command,
         Answering, GoingOn, Timeout, Cancel

(* Handles is kept by every step.                                            *)
LEMMA HandlesStep ==
    ASSUME Typed, InFlight, Handles, [Next]_vars
    PROVE  Handles'
<1>0. /\ Len(done) \in Nat /\ Len(done') \in {Len(done), NextId} /\ NextId = Len(done) + 1
      /\ \A id \in 1..Len(done) : id \in 1..Len(done') /\ done'[id] = done[id]
      /\ handle \in 1..Len(done) \cup {None}
  BY DoneGrows DEF NextId, Typed
<1>1. handle' \in {handle, None, NextId}
  BY HandleMoves
<1>2. ASSUME NEW id \in 1..Len(done)
      PROVE  /\ done'[id].handle \in 1..(id - 1) \cup {None}
             /\ Ends(id)' => done'[id].handle # None /\ done'[id].handle # handle'
  <2>1. done[id].handle \in 1..(id - 1) \cup {None}
        /\ (Ends(id) => done[id].handle # None /\ done[id].handle # handle)
    BY DEF Handles
  <2> QED  BY <1>0, <1>1, <1>2, <2>1, NoneAssumption DEF Ends
<1>3. ASSUME Len(done') = NextId
      PROVE  /\ done'[NextId].handle \in 1..Len(done) \cup {None}
             /\ done'[NextId].op \in {"commit", "rollback"} =>
                    done'[NextId].handle # None /\ done'[NextId].handle # handle'
  BY <1>0, <1>3, NewlyDone
<1> QED  BY <1>0, <1>2, <1>3 DEF Handles, Ends

(* Promised is kept: an answer is given in the step that makes it true.      *)
LEMMA PromisedStep ==
    ASSUME Typed, InFlight, Open, Effects, Handles, Held, Promised, [Next]_vars
    PROVE  Promised'
<1>0. Len(done) \in Nat /\ session \in Sessions /\ session.count \in Nat
  BY LenProperties DEF Typed, Sessions
<1>1. CASE call' = None \/ call'.phase # "answered"
  BY <1>1 DEF Promised
<1>2. CASE Answering
  <2>1. PICK reply \in Errors \cup {"ok", "misfit"} :
            /\ call # None /\ call.phase = "sent" /\ call' # None
            /\ reply = "misfit" => call.op \in Reads
            /\ call'.op = call.op /\ call'.stmt = call.stmt /\ call'.reply = reply
            /\ UNCHANGED <<handle, trusted, done>>
    BY <1>2, AnsweredCall, AnsweringCall
  <2>2. ~MayHaveRun /\ ~Effected(NextId)
    BY <1>0, <2>1 DEF MayHaveRun, Effects, NextId
  <2>3. ASSUME ServerExecutes, trusted
        PROVE  Promised'
    <3>0. Applies(call)
      BY <2>3 DEF ServerExecutes
    <3>1. ASSUME IsWriteCall
          PROVE  /\ handle = None => <<NextId, 0>> \in durable'
                 /\ handle # None /\ session'.count > 0 =>
                        <<NextId, 0>> \in session'.pending /\ ~(<<NextId, 0>> \in durable')
      <4>1. Effect(call) = <<NextId, 0>>
        BY <2>1, <3>1, WritesSentOnce DEF IsWriteCall, Changes, Effect
      <4>2. /\ session' = JoinTran(session, <<NextId, 0>>)
            /\ durable' = durable \cup AutoCommitted(session, <<NextId, 0>>)
        BY <3>0, <3>1, <4>1 DEF IsWriteCall, Applies, Write, Queries
      <4>3. handle = None => session.count = 0
        BY <2>1, <2>3, <3>1 DEF Open, BeginAnswered
      <4>4. CASE session.count = 0
        <5>1. session' = session /\ <<NextId, 0>> \in durable'
          BY <4>2, <4>4 DEF JoinTran, AutoCommitted, InTransaction
        <5> QED  BY <4>4, <5>1
      <4>5. CASE session.count > 0
        <5>1. <<NextId, 0>> \in session'.pending /\ durable' = durable
          BY <1>0, <4>2, <4>5 DEF JoinTran, AutoCommitted, InTransaction, Sessions
        <5> QED  BY <2>2, <4>3, <4>5, <5>1 DEF Effected
      <4> QED  BY <1>0, <4>4, <4>5
    <3>2. ASSUME call.op = "commit", NEW w \in 1..Len(done), WroteWith(w, handle)
          PROVE  <<w, 0>> \in durable'
      <4>1. handle # None /\ session.count > 0 /\ session.count <= 1
        BY <1>0, <2>1, <2>3, <3>0, <3>2 DEF Open, InFlight, Applies, InTransaction
      <4>2. <<w, 0>> \in session.pending
        BY <2>3, <3>2, <4>1 DEF Held
      <4>3. durable' = durable \cup session.pending
        BY <1>0, <3>0, <3>2, <4>1 DEF Applies, MadeDurable
      <4> QED  BY <4>2, <4>3
    <3>3. ASSUME call.op = "rollback", NEW w \in 1..Len(done), WroteWith(w, handle)
          PROVE  ~(<<w, 0>> \in durable' \cup session'.pending)
      <4>1. /\ handle # None /\ session.count > 0
            /\ durable' = durable /\ session' = RollbackTran(session)
        BY <2>1, <3>0, <3>3 DEF InFlight, Applies, InTransaction
      <4>2. ~Committed(w)
        BY <2>3, <3>3, <4>1 DEF Held
      <4>3. session'.pending = {}
        BY <1>0, <4>1 DEF RollbackTran, Sessions
      <4> QED  BY <4>1, <4>2, <4>3 DEF Committed
    <3> QED  BY <2>1, <3>1, <3>2, <3>3
             DEF Promised, IsWriteCall, Committed, Effected, WroteWith, NextId
  <2>4. reply \in {"ok", "misfit"} => ServerExecutes
    <3>1. ASSUME NEW r, Answer(r)
          PROVE  reply = r
      BY <1>2, <2>1, <3>1, AnsweredCall DEF Answer, Calls, Typed
    <3> QED  BY <1>2, <3>1, RepliesAssumption DEF Answering, ServerFails, ServerRefuses,
             Interrupted, LinkBreaks, LinkIsDown, Errors
  <2> QED  BY <2>1, <2>3, <2>4 DEF Promised
<1>3. CASE GoingOn
  <2>1. UNCHANGED <<session, durable, handle, trusted, done>>
    BY <1>3, GoingOnCall DEF server
  <2>2. call # None /\ call'.op = call.op /\ call'.stmt = call.stmt
        /\ (call'.phase = "answered" => call.phase = "answered" /\ call'.reply = call.reply)
    BY <1>3, GoingOnCall
  <2> QED  BY <2>1, <2>2 DEF Promised, IsWriteCall, Committed, Effected, WroteWith, NextId
<1>4. CASE UNCHANGED vars
  BY <1>4 DEF vars, Promised, IsWriteCall, Committed, Effected, WroteWith, NextId
<1>5. ASSUME NEW op, NEW s, Query(op, s) \/ Command(op)
      PROVE  Promised'
  <2>1. call' = None \/ call'.phase = "sent"
    BY <1>5 DEF Query, Command, Fresh
  <2> QED  BY <1>1, <2>1
<1>6. ASSUME NEW op, NEW s, QueryRefused(op, s)
      PROVE  call' = None
  BY <1>6 DEF QueryRefused, Finish
<1>7. CASE DropHandle
  BY <1>1, <1>7 DEF DropHandle
<1> QED  BY <1>1, <1>2, <1>3, <1>4, <1>5, <1>6, <1>7, EndingRecords
         DEF Next, Answering, GoingOn, Return, Timeout, Cancel

(* What a finished call leaves of the record of the answered writes.         *)
LEMMA WroteBefore ==
    ASSUME Typed, InFlight, [Next]_vars, NEW w \in 1..Len(done'),
           done'[w].op = "write", done'[w].outcome = "applied"
    PROVE  \/ w \in 1..Len(done) /\ done'[w] = done[w] /\ WroteWith(w, done'[w].handle)
           \/ /\ w = NextId /\ Len(done') = NextId
              /\ done'[w].handle = handle /\ done'[w].trusted = trusted
              /\ Return /\ call # None /\ call.phase = "answered" /\ IsWriteCall
              /\ call.reply \in {"ok", "misfit"}
<1>1. /\ Len(done) \in Nat /\ Len(done') \in {Len(done), NextId} /\ NextId = Len(done) + 1
      /\ \A id \in 1..Len(done) : done'[id] = done[id]
  BY DoneGrows DEF NextId
<1>2. CASE w \in 1..Len(done)
  BY <1>1, <1>2 DEF WroteWith
<1>3. CASE w \notin 1..Len(done)
  <2>1. w = NextId /\ Len(done') = NextId /\ Len(done') # Len(done)
    BY <1>1, <1>3
  <2> QED  BY <2>1, NewlyDone
<1> QED  BY <1>2, <1>3

(* While a transaction the program trusts goes on, what is pending stays so. *)
LEMMA TransactionGoesOn ==
    ASSUME Typed, InFlight, Open, [Next]_vars,
           trusted, handle # None, session'.count > 0
    PROVE  /\ session.count > 0 /\ session.pending \subseteq session'.pending
           /\ durable' = durable
<1>0. session \in Sessions /\ session.count \in Nat /\ session.count <= 1
  BY DEF Typed, Sessions, Open
<1>1. CASE UNCHANGED <<session, durable>>
  BY <1>0, <1>1
<1>2. ASSUME Applies(call), call # None
      PROVE  /\ session.count > 0 /\ session.pending \subseteq session'.pending
             /\ durable' = durable
  <2>1. call.op # "begin"
    BY <1>2 DEF InFlight
  <2>2. CASE call.op \in {"commit", "rollback"}
    BY <1>0, <1>2, <2>2, AppliesCounts DEF Open
  <2>3. CASE IsWriteCall
    <3>1. /\ session' = JoinTran(session, Effect(call))
          /\ durable' = durable \cup AutoCommitted(session, Effect(call))
      BY <1>2, <2>3 DEF IsWriteCall, Applies, Write, Queries
    <3>2. session.count > 0
      BY <1>0, <3>1 DEF JoinTran, InTransaction, Sessions
    <3> QED  BY <1>0, <3>1, <3>2 DEF JoinTran, AutoCommitted, InTransaction, Sessions
  <2>4. CASE call.op \notin Commands /\ ~IsWriteCall
    BY <1>1, <1>2, <2>4 DEF Applies, IsWriteCall, Commands
  <2> QED  BY <2>1, <2>2, <2>3, <2>4 DEF Commands
<1>3. session' # RollbackTran(session) /\ session' # FreshSession
  <2>1. RollbackTran(session).count = 0
    BY <1>0 DEF RollbackTran, Sessions
  <2> QED  BY <2>1 DEF FreshSession
<1>4. CASE Answering
  <2>1. call # None
    BY <1>4, AnsweringCall
  <2> QED  BY <1>1, <1>2, <1>3, <1>4, <2>1 DEF Answering, ServerExecutes, ServerFails,
           ServerRefuses, Interrupted, LinkBreaks, LinkIsDown, server
<1>5. ASSUME NEW reply, Lost(call, reply), call # None
      PROVE  UNCHANGED <<session, durable>> \/ Applies(call)
  BY <1>3, <1>5 DEF Lost, Dropped
<1>6. CASE Return
  BY <1>1, <1>3, <1>6 DEF Return, Settled
<1>7. CASE GoingOn
  BY <1>1, <1>7, GoingOnCall DEF server
<1> QED  BY <1>1, <1>2, <1>4, <1>5, <1>6, <1>7 DEF Next, vars, server, Query, QueryRefused,
         Command, DropHandle, Answering, GoingOn, Timeout, Cancel

(* Held is kept: nothing but its own end takes a write out of a transaction. *)
LEMMA HeldStep ==
    ASSUME Typed, InFlight, Open, Effects, Handles, Held, Promised, [Next]_vars
    PROVE  Held'
<1>0. Len(done) \in Nat /\ session \in Sessions /\ session.count \in Nat
      /\ handle \in 1..Len(done) \cup {None}
  BY LenProperties DEF Typed, Sessions
<1> SUFFICES ASSUME trusted', handle' # None, session'.count > 0,
                    NEW w \in 1..Len(done'), WroteWith(w, handle)'
             PROVE  <<w, 0>> \in session'.pending /\ <<w, 0>> \notin durable'
  BY DEF Held, Committed
<1>1. done'[w].op = "write" /\ done'[w].outcome = "applied" /\ done'[w].handle = handle'
  BY DEF WroteWith
<1>2. trusted
  BY HandleMoves
<1>3. handle' = handle
  <2>1. ASSUME handle' = NextId
        PROVE  FALSE
    <3>1. CASE w \in 1..Len(done) /\ done'[w] = done[w]
      BY <1>0, <1>1, <2>1, <3>1, NoneAssumption DEF Handles, NextId
    <3>2. CASE done'[w].handle = handle
      BY <1>0, <1>1, <2>1, <3>2, NoneAssumption DEF NextId
    <3> QED  BY <1>1, <3>1, <3>2, WroteBefore
  <2> QED  BY <2>1, HandleMoves
<1>4. CASE w \in 1..Len(done) /\ WroteWith(w, handle)
  <2>1. /\ session.count > 0 /\ session.pending \subseteq session'.pending
        /\ durable' = durable
    BY <1>2, <1>3, TransactionGoesOn
  <2> QED  BY <1>2, <1>3, <1>4, <2>1 DEF Held, Committed
<1>5. CASE w = NextId /\ Return /\ call # None /\ call.phase = "answered" /\ IsWriteCall
           /\ call.reply \in {"ok", "misfit"}
  <2>1. /\ session.count > 0 /\ session.pending \subseteq session'.pending
        /\ durable' = durable
    BY <1>2, <1>3, TransactionGoesOn
  <2> QED  BY <1>2, <1>3, <1>5, <2>1 DEF Promised, Committed
<1> QED  BY <1>1, <1>3, <1>4, <1>5, WroteBefore

(* Kept is kept: what an answer promised stays true.                         *)
LEMMA KeptStep ==
    ASSUME Typed, InFlight, Effects, Handles, Promised, Kept, [Next]_vars
    PROVE  Kept'
<1>0. /\ Len(done) \in Nat /\ Len(done') \in {Len(done), NextId} /\ NextId = Len(done) + 1
      /\ \A id \in 1..Len(done) : id \in 1..Len(done') /\ done'[id] = done[id]
      /\ handle \in 1..Len(done) \cup {None}
  BY DoneGrows DEF NextId, Typed
<1>1. ASSUME NEW id \in 1..Len(done'), done'[id].outcome = "applied", done'[id].trusted,
             done'[id].op = "write", done'[id].handle = None
      PROVE  <<id, 0>> \in durable'
  <2>1. CASE id \in 1..Len(done)
    BY <1>0, <1>1, <2>1, DurableGrows DEF Kept, Committed
  <2>2. CASE id \notin 1..Len(done)
    <3>1. /\ id = NextId /\ handle = None /\ trusted /\ IsWriteCall /\ call # None
          /\ call.phase = "answered" /\ call.reply \in {"ok", "misfit"}
      BY <1>1, <2>2, WroteBefore
    <3> QED  BY <3>1, DurableGrows DEF Promised, Committed
  <2> QED  BY <2>1, <2>2
<1>2. ASSUME NEW id \in 1..Len(done'), done'[id].outcome = "applied", done'[id].trusted,
             done'[id].op \in {"commit", "rollback"},
             NEW w \in 1..Len(done'), WroteWith(w, done[id].handle)'
      PROVE  IF done'[id].op = "commit" THEN <<w, 0>> \in durable'
             ELSE <<w, 0>> \notin durable' \cup session'.pending
  <2>1. /\ w \in 1..Len(done') /\ done'[w].op = "write" /\ done'[w].outcome = "applied"
        /\ done'[w].handle = done'[id].handle
    BY <1>2 DEF WroteWith
  <2>2. CASE id \in 1..Len(done) /\ w \in 1..Len(done)
    <3>1. IF done[id].op = "commit" THEN Committed(w) ELSE ~Effected(w)
      BY <1>0, <1>2, <2>1, <2>2 DEF Kept, WroteWith
    <3>2. Effected(w)' => Effected(w)
      BY <1>0, <2>2, OnlyTheCallWrites
    <3> QED  BY <1>0, <2>2, <3>1, <3>2, DurableGrows DEF Committed, Effected
  <2>3. CASE id \in 1..Len(done) /\ w \notin 1..Len(done)
    <3>1. done'[w].handle = handle
      BY <2>1, <2>3, WroteBefore
    <3>2. done[id].handle # handle
      BY <1>0, <1>2, <2>3 DEF Handles, Ends
    <3> QED  BY <1>0, <2>1, <2>3, <3>1, <3>2
  <2>4. CASE id \notin 1..Len(done)
    <3>1. id = NextId /\ Len(done') = NextId /\ Len(done') # Len(done)
      BY <1>0, <2>4
    <3>2. /\ Return /\ call # None /\ call.phase = "answered" /\ trusted
          /\ call.reply \in {"ok", "misfit"} /\ done'[id].handle = handle
          /\ done'[id].op = call.op
      BY <1>2, <3>1, NewlyDone
    <3>3. w \in 1..Len(done) /\ WroteWith(w, handle)
      BY <1>0, <1>2, <2>1, <3>1, <3>2 DEF WroteWith
    <3>4. IF done'[id].op = "commit" THEN Committed(w) ELSE ~Effected(w)
      BY <1>2, <3>2, <3>3 DEF Promised
    <3>5. Effected(w)' => Effected(w)
      BY <1>0, <3>3, OnlyTheCallWrites
    <3> QED  BY <3>4, <3>5, DurableGrows DEF Committed, Effected
  <2> QED  BY <2>2, <2>3, <2>4
<1> QED  BY <1>1, <1>2 DEF Kept, Committed, Effected

Inv == Typed /\ InFlight /\ Effects /\ Open /\ Handles /\ Held /\ Promised /\ Kept

(* The invariant holds of a new connection.                                  *)
LEMMA InvInit == Init => Inv
<1> SUFFICES ASSUME Init
             PROVE  Inv
  OBVIOUS
<1>1. /\ done \in Seq(Ended) /\ Len(done) = 0
      /\ session = [count |-> 0, pending |-> {}, retry |-> TRUE, sure |-> TRUE]
  BY EmptySeq DEF Init, FreshSession
<1>2. Typed
  BY <1>1 DEF Init, Typed, Sessions
<1>3. InFlight /\ Effects /\ Open
  BY <1>1 DEF Init, InFlight, Effects, Effected, Open
<1>4. Handles /\ Held /\ Promised /\ Kept
  BY <1>1 DEF Init, Handles, Held, Promised, Kept
<1> QED  BY <1>2, <1>3, <1>4 DEF Inv

(* The invariant is kept by every step.                                      *)
LEMMA InvStep == Inv /\ [Next]_vars => Inv'
BY TypedStep, InFlightStep, EffectsStep, OpenStep, HandlesStep, HeldStep, PromisedStep,
   KeptStep DEF Inv

(* Whatever answers, connections and transactions are lost: no write of the  *)
(* program is applied twice, none that was refused is applied, a write that  *)
(* was answered is durable at once or with the Ok of its commit, and an Ok   *)
(* rollback leaves nothing.                                                  *)
THEOREM WritesAppliedOnce == Spec => []WritesOnce
<1>1. Inv => WritesOnce
  <2> SUFFICES ASSUME Inv
               PROVE  WritesOnce
    OBVIOUS
  <2>0. Finished = 1..Len(done) /\ Len(done) \in Nat
    BY LenProperties DEF Inv, Typed, Finished
  <2>1. TypeOK
    BY <2>0 DEF Inv, Typed, TypeOK, Sessions, Calls
  <2>2. AppliedAtMostOnce
    BY EffectsSound DEF Inv
  <2>3. OkIsKept
    <3>1. trusted /\ handle = None /\ call = None => ~InTransaction(session)
      BY DEF Inv, Open, BeginAnswered, InTransaction
    <3>2. \A id : Durable(id) <=> Committed(id)
      BY DEF Inv, Typed, Tries, Durable, Committed
    <3>3. \A id \in Finished : ~Effected(id) => ~Committed(id)
      BY DEF Effected, Committed
    <3> QED  BY <2>0, <3>1, <3>2, <3>3
             DEF Inv, Kept, WroteWith, OkIsKept, IsWrite, Answered
  <2> QED  BY <2>1, <2>2, <2>3 DEF WritesOnce
<1> QED  BY <1>1, InvInit, InvStep, PTL DEF Spec

-----------------------------------------------------------------------------
(* Retries and their log *)

Endings(log) == log.finish + log.error

(* What the awaited call was given and has logged so far.                    *)
Retrying ==
    call # None =>
        /\ call.retry = IF call.handle = None THEN config.retry ELSE DisabledRetry
        /\ call.attempt <= call.retry.max_retries
Logging ==
    call # None =>
        IF ~config.tracing THEN call.log = Silent
        ELSE IF call.op \in Commands THEN call.log = Silent
        ELSE /\ Endings(call.log) = call.attempt
             /\ call.log.start = IF call.phase = "asleep" THEN call.attempt
                                 ELSE call.attempt + 1

(* What an event counts, with and without a tracing subscriber.              *)
LEMMA LogCounts ==
    ASSUME Typed, NEW l \in Logs
    PROVE  /\ ~config.tracing => \A ok \in BOOLEAN : Logged(l, ok) = l
           /\ config.tracing => \A ok \in BOOLEAN :
                Logged(l, ok).start = l.start /\ Endings(Logged(l, ok)) = Endings(l) + 1
           /\ \A op : ~config.tracing \/ op \in Commands => Started(op, l) = l
           /\ config.tracing => \A op \in Queries \cup Checks :
                Started(op, l).start = l.start + 1 /\ Endings(Started(op, l)) = Endings(l)
<1>1. l.start \in Nat /\ l.finish \in Nat /\ l.error \in Nat
  BY DEF Logs
<1>2. ASSUME config.tracing, NEW ok \in BOOLEAN
      PROVE  Logged(l, ok).start = l.start /\ Endings(Logged(l, ok)) = Endings(l) + 1
  <2>1. CASE ok
    <3>1. Logged(l, ok) = [l EXCEPT !.finish = @ + 1]
      BY <1>2, <2>1 DEF Logged
    <3> QED  BY <1>1, <3>1 DEF Endings, Logs
  <2>2. CASE ~ok
    <3>1. Logged(l, ok) = [l EXCEPT !.error = @ + 1]
      BY <1>2, <2>2 DEF Logged
    <3> QED  BY <1>1, <3>1 DEF Endings, Logs
  <2> QED  BY <2>1, <2>2
<1>3. ASSUME config.tracing, NEW op \in Queries \cup Checks
      PROVE  Started(op, l).start = l.start + 1 /\ Endings(Started(op, l)) = Endings(l)
  <2>1. Started(op, l) = [l EXCEPT !.start = @ + 1]
    BY <1>3 DEF Started, TracesAttempts
  <2> QED  BY <1>1, <2>1 DEF Endings, Logs
<1>4. ~config.tracing => \A ok \in BOOLEAN : Logged(l, ok) = l
  BY DEF Logged
<1>5. \A op : ~config.tracing \/ op \in Commands => Started(op, l) = l
  BY DEF Started, TracesAttempts, Commands, Queries, Checks
<1> QED  BY <1>2, <1>3, <1>4, <1>5

(* Nothing changes the configuration of a connection.                        *)
LEMMA ConfigFixed ==
    ASSUME Typed, InFlight, [Next]_vars
    PROVE  config' = config
<1>1. Answering \/ GoingOn => config' = config
  BY AnsweringCall, GoingOnCall
<1>2. ASSUME NEW reply, Return \/ Lost(call, reply)
      PROVE  config' = config
  BY <1>2 DEF Return, Lost
<1> QED  BY <1>1, <1>2 DEF Next, vars, Query, QueryRefused, Command, DropHandle,
         Answering, GoingOn, Timeout, Cancel

(* Retrying is kept: a retry is taken only while one is left.                *)
LEMMA RetryingStep ==
    ASSUME Typed, InFlight, Retrying, [Next]_vars
    PROVE  Retrying'
<1>0. config' = config /\ config.retry \in Retries
  BY ConfigFixed, ConfigsAssumption DEF Typed
<1>1. CASE call' = None
  BY <1>1 DEF Retrying
<1>2. ASSUME NEW op, NEW s, Query(op, s) \/ Command(op)
      PROVE  Retrying'
  <2>1. /\ call'.retry = RetryOptions /\ call'.handle = handle /\ call'.attempt = 0
    BY <1>2 DEF Query, Command, Fresh
  <2>2. RetryOptions.max_retries \in Nat
    BY <1>0 DEF RetryOptions, DisabledRetry, Retries
  <2> QED  BY <1>0, <2>1, <2>2 DEF Retrying, RetryOptions
<1>3. CASE Answering
  BY <1>0, <1>3, AnsweredCall DEF Retrying
<1>4. CASE GoingOn
  <2>1. /\ call # None /\ call.attempt \in Nat /\ call.retry.max_retries \in Nat
        /\ call'.retry = call.retry /\ call'.handle = call.handle
        /\ \/ call.attempt < call.retry.max_retries /\ call'.attempt = call.attempt + 1
           \/ call'.attempt = call.attempt
    BY <1>4, GoingOnCall DEF Typed, Calls, Retries, MayRetry
  <2>2. call'.attempt <= call'.retry.max_retries
    BY <2>1 DEF Retrying
  <2> QED  BY <1>0, <2>1, <2>2 DEF Retrying
<1>5. CASE UNCHANGED vars
  BY <1>5 DEF vars, Retrying
<1>6. ASSUME NEW op, NEW s, QueryRefused(op, s)
      PROVE  call' = None
  BY <1>6 DEF QueryRefused, Finish
<1>7. CASE DropHandle
  BY <1>1, <1>7 DEF DropHandle
<1> QED  BY <1>1, <1>2, <1>3, <1>4, <1>5, <1>6, <1>7, EndingRecords
         DEF Next, Answering, GoingOn, Return, Timeout, Cancel

(* The same for a log that ends an attempt that failed.                      *)
LEMMA FailureCounts ==
    ASSUME Typed, NEW l \in Logs
    PROVE  /\ ~config.tracing => Logged(l, FALSE) = l
           /\ config.tracing =>
                Logged(l, FALSE).start = l.start /\ Endings(Logged(l, FALSE)) = Endings(l) + 1
<1>0. l.start \in Nat /\ l.finish \in Nat /\ l.error \in Nat
  BY DEF Logs
<1>1. ~config.tracing => Logged(l, FALSE) = l
  BY DEF Logged
<1>2. ASSUME config.tracing
      PROVE  Logged(l, FALSE).start = l.start /\ Endings(Logged(l, FALSE)) = Endings(l) + 1
  <2> DEFINE m == [l EXCEPT !.error = @ + 1]
  <2>1. Logged(l, FALSE) = m
    BY <1>2 DEF Logged
  <2>2. m.start = l.start /\ Endings(m) = Endings(l) + 1
    BY <1>0 DEF Endings, Logs
  <2> HIDE DEF m
  <2> QED  BY <2>1, <2>2
<1> QED  BY <1>1, <1>2

(* The attempt that is answered ends once in the log.                        *)
LEMMA TracedLog ==
    ASSUME Typed, call # None
    PROVE  /\ ~config.tracing => Traced(call).log = call.log
           /\ config.tracing =>
                /\ Traced(call).log.start = call.log.start
                /\ Endings(Traced(call).log) = Endings(call.log) + 1
<1>1. call \in Calls /\ call.log \in Logs
  BY DEF Typed, Calls, Logs
<1>2. PICK ok \in BOOLEAN : Traced(call).log = Logged(call.log, ok)
  <2>1. CASE call.reply \in {"ok", "misfit"}
    <3>1. Traced(call) = [call EXCEPT !.log = Logged(call.log, TRUE)]
      BY <2>1 DEF Traced, Logged
    <3> QED  BY <1>1, <3>1 DEF Calls
  <2>2. CASE call.reply \notin {"ok", "misfit"}
    <3>1. Traced(call) = [call EXCEPT !.log = Logged(call.log, FALSE)]
      BY <2>2 DEF Traced, Logged
    <3> QED  BY <1>1, <3>1 DEF Calls
  <2> QED  BY <2>1, <2>2
<1> QED  BY <1>1, <1>2, LogCounts

(* Logging is kept: every new attempt starts once in the log.                *)
LEMMA LoggingStep ==
    ASSUME Typed, InFlight, Logging, [Next]_vars
    PROVE  Logging'
<1>0. config' = config
  BY ConfigFixed
<1>1. CASE call' = None
  BY <1>1 DEF Logging
<1>2. ASSUME NEW op \in Queries \cup Commands \cup Checks, NEW s, call' = Fresh(op, s)
      PROVE  Logging'
  <2>1. /\ call'.log = Started(op, Silent) /\ call'.op = op /\ call'.attempt = 0
        /\ call'.phase = "sent"
    BY <1>2 DEF Fresh
  <2>2. Silent \in Logs /\ Silent.start = 0 /\ Endings(Silent) = 0
    BY DEF Silent, Logs, Endings
  <2>3. CASE ~config.tracing \/ op \in Commands
    BY <1>0, <2>1, <2>2, <2>3, LogCounts DEF Logging
  <2>4. CASE config.tracing /\ op \notin Commands
    <3>1. call'.log.start = 1 /\ Endings(call'.log) = 0
      BY <2>1, <2>2, <2>4, LogCounts
    <3> QED  BY <1>0, <2>1, <2>4, <3>1 DEF Logging
  <2> QED  BY <2>3, <2>4
<1>3. CASE Answering
  BY <1>0, <1>3, AnsweredCall DEF Logging
<1>4. CASE GoingOn
  <2>0. /\ call # None /\ call' # None /\ call.attempt \in Nat /\ call'.op = call.op
        /\ call.log \in Logs /\ call.op \in Queries \cup Commands \cup Checks
    BY <1>4, GoingOnCall, NoneAssumption DEF Typed, Calls, Logs
  <2>1. CASE /\ MayRetry(call) /\ call.phase = "answered" /\ call'.phase = "asleep"
             /\ call'.attempt = call.attempt + 1 /\ call'.log = Traced(call).log
    <3>1. call.op \notin Commands
      BY <2>0, <2>1, WritesSentOnce DEF Changes
    <3> QED  BY <1>0, <2>0, <2>1, <3>1, TracedLog DEF Logging
  <2>2. CASE /\ call'.attempt = call.attempt /\ call'.phase = "sent"
             /\ call.phase = "asleep" /\ call'.log = Started(call.op, call.log)
    <3>1. call.op \notin Commands
      BY <2>0, <2>2, WritesSentOnce DEF Changes
    <3> QED  BY <1>0, <2>0, <2>2, <3>1, LogCounts DEF Logging
  <2>3. CASE /\ call'.attempt = call.attempt /\ call'.phase = call.phase
             /\ call'.log = call.log
    BY <1>0, <2>0, <2>3 DEF Logging
  <2> QED  BY <1>4, <2>1, <2>2, <2>3, GoingOnCall
<1>5. CASE UNCHANGED vars
  BY <1>5 DEF vars, Logging
<1>6. ASSUME NEW op, NEW s, QueryRefused(op, s)
      PROVE  call' = None
  BY <1>6 DEF QueryRefused, Finish
<1>7. CASE DropHandle
  BY <1>1, <1>7 DEF DropHandle
<1> QED  BY <1>1, <1>2, <1>3, <1>4, <1>5, <1>6, <1>7, EndingRecords
         DEF Next, Query, Command, Answering, GoingOn, Return, Timeout, Cancel

(* What is known of the call that has just ended.                            *)
JustEnded(reply, log) ==
    last' = [op |-> call.op, stmt |-> call.stmt, handle |-> call.handle, reply |-> reply,
             kind |-> IF reply = "ok" THEN "Ok" ELSE ErrorKind(call.op, reply),
             sends |-> call.attempt + 1, log |-> log]

(* What the caller gets of an answered call.                                 *)
LEMMA JustReturned ==
    ASSUME Typed, InFlight, Return
    PROVE  /\ call # None /\ call.phase = "answered" /\ ~MayRetry(call)
           /\ JustEnded(call.reply, Traced(call).log)
<1>1. call # None /\ call.phase = "answered" /\ ~MayRetry(call) /\ Finish(Traced(call), call.reply)
  BY DEF Return
<1>2. \E l : Traced(call) = [call EXCEPT !.log = l]
  BY DEF Traced
<1>3. /\ Traced(call).op = call.op /\ Traced(call).stmt = call.stmt
      /\ Traced(call).handle = call.handle /\ Traced(call).attempt = call.attempt
  BY <1>1, <1>2, EndedCall DEF InFlight
<1> HIDE DEF Traced
<1> QED  BY <1>1, <1>3 DEF Finish, JustEnded

(* What is recorded of a call that timed out or was dropped.                 *)
LEMMA JustLost ==
    ASSUME Typed, InFlight, call # None, NEW reply, Lost(call, reply)
    PROVE  JustEnded(reply, IF call.op \in Commands /\ reply = "timeout"
                            THEN Logged(call.log, FALSE) ELSE call.log)
<1>1. call \in Calls
  BY DEF Typed
<1>2. CASE call.op \in Commands /\ reply = "timeout"
  <2> DEFINE l == Logged(call.log, FALSE)
             c == [call EXCEPT !.log = l]
  <2>1. Finish(c, reply)
    BY <1>2 DEF Lost
  <2>2. c.op = call.op /\ c.stmt = call.stmt /\ c.handle = call.handle
        /\ c.attempt = call.attempt /\ c.log = l
    BY <1>1 DEF Calls
  <2> HIDE DEF c
  <2> QED  BY <1>2, <2>1, <2>2 DEF Finish, JustEnded
<1>3. CASE ~(call.op \in Commands /\ reply = "timeout")
  BY <1>3 DEF Lost, Finish, JustEnded
<1> QED  BY <1>2, <1>3

(* What is recorded of a statement whose parameters do not match.            *)
LEMMA JustRefused ==
    ASSUME Typed, NEW op \in Queries, NEW s \in Statements, QueryRefused(op, s)
    PROVE  /\ last'.op = op /\ last'.reply = "compile" /\ last'.sends = 0
           /\ last'.log = IF op = "fetch" THEN Silent ELSE Logged(Started(op, Silent), FALSE)
<1> DEFINE f == Fresh(op, s)
           l == IF op = "fetch" THEN Silent ELSE Logged(f.log, FALSE)
           c == [f EXCEPT !.attempt = -1, !.log = l]
<1>1. f \in Calls
  BY FreshTyped
<1>2. f.op = op /\ f.log = Started(op, Silent)
  BY DEF Fresh
<1>3. Finish(c, "compile")
  BY DEF QueryRefused
<1> HIDE DEF f
<1>4. c.op = op /\ c.attempt = -1 /\ c.log = l
  BY <1>1, <1>2 DEF Calls
<1> HIDE DEF c
<1> QED  BY <1>2, <1>3, <1>4 DEF Finish

LoopInv == Typed /\ InFlight /\ Retrying /\ Logging

(* The invariant of the retry loop holds of a new connection.                *)
LEMMA LoopInvInit == Init => LoopInv
BY InvInit DEF LoopInv, Inv, Init, Retrying, Logging

(* The invariant of the retry loop is kept by every step.                    *)
LEMMA LoopInvStep == LoopInv /\ [Next]_vars => LoopInv'
BY TypedStep, InFlightStep, RetryingStep, LoggingStep DEF LoopInv

(* A step that ends no call leaves what is said of the last one, or nothing. *)
LEMMA LastKept ==
    ASSUME Typed, InFlight, [Next]_vars,
           ~Return, ~Timeout, ~Cancel,
           \A op \in Queries, s \in Statements : ~QueryRefused(op, s)
    PROVE  last' = None \/ last' = last
<1>1. Answering \/ GoingOn => last' = last
  BY AnsweringCall, GoingOnCall
<1> QED  BY <1>1 DEF Next, vars, Query, Command, DropHandle, Answering, GoingOn

(* Only reads outside a handle are sent again, at most max_retries times,    *)
(* and their caller sees a transient error only when no retry is left.       *)
THEOREM RetriesBounded == Spec => []RetriesExhausted
<1>1. Init => RetriesExhausted
  BY DEF Init, RetriesExhausted
<1>2. LoopInv /\ RetriesExhausted /\ [Next]_vars => RetriesExhausted'
  <2> SUFFICES ASSUME LoopInv, RetriesExhausted, [Next]_vars
               PROVE  RetriesExhausted'
    OBVIOUS
  <2>0. Typed /\ InFlight /\ Retrying /\ config' = config /\ config.retry \in Retries
    BY ConfigFixed, ConfigsAssumption DEF LoopInv, Typed
  <2>1. ASSUME call # None, NEW reply, NEW log, JustEnded(reply, log),
               reply \in Transient => ~MayRetry(call) /\ reply = call.reply
        PROVE  RetriesExhausted'
    <3> DEFINE read == call.op \in Reads /\ call.stmt.execution = "ReadOnly"
               again == IF read /\ config.retry.enabled /\ call.handle = None
                        THEN config.retry.max_retries ELSE 0
    <3>1. /\ call.attempt \in Nat /\ config.retry.max_retries \in Nat
          /\ call.attempt <= call.retry.max_retries
          /\ call.attempt > 0 => IsRetryableRead(call)
          /\ call.retry = IF call.handle = None THEN config.retry ELSE DisabledRetry
      BY <2>0, <2>1 DEF Typed, Calls, Retries, Retrying, InFlight
    <3>2. IsRetryableRead(call) => again = call.retry.max_retries
      BY <3>1 DEF IsRetryableRead, DisabledRetry
    <3>3. ~IsRetryableRead(call) => call.attempt = 0 /\ again = 0
      BY <3>1 DEF IsRetryableRead
    <3>4. call.attempt <= again
      BY <3>1, <3>2, <3>3
    <3>5. reply \in Transient => call.attempt = again
      BY <2>1, <3>1, <3>2, <3>3 DEF MayRetry
    <3>6. /\ last'.sends = call.attempt + 1 /\ last'.reply = reply
          /\ last'.op = call.op /\ last'.stmt = call.stmt /\ last'.handle = call.handle
      BY <2>1 DEF JustEnded
    <3> QED  BY <2>0, <3>1, <3>4, <3>5, <3>6 DEF RetriesExhausted
  <2>2. CASE Return
    BY <2>0, <2>1, <2>2, JustReturned
  <2>3. ASSUME NEW reply \in {"timeout", "cancelled"}, Lost(call, reply), call # None
        PROVE  RetriesExhausted'
    BY <2>0, <2>1, <2>3, JustLost DEF Transient
  <2>4. ASSUME NEW op \in Queries, NEW s \in Statements, QueryRefused(op, s)
        PROVE  RetriesExhausted'
    <3>1. last'.sends = 0 /\ last'.reply \notin Transient
      BY <2>0, <2>4, JustRefused DEF Transient
    <3> QED  BY <2>0, <3>1 DEF RetriesExhausted, Retries
  <2>5. CASE last' = None \/ last' = last
    BY <2>0, <2>5 DEF RetriesExhausted
  <2> QED  BY <2>0, <2>2, <2>3, <2>4, <2>5, LastKept DEF Timeout, Cancel
<1> QED  BY <1>1, <1>2, LoopInvInit, LoopInvStep, PTL DEF Spec

(* Every attempt logged as started is logged as finished or failed, save the *)
(* one in flight when the call was abandoned.                                *)
THEOREM AttemptsAreLogged == Spec => []AttemptsLogged
<1>1. Init => AttemptsLogged
  BY DEF Init, AttemptsLogged
<1>2. LoopInv /\ AttemptsLogged /\ [Next]_vars => AttemptsLogged'
  <2> SUFFICES ASSUME LoopInv, AttemptsLogged, [Next]_vars
               PROVE  AttemptsLogged'
    OBVIOUS
  <2>0. Typed /\ InFlight /\ Logging /\ config' = config
    BY ConfigFixed DEF LoopInv
  <2> DEFINE start == last'.log.start
             ended == last'.log.finish + last'.log.error
  <2>s. Silent \in Logs /\ Silent.start = 0 /\ Endings(Silent) = 0
    BY DEF Silent, Logs, Endings
  <2>c. call # None => call.log \in Logs /\ call.attempt \in Nat
    BY <2>0 DEF Typed, Calls, Logs
  <2>1. CASE Return
    <3>1. /\ call # None /\ call.phase = "answered"
          /\ last'.op = call.op /\ last'.reply = call.reply /\ last'.sends = call.attempt + 1
          /\ start = Traced(call).log.start /\ ended = Endings(Traced(call).log)
      BY <2>0, <2>1, JustReturned DEF JustEnded, Endings
    <3>2. call.reply \notin {"timeout", "cancelled"}
      BY <2>0, <3>1 DEF InFlight, Errors
    <3>3. CASE ~config.tracing
      <4>1. start = 0 /\ ended = 0
        BY <2>0, <2>s, <3>1, <3>3, TracedLog DEF Logging
      <4> QED  BY <2>0, <3>3, <4>1 DEF AttemptsLogged
    <3>4. CASE config.tracing /\ call.op \in Commands
      <4>1. start = 0 /\ ended = 1
        BY <2>0, <2>s, <3>1, <3>4, TracedLog DEF Logging
      <4> QED  BY <2>0, <3>1, <3>2, <3>4, <4>1 DEF AttemptsLogged
    <3>5. CASE config.tracing /\ call.op \notin Commands
      <4>1. start = call.attempt + 1 /\ ended = call.attempt + 1
        BY <2>0, <2>c, <3>1, <3>5, TracedLog DEF Logging
      <4> QED  BY <2>0, <2>c, <3>1, <3>5, <4>1 DEF AttemptsLogged
    <3> QED  BY <3>3, <3>4, <3>5
  <2>2. ASSUME NEW reply \in {"timeout", "cancelled"}, Lost(call, reply), call # None
        PROVE  AttemptsLogged'
    <3> DEFINE log == IF call.op \in Commands /\ reply = "timeout"
                      THEN Logged(call.log, FALSE) ELSE call.log
    <3>1. /\ last'.op = call.op /\ last'.reply = reply
          /\ start = log.start /\ ended = Endings(log)
      <4>1. JustEnded(reply, log)
        BY <2>0, <2>2, JustLost
      <4> HIDE DEF log
      <4> QED  BY <4>1 DEF JustEnded, Endings
    <3>2. CASE ~config.tracing
      <4>1. start = 0 /\ ended = 0
        BY <2>0, <2>2, <2>c, <2>s, <3>1, <3>2, FailureCounts DEF Logging
      <4> QED  BY <2>0, <3>2, <4>1 DEF AttemptsLogged
    <3>3. CASE config.tracing /\ call.op \in Commands
      <4>1. start = 0 /\ ended = IF reply = "timeout" THEN 1 ELSE 0
        <5>1. call.log = Silent
          BY <2>0, <2>2, <3>3 DEF Logging
        <5> DEFINE failed == Logged(Silent, FALSE)
        <5>2. failed.start = Silent.start /\ Endings(failed) = Endings(Silent) + 1
          BY <2>0, <2>s, <3>3, FailureCounts
        <5>3. reply = "timeout" => log = failed
          BY <3>3, <5>1
        <5>4. reply # "timeout" => log = Silent
          BY <5>1
        <5> HIDE DEF failed, log
        <5> QED  BY <2>s, <3>1, <5>2, <5>3, <5>4
      <4> QED  BY <2>0, <2>2, <3>1, <3>3, <4>1 DEF AttemptsLogged
    <3>4. CASE config.tracing /\ call.op \notin Commands
      <4>1. ended = call.attempt /\ start \in {call.attempt, call.attempt + 1}
        BY <2>0, <2>2, <3>1, <3>4 DEF Logging
      <4>2. start - ended \in {0, 1}
        BY <2>2, <2>c, <4>1
      <4> QED  BY <2>0, <2>2, <3>1, <3>4, <4>2 DEF AttemptsLogged
    <3> QED  BY <3>2, <3>3, <3>4
  <2>3. ASSUME NEW op \in Queries, NEW s \in Statements, QueryRefused(op, s)
        PROVE  AttemptsLogged'
    <3> DEFINE begun == Started(op, Silent)
    <3>1. last'.op = op /\ op \notin Commands /\ last'.reply = "compile"
      BY <2>0, <2>3, JustRefused DEF Queries, Commands
    <3>2. op = "fetch" => last'.log = Silent
      BY <2>0, <2>3, JustRefused
    <3>3. op # "fetch" => last'.log = Logged(begun, FALSE)
      BY <2>0, <2>3, JustRefused
    <3>4. ~config.tracing => last'.log = Silent
      <4>1. ~config.tracing => begun = Silent /\ Logged(Silent, FALSE) = Silent
        BY <2>0, <2>s, LogCounts, FailureCounts
      <4> QED  BY <3>2, <3>3, <4>1
    <3>5. config.tracing =>
            begun.start = 1 /\ Endings(begun) = 0 /\ begun \in Logs
      <4>1. begun \in Logs
        BY <2>s, LogTyped
      <4>2. config.tracing => begun.start = Silent.start + 1 /\ Endings(begun) = Endings(Silent)
        BY <2>0, <2>s, <2>3, LogCounts
      <4> QED  BY <2>s, <4>1, <4>2
    <3> HIDE DEF begun
    <3>6. CASE last'.log = Silent
      <4>1. start = 0 /\ ended = 0
        BY <2>s, <3>6 DEF Endings
      <4> HIDE DEF start, ended
      <4> QED  BY <2>0, <3>1, <4>1 DEF AttemptsLogged, start, ended
    <3>7. CASE config.tracing /\ last'.log = Logged(begun, FALSE)
      <4>1. start = 1 /\ ended = 1
        <5> DEFINE failed == Logged(begun, FALSE)
        <5>1. failed.start = begun.start /\ Endings(failed) = Endings(begun) + 1
          BY <2>0, <3>5, <3>7, FailureCounts
        <5>2. last'.log = failed
          BY <3>7
        <5>3. begun.start = 1 /\ Endings(begun) = 0
          BY <3>5, <3>7
        <5> HIDE DEF failed
        <5> QED  BY <5>1, <5>2, <5>3 DEF Endings
      <4>2. config.tracing
        BY <3>7
      <4> HIDE DEF start, ended
      <4> QED  BY <2>0, <3>1, <4>1, <4>2 DEF AttemptsLogged, start, ended
    <3> QED  BY <3>2, <3>3, <3>4, <3>6, <3>7
  <2>4. CASE last' = None \/ last' = last
    BY <2>0, <2>4 DEF AttemptsLogged
  <2> QED  BY <2>0, <2>1, <2>2, <2>3, <2>4, LastKept DEF Timeout, Cancel
<1> QED  BY <1>1, <1>2, LoopInvInit, LoopInvStep, PTL DEF Spec

-----------------------------------------------------------------------------
(* Delays, timeouts and parameters *)

(* The delays slept so far are those of the attempts made so far, and the    *)
(* call has the timeout of its operation, which it has not outlived.         *)
Delaying ==
    call # None =>
        /\ \A x \in call.delays :
              x[1] \in 1..call.attempt /\ x[2] = RetryDelay(call.retry, x[1])
        /\ call.deadline = TimeoutOf(call.op)
        /\ call.deadline # None => call.age <= call.deadline

(* Delaying and ParametersMatch are kept by every step: only a retry sleeps, *)
(* only a tick ages a call, and a call keeps its statement.                  *)
LEMMA DelayingStep ==
    ASSUME Typed, InFlight, Delaying, ParametersMatch, [Next]_vars
    PROVE  Delaying' /\ ParametersMatch'
<1>0. config' = config /\ \A op : TimeoutOf(op)' = TimeoutOf(op)
  BY ConfigFixed DEF TimeoutOf, HealthTimeout
<1>1. CASE call' = None
  BY <1>1 DEF Delaying, ParametersMatch
<1>2. ASSUME NEW op \in Queries, NEW s \in Statements, Query(op, s)
      PROVE  Delaying' /\ ParametersMatch'
  <2>1. call' = Fresh(op, s) /\ Fresh(op, s) \in Calls
    BY <1>2, FreshTyped DEF Query
  <2>2. /\ call'.op = op /\ call'.stmt = s /\ call'.delays = {} /\ call'.age = 0
        /\ call'.deadline = TimeoutOf(op) /\ call'.deadline \in Nat \cup {None}
    BY <2>1 DEF Fresh, Calls
  <2>3. {p.index : p \in Placeholders(s)} = 1..s.params
    <3> DEFINE marks == {p.index : p \in Placeholders(s)}
    <3>1. SqlParameterPlan(s) = s.params /\ s.params \in Nat
      BY <1>2, StatementsAssumption DEF Query, ValidParameterCount
    <3>2. SqlParameterPlan(s) = IF marks = 1..Cardinality(marks) THEN Cardinality(marks)
                                ELSE None
      BY DEF SqlParameterPlan
    <3> HIDE DEF marks
    <3> QED  BY <3>1, <3>2, NoneAssumption DEF marks
  <2>4. Delaying'
    BY <1>0, <2>2 DEF Delaying
  <2>5. ParametersMatch'
    BY <2>2, <2>3 DEF ParametersMatch
  <2> QED  BY <2>4, <2>5
<1>3. ASSUME NEW op \in Commands \cup Checks, Command(op)
      PROVE  Delaying' /\ ParametersMatch'
  <2>1. call' = Fresh(op, HealthQuery) /\ Fresh(op, HealthQuery) \in Calls
    BY <1>3, FreshTyped DEF Command
  <2>2. /\ call'.op = op /\ call'.delays = {} /\ call'.age = 0
        /\ call'.deadline = TimeoutOf(op) /\ call'.deadline \in Nat \cup {None}
    BY <2>1 DEF Fresh, Calls
  <2>3. Delaying'
    BY <1>0, <2>2 DEF Delaying
  <2>4. ParametersMatch'
    BY <2>2 DEF ParametersMatch, Queries, Commands, Checks
  <2> QED  BY <2>3, <2>4
<1>4. ASSUME call # None, call' # None,
             call'.op = call.op, call'.stmt = call.stmt, call'.retry = call.retry,
             call'.deadline = call.deadline, call'.age = call.age,
             call'.delays = call.delays, call'.attempt = call.attempt
      PROVE  Delaying' /\ ParametersMatch'
  <2>1. Delaying'
    BY <1>0, <1>4 DEF Delaying
  <2>2. ParametersMatch'
    BY <1>4 DEF ParametersMatch, Placeholders
  <2> QED  BY <2>1, <2>2
<1>5. CASE Answering
  <2>1. PICK reply : call' = [call EXCEPT !.phase = "answered", !.reply = reply]
    BY <1>5, AnsweringCall
  <2>2. call # None /\ call \in Calls /\ call' # None
    BY <1>5, AnsweredCall
  <2>3. /\ call'.op = call.op /\ call'.stmt = call.stmt /\ call'.retry = call.retry
        /\ call'.deadline = call.deadline /\ call'.age = call.age
        /\ call'.delays = call.delays /\ call'.attempt = call.attempt
    BY <2>1, <2>2 DEF Calls
  <2> QED  BY <1>4, <2>2, <2>3
<1>6. CASE Retry
  <2>1. call # None /\ call \in Calls /\ call.attempt \in Nat
    BY <1>6 DEF Retry, Typed, Calls
  <2> DEFINE n == RetryDelay(call.retry, call.attempt + 1)
             c == Traced(call)
  <2>2. /\ c.op = call.op /\ c.stmt = call.stmt /\ c.retry = call.retry
        /\ c.deadline = call.deadline /\ c.age = call.age
        /\ c.delays = call.delays /\ c.attempt = call.attempt
        /\ \E l : c = [call EXCEPT !.log = l]
    BY <2>1 DEF Traced, Calls
  <2>3. call' = Retried(c)
    BY <1>6 DEF Retry
  <2> HIDE DEF c
  <2>4. /\ call'.op = call.op /\ call'.stmt = call.stmt /\ call'.retry = call.retry
        /\ call'.deadline = call.deadline /\ call'.age = call.age
        /\ call'.attempt = call.attempt + 1
        /\ call'.delays = call.delays \cup {<<call.attempt + 1, n>>}
    BY <2>1, <2>2, <2>3 DEF Retried, Calls
  <2>5. call # None /\ \A x \in call'.delays :
            x[1] \in 1..call'.attempt /\ x[2] = RetryDelay(call'.retry, x[1])
    <3>1. \A x \in call.delays : x[1] \in 1..call.attempt /\ x[2] = RetryDelay(call.retry, x[1])
      BY <2>1 DEF Delaying
    <3>2. 1..call.attempt \subseteq 1..call.attempt + 1 /\ call.attempt + 1 \in 1..call.attempt + 1
      BY <2>1
    <3> QED  BY <2>1, <2>4, <3>1, <3>2
  <2>6. Delaying'
    BY <1>0, <2>1, <2>4, <2>5 DEF Delaying
  <2>7. ParametersMatch'
    BY <2>1, <2>4 DEF ParametersMatch, Placeholders
  <2> QED  BY <2>6, <2>7
<1>7. CASE Wake
  <2>1. call # None /\ call \in Calls
    BY <1>7 DEF Wake, Typed
  <2>2. PICK l : call' = [call EXCEPT !.phase = "sent", !.reply = None, !.log = l]
    BY <1>7 DEF Wake
  <2>3. /\ call'.op = call.op /\ call'.stmt = call.stmt /\ call'.retry = call.retry
        /\ call'.deadline = call.deadline /\ call'.age = call.age
        /\ call'.delays = call.delays /\ call'.attempt = call.attempt
    BY <2>1, <2>2 DEF Calls
  <2>4. call' # None
    BY <1>7, GoingOnCall, NoneAssumption DEF GoingOn
  <2> QED  BY <1>4, <2>1, <2>3, <2>4
<1>8. CASE Tick
  <2>1. call # None /\ call \in Calls /\ call.age \in Nat /\ call.deadline \in Nat \cup {None}
    BY <1>8 DEF Tick, Typed, Calls
  <2>2. /\ call'.op = call.op /\ call'.stmt = call.stmt /\ call'.retry = call.retry
        /\ call'.deadline = call.deadline
        /\ call'.delays = call.delays /\ call'.attempt = call.attempt
        /\ call'.age = IF call.deadline = None THEN call.age ELSE call.age + 1
    BY <1>8, <2>1 DEF Tick, Calls
  <2>3. call.deadline # None => call.age < call.deadline
    BY <1>8 DEF Tick
  <2>4. Delaying'
    BY <1>0, <2>1, <2>2, <2>3 DEF Delaying
  <2>5. ParametersMatch'
    BY <2>1, <2>2 DEF ParametersMatch, Placeholders
  <2> QED  BY <2>4, <2>5
<1>9. CASE UNCHANGED vars
  <2>1. call' = call
    BY <1>9 DEF vars
  <2> QED  BY <1>1, <1>4, <2>1
<1>10. ASSUME NEW op, NEW s, QueryRefused(op, s)
       PROVE  call' = None
  BY <1>10 DEF QueryRefused, Finish
<1>11. CASE DropHandle
  BY <1>1, <1>11 DEF DropHandle
<1> QED  BY <1>1, <1>2, <1>3, <1>5, <1>6, <1>7, <1>8, <1>9, <1>10, <1>11, EndingRecords
         DEF Next, Answering, Return, Timeout, Cancel

(* Whatever the retries: delays grow and stay under max_delay, a call ends   *)
(* within its timeout, a statement reaches the server with the parameters it *)
(* names, and the attempts are bounded.                                      *)
THEOREM CallsStayBounded == Spec => []CallsBounded
<1> DEFINE I == LoopInv /\ Delaying /\ ParametersMatch
<1>1. Init => I
  BY LoopInvInit DEF Init, Delaying, ParametersMatch
<1>2. I /\ [Next]_vars => I'
  BY LoopInvStep, DelayingStep DEF LoopInv
<1>3. I => DelaysBounded /\ ParametersMatch
  <2> SUFFICES ASSUME I, call # None
               PROVE  DelaysBounded
    BY DEF DelaysBounded
  <2>1. /\ call \in Calls /\ call.attempt \in Nat /\ call.retry \in Retries
        /\ call.deadline = TimeoutOf(call.op)
        /\ call.deadline # None => call.age <= call.deadline
        /\ \A x \in call.delays :
              x[1] \in 1..call.attempt /\ x[2] = RetryDelay(call.retry, x[1])
    BY DEF LoopInv, Typed, Calls, Delaying
  <2>2. \A x \in call.delays : x[1] \in Nat \ {0}
    BY <2>1
  <2>3. \A x \in call.delays : call.retry = config.retry
    <3>1. call.delays # {} => call.attempt > 0
      BY <2>1
    <3>2. call.attempt > 0 => call.retry.enabled
      BY DEF LoopInv, InFlight, IsRetryableRead
    <3>3. ~DisabledRetry.enabled
      BY DEF DisabledRetry
    <3> QED  BY <3>1, <3>2, <3>3 DEF LoopInv, Retrying
  <2>4. \A x, y \in call.delays : x[1] < y[1] => x[2] <= y[2]
    BY <2>1, <2>2, DelayGrows
  <2>5. \A x \in call.delays : x[2] <= config.retry.max_delay
    BY <2>1, <2>2, <2>3, DelayGrows
  <2> QED  BY <2>1, <2>4, <2>5 DEF DelaysBounded
<1> HIDE DEF I
<1>4. Spec => [](DelaysBounded /\ ParametersMatch)
  BY <1>1, <1>2, <1>3, PTL DEF Spec
<1> QED  BY <1>4, RetriesBounded, PTL DEF CallsBounded
=============================================================================
