------------------------------ MODULE Executor ------------------------------
(* One MssqlConnection and the program that holds it: statements executed or *)
(* fetched with the configured retries, query_timeout around the whole call, *)
(* health checks, and MssqlTransaction handles that the program may commit,  *)
(* roll back or drop.  The server executes a statement at a moment of its    *)
(* own; the answer, the connection or the caller's patience may be lost on   *)
(* either side of it.  Time is counted in ticks.                             *)
EXTENDS SqlSession, Integers, Sequences, FiniteSets

CONSTANTS
    None,
    Configs,      \* the MssqlOperationalOptions a connection may be given
    Statements,   \* the compiled queries the program may issue
    Ops,          \* the operations of the connection the program calls
    Replies,      \* the errors the server or the stream may answer
    ShiftBits,    \* width of the retry multiplier (32 in the code)
    MaxCalls      \* bound: writes and transaction commands of one behaviour

Transient == {"transient", "deadlock", "interrupted", "io"}

(* CompiledQuery::execution decides the retry, never the text of the SQL: a  *)
(* statement marked read_only() has no effect (the caller's obligation,      *)
(* stated on RawQuery::read_only).                                           *)
ASSUME ReadOnlyIsIdempotent ==
    \A s \in Statements : s.execution = "ReadOnly" => ~s.writes
ASSUME BoundsAssumption == ShiftBits \in Nat \ {0} /\ MaxCalls \in Nat
Errors == {"transient", "deadlock", "interrupted", "io", "permanent"}
ASSUME RepliesAssumption == Replies \subseteq Errors

(* MssqlRetryOptions, MssqlOperationalOptions and CompiledQuery.             *)
Retries == [enabled : BOOLEAN, max_retries : Nat, base_delay : Nat, max_delay : Nat]
ASSUME ConfigsAssumption ==
    Configs \subseteq [retry : Retries, query_timeout : Nat \cup {None},
                       health_timeout : Nat \cup {None}, tracing : BOOLEAN]
ASSUME StatementsAssumption == \A s \in Statements : s.writes \in BOOLEAN /\ s.params \in Nat

VARIABLES
    config,    \* MssqlConnection::config
    link,      \* the TCP stream: "up" or "down"
    session,   \* the server's session
    durable,   \* <<call, attempt>> of every write whose effect is committed
    handle,    \* None, or the call that began the MssqlTransaction being held
    trusted,   \* FALSE once the program lost a transaction it had begun
    call,      \* the future being awaited, or None
    last,      \* what the call that has just finished sent, logged and answered
    done       \* the finished writes and transaction commands

vars == <<config, link, session, durable, handle, trusted, call, last, done>>
server == <<link, session, durable>>

Queries == {"execute", "query_raw", "fetch"}
Commands == {"begin", "commit", "rollback"}
Checks == {"health_check", "is_valid"}

-----------------------------------------------------------------------------
(* Parameters: the placeholders outside literals, quoted names and comments  *)
(* must be @P1..@Pn, one for each bound value.                               *)
Placeholders(s) == {p \in s.marks : p.where = "code"}
SqlParameterPlan(s) ==
    LET marks == {p.index : p \in Placeholders(s)} IN
    IF marks = 1..Cardinality(marks) THEN Cardinality(marks) ELSE None
ValidParameterCount(s) == SqlParameterPlan(s) = s.params

(* The delay doubles with every attempt; the multiplier saturates at the     *)
(* width of its integer and the delay at max_delay.                          *)
Doubled[n \in Nat] == IF n = 0 THEN 1 ELSE 2 * Doubled[n - 1]
Multiplier(attempt) ==
    IF attempt - 1 < ShiftBits THEN Doubled[attempt - 1] ELSE Doubled[ShiftBits] - 1
RetryDelay(retry, attempt) ==
    LET scaled == retry.base_delay * Multiplier(attempt) IN
    IF scaled < retry.max_delay THEN scaled ELSE retry.max_delay

DisabledRetry == [enabled |-> FALSE, max_retries |-> 0, base_delay |-> 0, max_delay |-> 0]
(* The options a query runs with: a handle never retries.                   *)
RetryOptions == IF handle = None THEN config.retry ELSE DisabledRetry
(* What fetches rows, the only calls with a retry loop.                      *)
Reads == Checks \cup {"fetch"}
(* Mutant: what is fetched is a read, whatever its classification.           *)
IsRetryableFetch(c) ==
    c.op \in Reads /\ c.retry.enabled /\ c.retry.max_retries > 0
IsRetryableRead(c) ==
    /\ c.op \in Reads
    /\ c.retry.enabled /\ c.retry.max_retries > 0
    /\ c.stmt.execution = "ReadOnly"

HealthTimeout ==
    IF config.health_timeout # None THEN config.health_timeout ELSE config.query_timeout
HealthQuery == [execution |-> "ReadOnly", writes |-> FALSE, marks |-> {}, params |-> 0]
TimeoutOf(op) == IF op \in Checks THEN HealthTimeout ELSE config.query_timeout

(* OrmError::kind of an answer that is not Ok.                               *)
ErrorKind(op, reply) ==
    CASE reply = "compile"  -> "Compile"
      [] reply = "deadlock" -> "Concurrency"
      [] reply = "misfit"   -> IF op \in Checks THEN "Connection" ELSE "Mapping"
      [] reply = "timeout"  -> IF op \in Checks THEN "Connection" ELSE "Execution"
      [] OTHER              -> "Execution"

-----------------------------------------------------------------------------
(* trace_query and trace_transaction_command: what one call has logged.      *)
Silent == [start |-> 0, finish |-> 0, error |-> 0]
TracesAttempts(op) == op \in Queries \cup Checks
Started(op, log) ==
    IF config.tracing /\ TracesAttempts(op) THEN [log EXCEPT !.start = @ + 1] ELSE log
Logged(log, ok) ==
    IF ~config.tracing THEN log
    ELSE IF ok THEN [log EXCEPT !.finish = @ + 1] ELSE [log EXCEPT !.error = @ + 1]

(* The states of a call between two steps.                                   *)
Calls ==
    [op : Queries \cup Commands \cup Checks, stmt : Statements \cup {HealthQuery},
     retry : Retries, attempt : Nat, phase : {"sent", "answered", "asleep"},
     reply : Errors \cup {None, "ok", "misfit"}, age : Nat, wait : Nat,
     deadline : Nat \cup {None}, delays : SUBSET (Nat \X Nat),
     log : [start : Nat, finish : Nat, error : Nat],
     handle : Nat \cup {None}, trusted : BOOLEAN]
ASSUME NoneAssumption == None \notin Nat /\ None \notin Calls

Fresh(op, stmt) ==
    [op |-> op, stmt |-> stmt, retry |-> RetryOptions, attempt |-> 0,
     phase |-> "sent", reply |-> None, age |-> 0, wait |-> 0,
     deadline |-> TimeoutOf(op), delays |-> {}, log |-> Started(op, Silent),
     handle |-> handle, trusted |-> trusted]

Init ==
    /\ config \in Configs
    /\ link = "up" /\ session = FreshSession /\ durable = {}
    /\ handle = None /\ trusted = TRUE
    /\ call = None /\ last = None /\ done = << >>

(* Calls that may change the database are numbered.                          *)
NextId == Len(done) + 1
Changes(op, s) == op \in Commands \/ (op \in Queries /\ s.writes)
MayCall(op, s) == call = None /\ op \in Ops /\ (Changes(op, s) => NextId <= MaxCalls)

(* What an answer tells the caller of the effect: it happened, it did not,   *)
(* or nothing.                                                               *)
Outcome(reply) ==
    CASE reply \in {"ok", "misfit"} -> "applied"
      [] reply \in {"compile", "transient", "deadlock", "permanent"} -> "refused"
      [] OTHER -> "unknown"

Finish(c, reply) ==
    /\ call' = None
    /\ last' = [op |-> c.op, stmt |-> c.stmt, handle |-> c.handle, reply |-> reply,
                kind |-> IF reply = "ok" THEN "Ok" ELSE ErrorKind(c.op, reply),
                sends |-> c.attempt + 1, log |-> c.log]
    /\ done' = IF Changes(c.op, c.stmt)
               THEN Append(done, [op |-> IF c.op \in Queries THEN "write" ELSE c.op,
                                  handle |-> c.handle, trusted |-> c.trusted,
                                  outcome |-> Outcome(reply)])
               ELSE done

-----------------------------------------------------------------------------
(* The calls of the program.                                                 *)

(* A handle borrows the connection: while it lives every statement goes      *)
(* through it, and only it can end the transaction.                          *)
Allowed(op) == handle # None <=> op \in {"commit", "rollback"}

(* execute, query_raw, fetch_one, fetch_all (and their _with forms), on the  *)
(* connection or on the handle.  A statement whose parameters do not match   *)
(* never leaves; execute and query_raw check inside the traced future.       *)
Query(op, s) ==
    /\ MayCall(op, s)
    /\ ValidParameterCount(s)
    /\ call' = Fresh(op, s) /\ last' = None
    /\ UNCHANGED <<config, server, handle, trusted, done>>
QueryRefused(op, s) ==
    /\ MayCall(op, s)
    /\ ~ValidParameterCount(s)
    /\ LET c == [Fresh(op, s) EXCEPT !.attempt = -1,
                     !.log = IF op = "fetch" THEN Silent ELSE Logged(@, FALSE)]
       IN Finish(c, "compile")
    /\ UNCHANGED <<config, server, handle, trusted>>

(* begin_transaction, commit, rollback, health_check, and the health check   *)
(* bb8 makes before it hands the connection out again.                       *)
Command(op) ==
    /\ MayCall(op, HealthQuery) /\ Allowed(op)
    /\ call' = Fresh(op, HealthQuery) /\ last' = None
    /\ UNCHANGED <<config, server, handle, trusted, done>>

(* MssqlTransaction has no Drop: a handle that goes away sends nothing.      *)
DropHandle ==
    /\ call = None /\ handle # None
    /\ handle' = None /\ trusted' = FALSE /\ last' = None
    /\ UNCHANGED <<config, server, call, done>>

-----------------------------------------------------------------------------
(* The server.                                                               *)
Effect(c) == <<NextId, c.attempt>>
Write(c) ==
    /\ session' = JoinTran(session, Effect(c))
    /\ durable' = durable \cup AutoCommitted(session, Effect(c))

(* What executing the statement does; a COMMIT or ROLLBACK without an open   *)
(* transaction is an error, which "permanent" stands for.                    *)
Applies(c) ==
    CASE c.op = "begin"    -> session' = BeginTran(session) /\ UNCHANGED durable
      [] c.op = "commit"   -> /\ InTransaction(session)
                              /\ session' = CommitTran(session)
                              /\ durable' = durable \cup MadeDurable(session)
      [] c.op = "rollback" -> /\ InTransaction(session)
                              /\ session' = RollbackTran(session) /\ UNCHANGED durable
      [] OTHER -> IF c.op \in Queries /\ c.stmt.writes THEN Write(c)
                  ELSE UNCHANGED <<session, durable>>

Answer(reply) ==
    /\ call # None /\ call.phase = "sent"
    /\ call' = [call EXCEPT !.phase = "answered", !.reply = reply]
    /\ UNCHANGED <<config, handle, trusted, last, done>>

(* The rows of a read may hold a value read_sql_value does not convert.      *)
ReadsRows == call # None /\ call.op \in Reads
ServerExecutes ==
    /\ link = "up" /\ UNCHANGED link
    /\ \/ Answer("ok") /\ Applies(call)
       \/ /\ ReadsRows
          /\ Answer("misfit") /\ Applies(call)
ServerFails ==
    /\ link = "up" /\ UNCHANGED <<link, durable>>
    /\ \E reply \in Replies \ {"io", "interrupted"} :
        /\ Answer(reply)
        /\ session' = IF reply = "deadlock" THEN RollbackTran(session) ELSE session
ServerRefuses ==
    /\ link = "up" /\ call # None /\ call.op \in {"commit", "rollback"}
    /\ ~InTransaction(session)
    /\ Answer("permanent")
    /\ UNCHANGED server

(* The driver reports an I/O error of a stream that survives it, executed or *)
(* not: is_transient_tiberius_error lists Interrupted, WouldBlock, TimedOut. *)
Interrupted ==
    /\ "interrupted" \in Replies /\ link = "up" /\ UNCHANGED link
    /\ Answer("interrupted")
    /\ UNCHANGED <<session, durable>> \/ Applies(call)

(* The stream breaks, before the statement is executed or after; the server  *)
(* ends the session.  The client of a broken stream answers at once.         *)
LinkBreaks ==
    /\ "io" \in Replies /\ link = "up"
    /\ Answer("io")
    /\ link' = "down"
    /\ \/ session' = RollbackTran(session) /\ UNCHANGED durable
       \/ /\ call.op \in Queries /\ call.stmt.writes
          /\ session' = RollbackTran(session)
          /\ durable' = durable \cup AutoCommitted(session, Effect(call))
       \/ /\ call.op = "commit" /\ InTransaction(session)
          /\ session' = RollbackTran(session)
          /\ durable' = durable \cup MadeDurable(session)
LinkIsDown == link = "down" /\ Answer("io") /\ UNCHANGED server

-----------------------------------------------------------------------------
(* The executor.                                                             *)

(* What the handle and the connection are after a call that ends with reply: *)
(* begin makes the handle on Ok, commit and rollback consume it, and bb8     *)
(* replaces a connection whose health check fails.                           *)
Settled(c, reply) ==
    /\ handle' = IF c.op = "begin" /\ reply = "ok" THEN NextId
                 ELSE IF c.op \in {"commit", "rollback"} THEN None ELSE handle
    /\ IF c.op = "is_valid" /\ reply # "ok"
       THEN link' = "up" /\ session' = FreshSession /\ trusted' = TRUE
       ELSE /\ UNCHANGED <<link, session>>
            /\ trusted' = (trusted /\ (c.op = "begin" => Outcome(reply) # "unknown")
                                   /\ (c.op \in {"commit", "rollback"} => reply = "ok"))
    /\ UNCHANGED durable

MayRetry(c) ==
    IsRetryableRead(c) /\ c.attempt < c.retry.max_retries /\ c.reply \in Transient
(* Mutant: only the last attempt is logged as ended.                         *)
TracedAtReturn(c) ==
    IF MayRetry(c) THEN c ELSE [c EXCEPT !.log = Logged(@, c.reply \in {"ok", "misfit"})]
Traced(c) ==
    LET ok == c.reply \in {"ok", "misfit"} IN
    [c EXCEPT !.log = Logged(@, ok)]

Return ==
    /\ call # None /\ call.phase = "answered" /\ ~MayRetry(call)
    /\ Finish(Traced(call), call.reply)
    /\ Settled(call, call.reply)
    /\ UNCHANGED config

(* Mutant: every attempt has a timeout of its own.                           *)
RetriedAfresh(c) ==
    LET delay == RetryDelay(c.retry, c.attempt + 1) IN
    [c EXCEPT !.attempt = @ + 1, !.phase = "asleep", !.wait = delay,
              !.deadline = IF @ = None THEN None ELSE c.age + TimeoutOf(c.op),
              !.delays = @ \cup {<<c.attempt + 1, delay>>}]
Retried(c) ==
    LET delay == RetryDelay(c.retry, c.attempt + 1) IN
    [c EXCEPT !.attempt = @ + 1, !.phase = "asleep", !.wait = delay,
              !.delays = @ \cup {<<c.attempt + 1, delay>>}]
Retry ==
    /\ call # None /\ call.phase = "answered" /\ MayRetry(call)
    /\ call' = Retried(Traced(call))
    /\ UNCHANGED <<config, server, handle, trusted, last, done>>

Wake ==
    /\ call # None /\ call.phase = "asleep" /\ call.wait = 0
    /\ call' = [call EXCEPT !.phase = "sent", !.reply = None,
                            !.log = Started(call.op, @)]
    /\ UNCHANGED <<config, server, handle, trusted, last, done>>

(* Time matters only to a deadline and a sleep.                              *)
Tick ==
    /\ call # None
    /\ call.deadline # None => call.age < call.deadline
    /\ call' = [call EXCEPT !.age = IF call.deadline = None THEN @ ELSE @ + 1,
                            !.wait = IF @ > 0 THEN @ - 1 ELSE 0]
    /\ UNCHANGED <<config, server, handle, trusted, last, done>>

(* The future is dropped: the server may still execute what was sent.  A     *)
(* timed-out query is dropped with the future that traces it; a timed-out    *)
(* transaction command is dropped inside it.                                 *)
Dropped(c) ==
    \/ UNCHANGED <<session, durable>>
    \/ c.phase = "sent" /\ link = "up" /\ Applies(c)
Lost(c, reply) ==
    /\ Finish(IF c.op \in Commands /\ reply = "timeout"
              THEN [c EXCEPT !.log = Logged(@, FALSE)] ELSE c, reply)
    /\ handle' = IF c.op \in {"commit", "rollback"} THEN None ELSE handle
    /\ IF c.op = "is_valid"
       THEN link' = "up" /\ session' = FreshSession /\ trusted' = TRUE /\ UNCHANGED durable
       ELSE /\ Dropped(c) /\ UNCHANGED link
            /\ trusted' = (trusted /\ c.op \notin Commands)
    /\ UNCHANGED config

(* Mutant: the timeout is looked at between two attempts.                    *)
TimeoutOfRetries ==
    /\ call # None /\ call.deadline # None /\ call.age >= call.deadline
    /\ call.phase = "asleep"
    /\ Lost(call, "timeout")
Timeout ==
    /\ call # None /\ call.deadline # None /\ call.age >= call.deadline
    /\ Lost(call, "timeout")
Cancel == call # None /\ Lost(call, "cancelled")

Next ==
    \/ \E op \in Queries, s \in Statements : Query(op, s) \/ QueryRefused(op, s)
    \/ \E op \in Commands \cup Checks : Command(op)
    \/ DropHandle
    \/ ServerExecutes \/ ServerFails \/ ServerRefuses \/ Interrupted
    \/ LinkBreaks \/ LinkIsDown
    \/ Return \/ Retry \/ Wake \/ Tick \/ Timeout \/ Cancel

Spec == Init /\ [][Next]_vars

(* The executor's own steps happen: tokio polls the future and its timers.   *)
(* Nothing is assumed of the server.                                         *)
FairSpec == Spec /\ WF_vars(Return) /\ WF_vars(Retry) /\ WF_vars(Wake)
                 /\ WF_vars(Tick) /\ WF_vars(Timeout)
-----------------------------------------------------------------------------
Attempts(id) == {e \in durable \cup session.pending : e[1] = id}
Durable(id) == \E e \in durable : e[1] = id
Finished == DOMAIN done
Answered(id) == done[id].outcome = "applied"
IsWrite(id) == done[id].op = "write"

TypeOK ==
    /\ link \in {"up", "down"} /\ session.count \in Nat
    /\ handle \in Finished \cup {None} /\ trusted \in BOOLEAN
    /\ call # None =>
        /\ call.phase \in {"sent", "answered", "asleep"}
        /\ call.reply \in Errors \cup {None, "ok", "misfit"}

(* No write is applied twice, and one refused by a definite error was not    *)
(* applied at all: only a lost answer leaves the caller in doubt.            *)
AppliedAtMostOnce ==
    /\ \A id \in 1..NextId : Cardinality(Attempts(id)) <= 1
    /\ \A id \in Finished : done[id].outcome = "refused" => Attempts(id) = {}

(* While the program lost no transaction, none is open behind its back, and  *)
(* an Ok is kept: at once without a handle, by an Ok commit with one; an Ok  *)
(* rollback leaves nothing of its handle.                                    *)
OkIsKept ==
    /\ trusted /\ handle = None /\ call = None => ~InTransaction(session)
    /\ \A id \in Finished : LET d == done[id] IN
        /\ IsWrite(id) /\ Answered(id) /\ d.trusted /\ d.handle = None => Durable(id)
        /\ d.op \in {"commit", "rollback"} /\ Answered(id) /\ d.trusted =>
            \A w \in Finished : IsWrite(w) /\ done[w].handle = d.handle /\ Answered(w) =>
                (Durable(w) <=> d.op = "commit")

(* What executor.rs and transaction.rs promise of a write, whatever is lost. *)
WritesOnce == TypeOK /\ AppliedAtMostOnce /\ OkIsKept

(* Only reads outside a handle are sent again, at most max_retries times,    *)
(* and a transient error reaches their caller only when no retry is left.    *)
RetriesExhausted ==
    last # None =>
        LET read == last.op \in Reads /\ last.stmt.execution = "ReadOnly"
            again == IF read /\ config.retry.enabled /\ last.handle = None
                     THEN config.retry.max_retries ELSE 0
        IN last.sends <= 1 + again /\ (last.reply \in Transient => last.sends = 1 + again)

(* The delays grow with the attempt and stay under max_delay, whatever the   *)
(* attempt; with the delays the call ends within its timeout.                *)
DelaysBounded ==
    call # None =>
        /\ \A x, y \in call.delays : x[1] < y[1] => x[2] <= y[2]
        /\ \A x \in call.delays : x[2] <= config.retry.max_delay
        /\ TimeoutOf(call.op) # None => call.age <= TimeoutOf(call.op)

(* What reaches the server names exactly the parameters that go with it.     *)
ParametersMatch ==
    call # None /\ call.op \in Queries =>
        {p.index : p \in Placeholders(call.stmt)} = 1..call.stmt.params

(* What the retry loop and run_with_timeout promise of every call.           *)
CallsBounded == RetriesExhausted /\ DelaysBounded /\ ParametersMatch

(* Every attempt that was logged as started is logged as finished or failed, *)
(* save the one that was in flight when the call was abandoned.              *)
AttemptsLogged ==
    last # None =>
        LET ended == last.log.finish + last.log.error IN
        IF ~config.tracing THEN last.log.start + ended = 0
        ELSE IF last.op \in Commands
             THEN last.log.start = 0 /\ ended = (IF last.reply = "cancelled" THEN 0 ELSE 1)
        ELSE /\ last.log.start - ended \in {0, 1}
             /\ last.log.start > ended => last.reply \in {"timeout", "cancelled"}
             /\ last.reply \notin {"compile", "timeout", "cancelled"} =>
                    last.log.start = last.sends

(* A call with a timeout ends, even if the server never answers.             *)
CallsEnd == call # None /\ call.deadline # None ~> call = None
=============================================================================
