---------------------------- MODULE SqlSession ----------------------------
(* One SQL Server session as the ORM uses it: the transaction nesting       *)
(* counter (@@TRANCOUNT), the statements of the open transaction, the retry *)
(* option of the MssqlConnection that wraps the session, and whether every  *)
(* BEGIN, COMMIT and ROLLBACK sent so far was answered (`sure`, of which    *)
(* the code keeps no record).  The server is not part of the repository:    *)
(* these operators say what crates/sql-orm-tiberius/src/transaction.rs      *)
(* relies on when it sends the three as plain batches.                      *)
EXTENDS Naturals

(* Sessions whose open transaction holds some of the statements S.           *)
SessionsOver(S) == [count : Nat, pending : SUBSET S, retry : BOOLEAN, sure : BOOLEAN]

(* A session with no transaction open, and the configured retry options.    *)
FreshSession == [count |-> 0, pending |-> {}, retry |-> TRUE, sure |-> TRUE]

InTransaction(s) == s.count > 0

(* BEGIN TRANSACTION nests: it only counts.                                 *)
BeginTran(s) == [s EXCEPT !.count = @ + 1]

(* COMMIT TRANSACTION of an inner level only uncounts; the outermost one    *)
(* makes the pending statements durable.                                    *)
CommitTran(s) ==
    [s EXCEPT !.count = @ - 1, !.pending = IF s.count = 1 THEN {} ELSE @]
MadeDurable(s) == IF s.count = 1 THEN s.pending ELSE {}

(* ROLLBACK TRANSACTION, or an error that aborts the transaction (deadlock  *)
(* victim), ends every level.                                               *)
RollbackTran(s) == [s EXCEPT !.count = 0, !.pending = {}]

(* A statement joins the open transaction, or is its own transaction.       *)
JoinTran(s, x) == IF InTransaction(s) THEN [s EXCEPT !.pending = @ \cup {x}] ELSE s
AutoCommitted(s, x) == IF InTransaction(s) THEN {} ELSE {x}

(* run_transaction_command ran into query_timeout or lost its answer, or its *)
(* future was dropped: the client does not learn what the session became.    *)
Unsure(s) == [s EXCEPT !.sure = FALSE]

(* MssqlConnection::replace_retry_options.                                  *)
WithRetry(s, r) == [s EXCEPT !.retry = r]
=============================================================================
