------------------------ MODULE TransactionContract ------------------------
(* What docs/transactions.md promises of db.transaction(closure), whatever   *)
(* connection it runs on: the closure's statements take effect together when *)
(* the call returns Ok, and not at all when it returns Err.                  *)
(*                                                                           *)
(* What it cannot promise is left to a BEGIN, COMMIT or ROLLBACK that gets   *)
(* no answer in time.  A call whose COMMIT was not answered, or whose future *)
(* is dropped, has taken effect as a whole or not at all.  And the server    *)
(* may have kept a transaction open: from then on a call may be answered Ok  *)
(* without effect.                                                           *)
CONSTANTS
    Drivers,    \* tasks that call db.transaction
    Statements  \* what their closures may execute

VARIABLES
    verdict,    \* "idle", "open", or how the last call ended
    work,       \* statements of the call that the server has executed
    effects,    \* statements of the drivers that are durable
    doubt       \* a transaction command has gone without an answer

vars == <<verdict, work, effects, doubt>>

(* "unknown" is the Err of an unanswered COMMIT, "unanswered" that of an      *)
(* unanswered BEGIN or ROLLBACK, "err" every other Err.                       *)
Results == {"ok", "err", "unknown", "unanswered", "cancelled"}

Init ==
    /\ verdict = [d \in Drivers |-> "idle"]
    /\ work = [d \in Drivers |-> {}]
    /\ effects = {}
    /\ doubt = FALSE

(* A call ends; only an answer that is missing leaves something in doubt.     *)
Settle(d, result) ==
    /\ verdict' = [verdict EXCEPT ![d] = result]
    /\ CASE result \in {"ok", "err"}             -> doubt' = doubt
         [] result \in {"unknown", "unanswered"} -> doubt' = TRUE
         [] OTHER                                -> doubt' \in {doubt, TRUE}

Call(d) ==
    /\ verdict[d] # "open"
    /\ \E result \in {"open", "err"} : verdict' = [verdict EXCEPT ![d] = result]
    /\ work' = [work EXCEPT ![d] = {}]
    /\ UNCHANGED <<effects, doubt>>

Work(d) ==
    /\ verdict[d] = "open"
    /\ \E s \in Statements : work' = [work EXCEPT ![d] = @ \cup {s}]
    /\ UNCHANGED <<verdict, effects, doubt>>

Commit(d) ==
    /\ verdict[d] = "open"
    /\ \E result \in {"ok", "unknown", "cancelled"} : Settle(d, result)
    /\ effects' = effects \cup work[d]
    /\ UNCHANGED work

Abort(d) ==
    /\ verdict[d] = "open"
    /\ \E result \in Results \ {"ok"} : Settle(d, result)
    /\ UNCHANGED <<work, effects>>

(* The call ran inside a transaction that was left open, and its COMMIT only *)
(* ended an inner level.                                                     *)
CommitInside(d) ==
    /\ verdict[d] = "open" /\ doubt
    /\ Settle(d, "ok")
    /\ UNCHANGED <<work, effects>>

(* The caller goes away while the connection is cleaned up: only the answer  *)
(* is lost.                                                                  *)
LoseAnswer(d) ==
    /\ verdict[d] \in Results \ {"cancelled"}
    /\ Settle(d, "cancelled")
    /\ UNCHANGED <<work, effects>>

Next ==
    \E d \in Drivers :
        \/ Call(d) \/ Work(d) \/ Commit(d) \/ Abort(d) \/ CommitInside(d)
        \/ LoseAnswer(d)

Spec == Init /\ [][Next]_vars
=============================================================================
