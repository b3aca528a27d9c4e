----------------------- MODULE MCPooledTransaction -----------------------
(* A small instance of PooledTransaction.                                    *)
EXTENDS PooledTransaction, TLC

(* One closure that can be torn in two, and one that comes in between.       *)
MCMaxStatements == "d1" :> 2 @@ "d2" :> 1

(* Everything may go wrong with d1's call.  The other driver meets what that *)
(* leaves behind, and may be refused or dropped itself.                      *)
MCFaults ==
    "d1" :> FaultKinds @@ "d2" :> {"acquire", "begin", "commit", "cancel"}
      @@ "c1" :> {"acquire"}
=============================================================================
