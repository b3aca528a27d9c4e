----------------------------- MODULE MCExecutor -----------------------------
(* A small instance of Executor: connections with and without retries and a  *)
(* timeout, statements of each classification.                               *)
EXTENDS Executor

Mark(where, index) == [where |-> where, index |-> index]
Statement(execution, writes, marks, params) ==
    [execution |-> execution, writes |-> writes, marks |-> marks, params |-> params]
MCStatements == {
    Statement("Write", TRUE, {Mark("code", 1), Mark("literal", 2)}, 1),
    Statement("ReadOnly", FALSE, {}, 0),
    Statement("RawNoRetry", TRUE, {Mark("code", 1), Mark("comment", 2)}, 2)}

RetryTimes(n) == [enabled |-> TRUE, max_retries |-> n, base_delay |-> 1, max_delay |-> 2]
Config(retry, timeout, health, tracing) ==
    [retry |-> retry, query_timeout |-> timeout, health_timeout |-> health,
     tracing |-> tracing]
MCConfigs == {Config(RetryTimes(3), None, 2, TRUE), Config(RetryTimes(1), 2, None, FALSE)}
=============================================================================
