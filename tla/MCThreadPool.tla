---------------------------- MODULE MCThreadPool ----------------------------
(* Small pools for TLC: two tasks of different priority. *)
EXTENDS ThreadPool, TLC

CONSTANTS t1, t2

MCPriority == [t \in Tasks |-> IF t = t1 THEN 2 ELSE 3]
=============================================================================
