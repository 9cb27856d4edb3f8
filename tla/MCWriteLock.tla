---------------------------- MODULE MCWriteLock ----------------------------
(* Two threads of one harness process and one thread of another.            *)
EXTENDS WriteLock

MCProcOf == [t \in {"a1", "a2", "b1"} |-> IF t = "b1" THEN "b" ELSE "a"]
=============================================================================
