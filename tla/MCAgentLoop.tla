----------------------------- MODULE MCAgentLoop -----------------------------
(* Batches of one and two calls under two signatures, an exempt one and one *)
(* that pauses the session.                                                 *)
EXTENDS AgentLoop

MCBatch(s, n, ex, pa) ==
    [sig |-> s, calls |-> n, exempt |-> ex, pauses |-> pa]

Edit  == MCBatch("edit", 1, FALSE, FALSE)
Reads == MCBatch("reads", 2, FALSE, FALSE)
Poll  == MCBatch("poll", 1, TRUE, FALSE)
Ask   == MCBatch("ask", 1, FALSE, TRUE)

MCBatches == {Edit, Reads, Poll, Ask}
MCBatchesNoPause == {Edit, Reads, Poll}
=============================================================================
