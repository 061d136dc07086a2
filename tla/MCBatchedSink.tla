--------------------------- MODULE MCBatchedSink ---------------------------
(* Instances for TLC: chunks of one on the memory backend, where consume has *)
(* to wait for a permit, and of two on the disk backend.                      *)
EXTENDS BatchedSink

MCInit == Init /\ (Backend = "memory" <=> BatchSize = 1)
MCSpec == MCInit /\ [][Next]_vars /\ Fairness
=============================================================================
