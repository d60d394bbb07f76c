----------------------------- MODULE MCSemaphore -----------------------------
(* Semaphore on small instances; the configurations give the constants.    *)
EXTENDS SemaphoreInvariant
=============================================================================
