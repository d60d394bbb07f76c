-------------------------- MODULE MCSemaphoreSafety --------------------------
(***************************************************************************)
(* The semaphore with max_credits credits, and with a single one, as a     *)
(* mutex: what only a mutex promises is stated for that case.              *)
(***************************************************************************)
EXTENDS MCSemaphore

VARIABLE mutex

One == INSTANCE Semaphore WITH max_credits <- 1

MCInit == Init /\ mutex \in BOOLEAN

MCNext == UNCHANGED mutex /\ ((~mutex /\ Next) \/ (mutex /\ One!Next))

\* The fairness of Semaphore, in the case of a mutex, where it is needed.
MCSpec ==
  /\ MCInit /\ [][MCNext]_<<vars, mutex>>
  /\ \A t \in Threads :
       WF_vars(mutex /\ UNCHANGED mutex
               /\ (One!Enter(t) \/ One!Sleep(t) \/ One!Reread(t) \/ One!Post(t)))


(* "This function will handle credit claims in order" (synch.h): with one  *)
(* credit nobody enters before a thread with an older credit.              *)
MutexInOrder ==
  [][ mutex => \A t, u \in Threads :
        One!Enter(t) /\ pc[u] = "asleep" => my_credit[t] < my_credit[u] ]_vars

\* With one credit who waits gets in.
MutexServed == \A t \in Threads : (mutex /\ pc[t] = "asleep") ~> (pc[t] = "in")
=============================================================================
