-------------------------- MODULE SemaphoreInvariant --------------------------
(***************************************************************************)
(* The inductive invariants of the semaphore.                              *)
(***************************************************************************)
EXTENDS Semaphore

Outstanding == {t \in Threads : pc[t] # "idle"}

\* Every credit claimed and not complete belongs to a thread, each to its own.
Claimed ==
  /\ next_credit - last_complete = Cardinality(Outstanding)
  /\ \A t \in Outstanding : my_credit[t] < next_credit
  /\ \A t, u \in Outstanding : t # u => my_credit[t] # my_credit[u]

\* What a thread knows may be old, but its credit is less than one turn ahead.
Known ==
  \A t \in Waiting :
    seen[t] <= last_complete /\ my_credit[t] - seen[t] < Modulus

\* The credits that are max_credits or more ahead are waiting: none was
\* let in.
FarCreditsWait ==
  \A c \in last_complete + max_credits .. next_credit - 1 :
    \E t \in Waiting : my_credit[t] = c

SInv == TypeOK /\ Claimed /\ Known /\ FarCreditsWait

(* With one credit nobody is overtaken: the thread inside has the oldest   *)
(* credit, and the waiting ones follow.                                    *)
OldestInside ==
  /\ \A t \in Inside : my_credit[t] = last_complete
  /\ \A t \in Waiting : my_credit[t] >= last_complete

MutexInv == SInv /\ OldestInside
=============================================================================
