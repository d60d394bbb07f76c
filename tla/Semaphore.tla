------------------------------ MODULE Semaphore ------------------------------
(***************************************************************************)
(* The CLS semaphore of the standard library: sem_cls_wait, sem_cls_post.  *)
(* A thread takes the next credit number and enters once few enough of the *)
(* credits before its own are outstanding.  The two counters are words of  *)
(* memory; a thread learns the second one from a command it waits for, so  *)
(* what it compares may be old.                                            *)
(***************************************************************************)
EXTENDS Integers, FiniteSets

CONSTANTS
  Threads,     \* the threads of an island that use the semaphore
  max_credits,
  Modulus,     \* 2^32 in the code: the comparison is of unsigned words
  MaxClaims    \* bound: credits claimed in a run

ASSUME SemaphoreAssumption ==
  /\ IsFiniteSet(Threads) /\ Cardinality(Threads) <= Modulus
  /\ Modulus \in Nat \ {0} /\ max_credits \in Nat \ {0} /\ MaxClaims \in Nat

\* The counters are kept unbounded, and compared modulo Modulus.
VARIABLES
  next_credit, last_complete, \* struct sem
  my_credit,                  \* per thread: the credit it took
  seen,                       \* and the last_complete in its registers
  pc                          \* idle, test (the comparison), asleep, in

vars == <<next_credit, last_complete, my_credit, seen, pc>>

\* Faulty variant: one credit too many.
BlockedOffByOne(c, l) == (c - l) % Modulus > max_credits

\* max_credits is unsigned, so the difference of the two credits is as well.
Blocked(c, l) == (c - l) % Modulus >= max_credits

Waiting == {t \in Threads : pc[t] \in {"test", "asleep"}}
Inside  == {t \in Threads : pc[t] = "in"}

Init ==
  /\ next_credit = 0 /\ last_complete = 0
  /\ my_credit = [t \in Threads |-> 0] /\ seen = [t \in Threads |-> 0]
  /\ pc = [t \in Threads |-> "idle"]

\* cls_test_add: both words are read, the first one incremented, at once.
Claim(t) ==
  /\ pc[t] = "idle" /\ next_credit < MaxClaims
  /\ my_credit' = [my_credit EXCEPT ![t] = next_credit]
  /\ seen' = [seen EXCEPT ![t] = last_complete]
  /\ next_credit' = next_credit + 1
  /\ pc' = [pc EXCEPT ![t] = "test"]
  /\ UNCHANGED last_complete

Enter(t) ==
  /\ pc[t] = "test" /\ ~Blocked(my_credit[t], seen[t])
  /\ pc' = [pc EXCEPT ![t] = "in"]
  /\ UNCHANGED <<next_credit, last_complete, my_credit, seen>>

Sleep(t) ==
  /\ pc[t] = "test" /\ Blocked(my_credit[t], seen[t])
  /\ pc' = [pc EXCEPT ![t] = "asleep"]
  /\ UNCHANGED <<next_credit, last_complete, my_credit, seen>>

\* Faulty variant: the loop compares the word it has.
RereadForgets(t) ==
  /\ pc[t] = "asleep"
  /\ pc' = [pc EXCEPT ![t] = "test"]
  /\ UNCHANGED <<next_credit, last_complete, my_credit, seen>>

Reread(t) ==
  /\ pc[t] = "asleep"
  /\ seen' = [seen EXCEPT ![t] = last_complete]
  /\ pc' = [pc EXCEPT ![t] = "test"]
  /\ UNCHANGED <<next_credit, last_complete, my_credit>>

\* Faulty variant: a thread posts although it does not hold the semaphore.
PostUnclaimed(t) ==
  /\ last_complete' = last_complete + 1
  /\ pc' = [pc EXCEPT ![t] = "idle"]
  /\ UNCHANGED <<next_credit, my_credit, seen>>

\* sem_cls_post, by a thread that has the semaphore.
Post(t) ==
  /\ pc[t] = "in"
  /\ last_complete' = last_complete + 1
  /\ pc' = [pc EXCEPT ![t] = "idle"]
  /\ UNCHANGED <<next_credit, my_credit, seen>>

Next == \E t \in Threads : Claim(t) \/ Enter(t) \/ Sleep(t) \/ Reread(t) \/ Post(t)

Spec == Init /\ [][Next]_vars

(* A thread that runs goes on, its sleep ends, and who has the semaphore   *)
(* gives it back; nobody need claim it.                                    *)
Fairness ==
  \A t \in Threads : WF_vars(Enter(t) \/ Sleep(t) \/ Reread(t) \/ Post(t))

FairSpec == Spec /\ Fairness

\* No credit is completed that was not claimed.
TypeOK ==
  /\ next_credit \in Nat /\ last_complete \in Nat /\ last_complete <= next_credit
  /\ my_credit \in [Threads -> Nat] /\ seen \in [Threads -> Nat]
  /\ pc \in [Threads -> {"idle", "test", "asleep", "in"}]

(* Never more threads inside than there are credits, although a thread     *)
(* decides on a count of completions that may be old, and overtakes.       *)
AtMostMax == Cardinality(Inside) <= max_credits

(* "This function will handle credit claims in order" (synch.h): nobody    *)
(* enters before a thread with an older credit that was told to wait.      *)
InOrder ==
  [][ \A t, u \in Threads :
        Enter(t) /\ pc[u] = "asleep" => my_credit[t] < my_credit[u] ]_vars

(* "If the credits in flight are more than the total, wait" (the comment   *)
(* on the comparison): a thread goes to sleep only if, by what it knew,    *)
(* more credits were claimed and not complete than there are.              *)
SleepsOnlyWhenFull ==
  [][ \A t \in Threads : Sleep(t) => next_credit - seen[t] > max_credits ]_vars

\* Who waits gets in.
Served == \A t \in Threads : (pc[t] = "asleep") ~> (pc[t] = "in")
=============================================================================
