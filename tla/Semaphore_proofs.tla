--------------------------- MODULE Semaphore_proofs ---------------------------
(***************************************************************************)
(* Theorems about the semaphore, for any number of threads and credits and *)
(* counters of any width that can tell the threads apart.                  *)
(***************************************************************************)
EXTENDS SemaphoreInvariant, FiniteSetTheorems, TLAPS

\* A number below the modulus is its own remainder, and no remainder is larger.
LEMMA RemainderSmall ==
  \A x \in Int : x < Modulus /\ x % Modulus < max_credits => x < max_credits
<1> SUFFICES ASSUME NEW x \in Int, x < Modulus, x % Modulus < max_credits
    PROVE  x < max_credits
  OBVIOUS
<1>1. CASE x >= 0
  <2>1. x % Modulus = x
    BY <1>1, SemaphoreAssumption
  <2> QED
    BY <2>1
<1>2. CASE x < 0
  BY <1>2, SemaphoreAssumption
<1> QED
  BY <1>1, <1>2

\* Who is let in has a credit within reach of the completed ones.
LEMMA EntersWithinReach ==
  ASSUME SInv, NEW t \in Threads, Enter(t)
  PROVE  my_credit[t] < last_complete + max_credits
<1>1. /\ my_credit[t] \in Int /\ seen[t] \in Int /\ last_complete \in Int
      /\ seen[t] <= last_complete /\ my_credit[t] - seen[t] < Modulus
      /\ (my_credit[t] - seen[t]) % Modulus < max_credits
  BY SemaphoreAssumption DEF SInv, TypeOK, Known, Waiting, Enter, Blocked
<1>2. my_credit[t] - seen[t] < max_credits
  BY <1>1, RemainderSmall
<1> QED
  BY <1>1, <1>2, SemaphoreAssumption

\* The threads with an outstanding credit are finitely many, no more than all.
LEMMA OutstandingFinite ==
  /\ IsFiniteSet(Outstanding) /\ Cardinality(Outstanding) \in Nat
  /\ Cardinality(Outstanding) <= Cardinality(Threads) /\ Cardinality(Threads) \in Nat
<1>1. Outstanding \in SUBSET Threads
  BY DEF Outstanding
<1> QED
  BY <1>1, FS_Subset, FS_CardinalityType, SemaphoreAssumption

\* Every credit keeps its owner, and the counters count the owners.
LEMMA ClaimedStep == SInv /\ [Next]_vars => Claimed' /\ TypeOK'
<1> SUFFICES ASSUME SInv, [Next]_vars
    PROVE  Claimed' /\ TypeOK'
  OBVIOUS
<1> USE DEF SInv, TypeOK, Claimed
<1>1. ASSUME NEW t \in Threads, Claim(t) PROVE Claimed' /\ TypeOK'
  <2>1. TypeOK'
    BY <1>1 DEF Claim
  <2>2. Outstanding' = Outstanding \cup {t} /\ t \notin Outstanding
    BY <1>1 DEF Claim, Outstanding
  <2>3. Cardinality(Outstanding') = Cardinality(Outstanding) + 1
    BY <2>2, OutstandingFinite, FS_AddElement
  <2>4. \A u \in Outstanding : my_credit'[u] = my_credit[u] /\ my_credit[u] \in Nat
    BY <1>1, <2>2 DEF Claim, Outstanding
  <2>5. my_credit'[t] = next_credit
    BY <1>1 DEF Claim
  <2>6. next_credit' = next_credit + 1 /\ last_complete' = last_complete
    BY <1>1 DEF Claim
  <2>7. \A u \in Outstanding' : my_credit'[u] < next_credit'
    BY <2>2, <2>4, <2>5, <2>6
  <2>8. \A u, v \in Outstanding' : u # v => my_credit'[u] # my_credit'[v]
    BY <2>2, <2>4, <2>5
  <2>9. next_credit' - last_complete' = Cardinality(Outstanding')
    BY <2>3, <2>6, OutstandingFinite
  <2> QED
    BY <2>1, <2>7, <2>8, <2>9
<1>2. ASSUME NEW t \in Threads, Enter(t) \/ Sleep(t) \/ Reread(t)
      PROVE  Claimed' /\ TypeOK'
  <2>1. TypeOK'
    BY <1>2 DEF Enter, Sleep, Reread
  <2>2. Outstanding' = Outstanding
    BY <1>2 DEF Enter, Sleep, Reread, Outstanding
  <2> QED
    BY <1>2, <2>1, <2>2 DEF Enter, Sleep, Reread
<1>3. ASSUME NEW t \in Threads, Post(t) PROVE Claimed' /\ TypeOK'
  <2>1. Outstanding' = Outstanding \ {t} /\ t \in Outstanding
    BY <1>3 DEF Post, Outstanding
  <2>2. Cardinality(Outstanding') = Cardinality(Outstanding) - 1
    BY <2>1, OutstandingFinite, FS_RemoveElement
  <2>3. Cardinality(Outstanding') \in Nat
    <3>1. IsFiniteSet(Outstanding \ {t})
      BY OutstandingFinite, FS_RemoveElement
    <3> QED
      BY <2>1, <3>1, FS_CardinalityType
  <2>4. TypeOK'
    BY <1>3, <2>2, <2>3, OutstandingFinite DEF Post
  <2> QED
    BY <1>3, <2>1, <2>2, <2>4, OutstandingFinite DEF Post
<1>4. CASE UNCHANGED vars
  BY <1>4 DEF vars, Outstanding
<1> QED
  BY <1>1, <1>2, <1>3, <1>4 DEF Next

\* What a thread knows is at most one turn of the counters old.
LEMMA KnownStep == SInv /\ [Next]_vars => Known'
<1> SUFFICES ASSUME SInv, [Next]_vars
    PROVE  Known'
  OBVIOUS
<1> USE DEF SInv, TypeOK, Known
<1>1. ASSUME NEW t \in Threads, Claim(t) PROVE Known'
  <2>1. Outstanding \in SUBSET (Threads \ {t})
    BY <1>1 DEF Claim, Outstanding
  <2>2. IsFiniteSet(Threads \ {t}) /\ Cardinality(Threads \ {t}) = Cardinality(Threads) - 1
    BY SemaphoreAssumption, FS_RemoveElement
  <2>3. Cardinality(Outstanding) <= Cardinality(Threads) - 1
    BY <2>1, <2>2, FS_Subset
  <2>4. next_credit - last_complete < Modulus
    BY <2>3, OutstandingFinite, SemaphoreAssumption DEF Claimed
  <2>5. Waiting' \subseteq Waiting \cup {t}
    BY <1>1 DEF Claim, Waiting
  <2>6. my_credit'[t] = next_credit /\ seen'[t] = last_complete
    BY <1>1 DEF Claim
  <2>7. \A u \in Threads \ {t} : my_credit'[u] = my_credit[u] /\ seen'[u] = seen[u]
    BY <1>1 DEF Claim
  <2>8. last_complete' = last_complete
    BY <1>1 DEF Claim
  <2>9. \A u \in Waiting' : u \in Threads /\ (u = t \/ u \in Waiting)
    BY <2>5 DEF Waiting
  <2> QED
    BY <2>4, <2>6, <2>7, <2>8, <2>9
<1>2. ASSUME NEW t \in Threads, Enter(t) \/ Sleep(t) PROVE Known'
  BY <1>2 DEF Enter, Sleep, Waiting
<1>3. ASSUME NEW t \in Threads, Reread(t) PROVE Known'
  <2>1. t \in Outstanding /\ Waiting' = Waiting
    BY <1>3 DEF Reread, Outstanding, Waiting
  <2>2. my_credit[t] - last_complete < Modulus
    BY <2>1, OutstandingFinite, SemaphoreAssumption DEF Claimed
  <2> QED
    BY <1>3, <2>1, <2>2 DEF Reread, Waiting
<1>4. ASSUME NEW t \in Threads, Post(t) PROVE Known'
  BY <1>4 DEF Post, Waiting
<1>5. CASE UNCHANGED vars
  BY <1>5 DEF vars, Waiting
<1> QED
  BY <1>1, <1>2, <1>3, <1>4, <1>5 DEF Next

\* A credit that is max_credits ahead stays with a waiting thread.
LEMMA FarStep == SInv /\ [Next]_vars => FarCreditsWait'
<1> SUFFICES ASSUME SInv, [Next]_vars,
                    NEW c \in last_complete' + max_credits .. next_credit' - 1
    PROVE  \E u \in Waiting' : my_credit'[u] = c
  BY DEF FarCreditsWait
<1> USE DEF SInv, TypeOK
<1>1. ASSUME NEW t \in Threads, Claim(t) PROVE \E u \in Waiting' : my_credit'[u] = c
  <2>1. CASE c = next_credit
    BY <1>1, <2>1 DEF Claim, Waiting
  <2>2. CASE c # next_credit
    <3>1. c \in last_complete + max_credits .. next_credit - 1
      BY <1>1, <2>2, SemaphoreAssumption DEF Claim
    <3>2. PICK u \in Waiting : my_credit[u] = c
      BY <3>1 DEF FarCreditsWait
    <3> QED
      BY <1>1, <3>2 DEF Claim, Waiting
  <2> QED
    BY <2>1, <2>2
<1>2. ASSUME NEW t \in Threads, Enter(t) PROVE \E u \in Waiting' : my_credit'[u] = c
  <2>1. c \in last_complete + max_credits .. next_credit - 1
    BY <1>2 DEF Enter
  <2>2. PICK u \in Waiting : my_credit[u] = c
    BY <2>1 DEF FarCreditsWait
  <2>3. u # t
    BY <1>2, <2>1, <2>2, EntersWithinReach, SemaphoreAssumption
  <2> QED
    BY <1>2, <2>2, <2>3 DEF Enter, Waiting
<1>3. ASSUME NEW t \in Threads, Sleep(t) \/ Reread(t)
      PROVE  \E u \in Waiting' : my_credit'[u] = c
  <2>1. Waiting' = Waiting /\ my_credit' = my_credit
    BY <1>3 DEF Sleep, Reread, Waiting
  <2> QED
    BY <1>3, <2>1 DEF Sleep, Reread, FarCreditsWait
<1>4. ASSUME NEW t \in Threads, Post(t) PROVE \E u \in Waiting' : my_credit'[u] = c
  <2>1. c \in last_complete + max_credits .. next_credit - 1
    BY <1>4, SemaphoreAssumption DEF Post
  <2>2. PICK u \in Waiting : my_credit[u] = c
    BY <2>1 DEF FarCreditsWait
  <2> QED
    BY <1>4, <2>2 DEF Post, Waiting
<1>5. CASE UNCHANGED vars
  BY <1>5 DEF vars, Waiting, FarCreditsWait
<1> QED
  BY <1>1, <1>2, <1>3, <1>4, <1>5 DEF Next

\* Nothing is claimed in the first state.
LEMMA SInvInit == Init => SInv
<1> SUFFICES ASSUME Init
    PROVE  SInv
  OBVIOUS
<1>1. Outstanding = {} /\ Waiting = {}
  BY DEF Init, Outstanding, Waiting
<1>2. Cardinality(Outstanding) = 0
  BY <1>1, FS_EmptySet
<1>3. TypeOK
  BY DEF Init, TypeOK
<1>4. Claimed /\ Known
  BY <1>1, <1>2 DEF Init, Claimed, Known
<1>5. FarCreditsWait
  BY SemaphoreAssumption DEF Init, FarCreditsWait
<1> QED
  BY <1>3, <1>4, <1>5 DEF SInv

\* The invariant of the semaphore always holds.
LEMMA SInvCorrect == Spec => []SInv
<1>1. SInv /\ [Next]_vars => SInv'
  BY ClaimedStep, KnownStep, FarStep DEF SInv
<1> QED
  BY <1>1, SInvInit, PTL DEF Spec

\* The counters and registers keep their types; no credit is completed that
\* was not claimed.
THEOREM SemaphoreTypes == Spec => []TypeOK
<1>1. SInv => TypeOK
  BY DEF SInv
<1> QED
  BY <1>1, SInvCorrect, PTL

(* The credits that are max_credits or more ahead need a waiting thread    *)
(* each, which leaves at most max_credits of the outstanding ones to those *)
(* inside.                                                                 *)
LEMMA InsideBounded == SInv => AtMostMax
<1> SUFFICES ASSUME SInv
    PROVE  Cardinality(Inside) <= max_credits
  BY DEF AtMostMax
<1>1. /\ IsFiniteSet(Inside) /\ Cardinality(Inside) \in Nat
      /\ Cardinality(Inside) <= Cardinality(Outstanding)
  <2>1. Inside \in SUBSET Outstanding
    BY DEF Inside, Outstanding
  <2> QED
    BY <2>1, OutstandingFinite, FS_Subset, FS_CardinalityType
<1>2. IsFiniteSet(Waiting) /\ Cardinality(Waiting) \in Nat
  <2>1. Waiting \in SUBSET Outstanding
    BY DEF Waiting, Outstanding
  <2> QED
    BY <2>1, OutstandingFinite, FS_Subset, FS_CardinalityType
<1>3. Cardinality(Outstanding) = Cardinality(Waiting) + Cardinality(Inside)
  <2>1. Outstanding = Waiting \cup Inside /\ Waiting \cap Inside = {}
    BY DEF SInv, TypeOK, Outstanding, Waiting, Inside
  <2>2. Cardinality(Waiting \cap Inside) = 0
    BY <2>1, FS_EmptySet
  <2>3. Cardinality(Waiting \cup Inside)
          = Cardinality(Waiting) + Cardinality(Inside) - Cardinality(Waiting \cap Inside)
    BY <1>1, <1>2, FS_Union, Zenon
  <2> QED
    BY <1>1, <1>2, <2>1, <2>2, <2>3
<1>4. next_credit - last_complete = Cardinality(Outstanding)
  BY DEF SInv, Claimed
<1>5. next_credit \in Nat /\ last_complete \in Nat /\ max_credits \in Nat
  BY SemaphoreAssumption DEF SInv, TypeOK
<1>6. CASE next_credit - last_complete <= max_credits
  BY <1>1, <1>4, <1>5, <1>6, OutstandingFinite
<1>7. CASE next_credit - last_complete > max_credits
  <2> DEFINE Far   == last_complete + max_credits .. next_credit - 1
             owner == [c \in Far |-> CHOOSE t \in Waiting : my_credit[t] = c]
  <2>1. \A c \in Far : owner[c] \in Waiting /\ my_credit[owner[c]] = c
    BY DEF SInv, FarCreditsWait
  <2>2. owner \in Injection(Far, Waiting)
    <3> HIDE DEF Far
    <3>1. owner \in [Far -> Waiting]
      BY <2>1
    <3>2. \A a, b \in Far : owner[a] = owner[b] => a = b
      BY <2>1
    <3> QED
      BY <3>1, <3>2 DEF Injection, IsInjective
  <2>3. Cardinality(Far) <= Cardinality(Waiting)
    BY <1>2, <2>2, FS_Injection
  <2>4. Cardinality(Far) = next_credit - last_complete - max_credits
    BY <1>5, <1>7, FS_Interval
  <2> QED
    BY <1>1, <1>2, <1>3, <1>4, <1>5, <2>3, <2>4
<1> QED
  BY <1>4, <1>5, <1>6, <1>7

\* Never more threads inside than there are credits.
THEOREM SemaphoreSafe == Spec => []AtMostMax
  BY InsideBounded, SInvCorrect, PTL

(***************************************************************************)
(* A semaphore with one credit.                                            *)
(***************************************************************************)

\* With one credit, who enters has the oldest.
LEMMA EntersOldest ==
  ASSUME max_credits = 1, MutexInv, NEW t \in Threads, Enter(t)
  PROVE  my_credit[t] = last_complete
<1>1. my_credit[t] < last_complete + 1
  BY EntersWithinReach DEF MutexInv
<1>2. my_credit[t] >= last_complete /\ my_credit[t] \in Nat /\ last_complete \in Nat
  BY DEF MutexInv, SInv, TypeOK, OldestInside, Waiting, Enter
<1> QED
  BY <1>1, <1>2

\* The oldest credit is inside, and leaves the next one the oldest.
LEMMA OldestStep == max_credits = 1 /\ MutexInv /\ [Next]_vars => OldestInside'
<1> SUFFICES ASSUME max_credits = 1, MutexInv, [Next]_vars
    PROVE  OldestInside'
  OBVIOUS
<1> USE DEF MutexInv, SInv, TypeOK, OldestInside
<1>1. ASSUME NEW t \in Threads, Claim(t) PROVE OldestInside'
  BY <1>1 DEF Claim, Waiting, Inside
<1>2. ASSUME NEW t \in Threads, Enter(t) PROVE OldestInside'
  <2>1. my_credit[t] = last_complete
    BY <1>2, EntersOldest
  <2> QED
    BY <1>2, <2>1 DEF Enter, Waiting, Inside
<1>3. ASSUME NEW t \in Threads, Sleep(t) \/ Reread(t) PROVE OldestInside'
  BY <1>3 DEF Sleep, Reread, Waiting, Inside
<1>4. ASSUME NEW t \in Threads, Post(t) PROVE OldestInside'
  <2>1. t \in Inside /\ t \in Outstanding
    BY <1>4 DEF Post, Inside, Outstanding
  <2>2. \A u \in Threads \ {t} : pc'[u] = pc[u]
    BY <1>4 DEF Post
  <2>3. \A u \in Inside' : u \in Inside /\ u \in Outstanding /\ u # t
    BY <1>4, <2>2 DEF Post, Inside, Outstanding
  <2>4. Inside' = {}
    BY <2>1, <2>3 DEF Claimed
  <2>5. \A u \in Waiting' : u \in Waiting /\ u \in Outstanding /\ u # t
    BY <1>4, <2>2 DEF Post, Waiting, Outstanding
  <2>6. \A u \in Waiting' : my_credit[u] # last_complete
    BY <2>1, <2>5 DEF Claimed
  <2>7. \A u \in Waiting' : my_credit[u] >= last_complete + 1 /\ u \in Threads
    BY <2>5, <2>6 DEF Waiting
  <2> QED
    BY <1>4, <2>4, <2>7 DEF Post
<1>5. CASE UNCHANGED vars
  BY <1>5 DEF vars, Waiting, Inside
<1> QED
  BY <1>1, <1>2, <1>3, <1>4, <1>5 DEF Next

\* One step in order: the body of InOrder.
OrderedStep ==
  \A t, u \in Threads :
    Enter(t) /\ pc[u] = "asleep" => my_credit[t] < my_credit[u]

\* With one credit a step lets in the oldest of those that wait.
LEMMA OrderedStepHolds == max_credits = 1 /\ MutexInv => OrderedStep
<1> SUFFICES ASSUME max_credits = 1, MutexInv,
                    NEW t \in Threads, NEW u \in Threads, Enter(t), pc[u] = "asleep"
    PROVE  my_credit[t] < my_credit[u]
  BY DEF OrderedStep
<1>1. my_credit[t] = last_complete
  BY EntersOldest
<1>2. my_credit[u] >= last_complete /\ u \in Outstanding /\ t \in Outstanding /\ t # u
  BY DEF MutexInv, OldestInside, Waiting, Outstanding, Enter
<1>3. my_credit[t] # my_credit[u] /\ my_credit[u] \in Nat /\ last_complete \in Nat
  BY <1>2 DEF MutexInv, SInv, Claimed, TypeOK
<1> QED
  BY <1>1, <1>2, <1>3

(* A semaphore with one credit handles the claims in order, as synch.h     *)
(* says of every semaphore.                                                *)
THEOREM MutexOrdered ==
  ASSUME max_credits = 1
  PROVE  Spec => InOrder
<1>1. Init => MutexInv
  BY SInvInit DEF Init, MutexInv, OldestInside, Waiting, Inside
<1>2. MutexInv /\ [Next]_vars => MutexInv'
  BY OldestStep, ClaimedStep, KnownStep, FarStep DEF MutexInv, SInv
<1>3. MutexInv => OrderedStep
  BY OrderedStepHolds
<1>4. Spec => [][OrderedStep]_vars
  BY <1>1, <1>2, <1>3, PTL DEF Spec
<1> QED
  BY <1>4 DEF InOrder, OrderedStep
=============================================================================
