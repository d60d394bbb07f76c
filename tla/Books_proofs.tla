------------------------------ MODULE Books_proofs ------------------------------
(***************************************************************************)
(* The books balance: the credits for CTM packets, the frames, octets and  *)
(* drops of the MAC statistics, for any number of threads and any sizes    *)
(* the assumptions allow.  The four parts share the laws of sums (Sums)    *)
(* and nothing else.                                                       *)
(***************************************************************************)
EXTENDS MCBooks, Sums

(***************************************************************************)
(* Credits: no packet or buffer credit is lost or duplicated, whatever the *)
(* threads ask for and in whatever order their commands and the packet     *)
(* engine's answers come.  What the threads hold between them is the size  *)
(* of a set of units (Held), so that sums over threads are cardinalities.  *)
(***************************************************************************)
IInv == TypeOK /\ RegistersRight /\ CreditsConserved

-----------------------------------------------------------------------------
(* The units of one thread, and how many they are. *)
Own(t, n) == {t} \X (1 .. n)

LEMMA OwnSize ==
  ASSUME NEW t, NEW n \in Nat
  PROVE  IsFiniteSet(Own(t, n)) /\ Cardinality(Own(t, n)) = n
<1> DEFINE b == [k \in 1 .. n |-> <<t, k>>]
<1>a. \A k \in 1 .. n : b[k] = <<t, k>>
  OBVIOUS
<1>b. b \in [1 .. n -> Own(t, n)]
  BY DEF Own
<1>c. \A j, k \in 1 .. n : b[j] = b[k] => j = k
  BY <1>a
<1>d. \A x \in Own(t, n) : \E k \in 1 .. n : b[k] = x
  BY <1>a DEF Own
<1> HIDE DEF b
<1>1. b \in Bijection(1 .. n, Own(t, n))
  BY <1>b, <1>c, <1>d DEF Bijection, Injection, Surjection, IsInjective
<1>2. IsFiniteSet(1 .. n) /\ Cardinality(1 .. n) = n
  BY FS_Interval
<1>3. ExistsBijection(1 .. n, Own(t, n))
  BY <1>1 DEF ExistsBijection
<1> QED BY <1>2, <1>3, FS_Bijection

(* All units together are finitely many. *)
LEMMA UnitsFinite ==
  ASSUME NEW f \in [Threads -> Nat]
  PROVE  IsFiniteSet(Units(f))
<1> DEFINE S == {Own(t, f[t]) : t \in Threads}
           g == [t \in Threads |-> Own(t, f[t])]
<1>1. g \in Surjection(Threads, S)
  BY DEF Surjection
<1>2. IsFiniteSet(S)
  BY <1>1, CreditsAssumption, FS_Surjection
<1>3. \A T \in S : IsFiniteSet(T)
  BY OwnSize
<1>4. Units(f) = UNION S
  BY DEF Units, Own
<1> QED BY <1>2, <1>3, <1>4, FS_UNION

(* When one thread's share changes, what is held changes by as much. *)
LEMMA HeldChanges ==
  ASSUME NEW f \in [Threads -> Nat], NEW t \in Threads, NEW n \in Nat
  PROVE  /\ Held(f) \in Nat
         /\ Held([f EXCEPT ![t] = n]) = Held(f) - f[t] + n
<1> DEFINE g == [f EXCEPT ![t] = n]
           Rest == Units(f) \ Own(t, f[t])
<1>1. IsFiniteSet(Units(f)) /\ Held(f) \in Nat
  BY UnitsFinite, FS_CardinalityType DEF Held
<1>2. IsFiniteSet(Rest)
  BY <1>1, FS_Difference
<1>3. Cardinality(Rest) \in Nat
  BY <1>2, FS_CardinalityType
<1>4. \A x : x \in Rest <=> \E s \in Threads \ {t} : x \in {s} \X (1 .. f[s])
  BY DEF Units, Own
<1>5. Units(f) = Rest \cup Own(t, f[t])
  BY DEF Units, Own
<1>6. Units(g) = Rest \cup Own(t, n)
  <2>1. \A s \in Threads \ {t} : g[s] = f[s]
    OBVIOUS
  <2>2. g[t] = n
    OBVIOUS
  <2> HIDE DEF g, Rest
  <2>3. \A x : x \in Units(g) <=> x \in Rest \/ x \in Own(t, n)
    <3>1. \A x : x \in Units(g) <=> \E s \in Threads : x \in {s} \X (1 .. g[s])
      BY DEF Units
    <3>2. \A x : x \in Own(t, n) <=> x \in {t} \X (1 .. g[t])
      BY <2>2 DEF Own
    <3>3. \A x : x \in Rest <=> \E s \in Threads \ {t} : x \in {s} \X (1 .. g[s])
      BY <1>4, <2>1
    <3> QED BY <3>1, <3>2, <3>3
  <2> QED BY <2>3
<1>7. Rest \cap Own(t, f[t]) = {} /\ Rest \cap Own(t, n) = {}
  BY <1>4 DEF Own
<1>8. f[t] \in Nat
  OBVIOUS
<1> HIDE DEF g, Rest
<1>s. ASSUME NEW k \in Nat, Rest \cap Own(t, k) = {}
      PROVE  Cardinality(Rest \cup Own(t, k)) = Cardinality(Rest) + k
  <2>1. IsFiniteSet(Own(t, k)) /\ Cardinality(Own(t, k)) = k
    BY OwnSize
  <2>2. Cardinality(Rest \cup Own(t, k))
          = Cardinality(Rest) + Cardinality(Own(t, k)) - Cardinality(Rest \cap Own(t, k))
    BY <1>2, <2>1, FS_Union
  <2>3. Cardinality(Rest \cap Own(t, k)) = 0
    BY <1>s, FS_EmptySet
  <2> QED BY <1>3, <2>1, <2>2, <2>3
<1>9. Held(f) = Cardinality(Rest) + f[t]
  BY <1>5, <1>7, <1>8, <1>s DEF Held
<1>10. Held(g) = Cardinality(Rest) + n
  BY <1>6, <1>7, <1>s DEF Held
<1> QED BY <1>1, <1>3, <1>8, <1>9, <1>10 DEF g

(* The same for the two words of what the threads hold. *)
LEMMA HoldChanges ==
  ASSUME hold \in [Threads -> Amounts], NEW t \in Threads, NEW h \in Amounts,
         hold' = [hold EXCEPT ![t] = h]
  PROVE  /\ Held(PktsHeld) \in Nat /\ Held(BufsHeld) \in Nat
         /\ Held(PktsHeld)' = Held(PktsHeld) - hold[t].pkts + h.pkts
         /\ Held(BufsHeld)' = Held(BufsHeld) - hold[t].bufs + h.bufs
<1>1. \A s \in Threads : hold[s].pkts \in Nat /\ hold[s].bufs \in Nat
  BY DEF Amounts
<1>2. h.pkts \in Nat /\ h.bufs \in Nat
  BY DEF Amounts
<1>3. PktsHeld \in [Threads -> Nat] /\ BufsHeld \in [Threads -> Nat]
  BY <1>1 DEF PktsHeld, BufsHeld
<1>4. PktsHeld' = [PktsHeld EXCEPT ![t] = h.pkts]
  BY DEF PktsHeld
<1>5. BufsHeld' = [BufsHeld EXCEPT ![t] = h.bufs]
  BY DEF BufsHeld
<1>6. PktsHeld[t] = hold[t].pkts /\ BufsHeld[t] = hold[t].bufs
  BY DEF PktsHeld, BufsHeld
<1>7. Held(PktsHeld)' = Held(PktsHeld') /\ Held(BufsHeld)' = Held(BufsHeld')
  BY DEF Held, Units
<1>8. /\ Held(PktsHeld) \in Nat
      /\ Held([PktsHeld EXCEPT ![t] = h.pkts]) = Held(PktsHeld) - PktsHeld[t] + h.pkts
  BY <1>2, <1>3, HeldChanges
<1>9. /\ Held(BufsHeld) \in Nat
      /\ Held([BufsHeld EXCEPT ![t] = h.bufs]) = Held(BufsHeld) - BufsHeld[t] + h.bufs
  BY <1>2, <1>3, HeldChanges
<1>10. Held(PktsHeld)' = Held(PktsHeld) - hold[t].pkts + h.pkts
  BY <1>4, <1>6, <1>7, <1>8
<1>11. Held(BufsHeld)' = Held(BufsHeld) - hold[t].bufs + h.bufs
  BY <1>5, <1>6, <1>7, <1>9
<1> QED BY <1>8, <1>9, <1>10, <1>11

-----------------------------------------------------------------------------
(* The invariant holds at first: nobody holds anything. *)
LEMMA InitIInv == Init => IInv
<1> SUFFICES ASSUME Init PROVE IInv
  OBVIOUS
<1> USE DEF Init
<1>1. None \in Amounts /\ [pkts |-> InitPkts, bufs |-> InitBufs] \in Amounts
  BY CreditsAssumption DEF None, Amounts
<1>2. TypeOK
  BY <1>1 DEF TypeOK, Labels
<1>3. RegistersRight
  BY DEF RegistersRight, Right, None
<1>4. Units(PktsHeld) = {} /\ Units(BufsHeld) = {}
  <2>1. \A t \in Threads : PktsHeld[t] = 0 /\ BufsHeld[t] = 0
    BY DEF PktsHeld, BufsHeld, None
  <2> QED BY <2>1 DEF Units
<1>5. Held(PktsHeld) = 0 /\ Held(BufsHeld) = 0
  BY <1>4, FS_EmptySet DEF Held
<1>6. CreditsConserved
  BY <1>5, CreditsAssumption DEF CreditsConserved, None
<1> QED BY <1>2, <1>3, <1>6 DEF IInv

(* Amounts can be added, and taken from larger ones. *)
LEMMA AmountsPlus ==
  ASSUME NEW x \in Amounts, NEW y \in Amounts
  PROVE  /\ Plus(x, y) \in Amounts
         /\ Plus(x, y).pkts = x.pkts + y.pkts /\ Plus(x, y).bufs = x.bufs + y.bufs
BY DEF Plus, Amounts

LEMMA AmountsMinus ==
  ASSUME NEW x \in Amounts, NEW y \in Amounts, x.pkts >= y.pkts, x.bufs >= y.bufs
  PROVE  /\ Minus(x, y) \in Amounts
         /\ Minus(x, y).pkts = x.pkts - y.pkts /\ Minus(x, y).bufs = x.bufs - y.bufs
BY DEF Minus, Amounts

LEMMA AmountsTaken ==
  ASSUME credits \in Amounts, NEW asked \in Amounts
  PROVE  /\ Taken(asked) \in Amounts
         /\ credits.pkts >= Taken(asked).pkts /\ credits.bufs >= Taken(asked).bufs
BY DEF Taken, Lesser, Amounts

(* A thread's step that leaves its own registers right and moves credits   *)
(* without losing any keeps the invariant, whatever the others hold. *)
LEMMA ThreadStep ==
  ASSUME IInv, NEW t \in Threads, NEW l \in Labels, NEW h \in Amounts, NEW w \in Amounts,
         pc' = [pc EXCEPT ![t] = l], hold' = [hold EXCEPT ![t] = h],
         want' = [want EXCEPT ![t] = w], Right(l, h, w),
         internal' \in [Threads -> BOOLEAN],
         credits' \in Amounts, freed' \in Amounts, lost' \in Amounts,
         live' \in Nat, used' \in 0 .. live', live' > 0 => used' > 0,
         credits'.pkts + h.pkts + live' + freed'.pkts + lost'.pkts
           = credits.pkts + hold[t].pkts + live + freed.pkts + lost.pkts,
         credits'.bufs + h.bufs + used' + freed'.bufs + lost'.bufs
           = credits.bufs + hold[t].bufs + used + freed.bufs + lost.bufs
  PROVE  IInv'
<1>1. TypeOK /\ RegistersRight /\ CreditsConserved
  BY DEF IInv
<1>2. TypeOK'
  BY <1>1 DEF TypeOK
<1>3. RegistersRight'
  <2>1. \A s \in Threads : Right(pc[s], hold[s], want[s])'
    <3> SUFFICES ASSUME NEW s \in Threads PROVE Right(pc'[s], hold'[s], want'[s])
      BY DEF Right
    <3>1. CASE s = t
      <4>1. pc'[s] = l /\ hold'[s] = h /\ want'[s] = w
        BY <1>1, <3>1 DEF TypeOK
      <4> QED BY <4>1
    <3>2. CASE s # t
      <4>1. pc'[s] = pc[s] /\ hold'[s] = hold[s] /\ want'[s] = want[s]
        BY <1>1, <3>2 DEF TypeOK
      <4>2. Right(pc[s], hold[s], want[s])
        BY <1>1 DEF RegistersRight
      <4> QED BY <4>1, <4>2
    <3> QED BY <3>1, <3>2
  <2> QED BY <2>1 DEF RegistersRight
<1>4. /\ Held(PktsHeld) \in Nat /\ Held(BufsHeld) \in Nat
      /\ Held(PktsHeld)' = Held(PktsHeld) - hold[t].pkts + h.pkts
      /\ Held(BufsHeld)' = Held(BufsHeld) - hold[t].bufs + h.bufs
  BY <1>1, HoldChanges DEF TypeOK
<1>5. CreditsConserved'
  <2>1. /\ credits \in Amounts /\ freed \in Amounts /\ lost \in Amounts /\ hold[t] \in Amounts
        /\ live \in Nat /\ used \in Nat /\ used' \in Nat
    BY <1>1 DEF TypeOK
  <2>2. /\ credits.pkts \in Nat /\ credits.bufs \in Nat /\ h.pkts \in Nat /\ h.bufs \in Nat
        /\ freed.pkts \in Nat /\ freed.bufs \in Nat /\ lost.pkts \in Nat /\ lost.bufs \in Nat
        /\ hold[t].pkts \in Nat /\ hold[t].bufs \in Nat
        /\ credits'.pkts \in Nat /\ credits'.bufs \in Nat
        /\ freed'.pkts \in Nat /\ freed'.bufs \in Nat /\ lost'.pkts \in Nat /\ lost'.bufs \in Nat
    BY <2>1 DEF Amounts
  <2>3. /\ credits.pkts + Held(PktsHeld) + live + freed.pkts + lost.pkts = InitPkts
        /\ credits.bufs + Held(BufsHeld) + used + freed.bufs + lost.bufs = InitBufs
    BY <1>1 DEF CreditsConserved
  <2>4. /\ credits'.pkts + Held(PktsHeld)' + live' + freed'.pkts + lost'.pkts = InitPkts
        /\ credits'.bufs + Held(BufsHeld)' + used' + freed'.bufs + lost'.bufs = InitBufs
    BY <1>4, <2>1, <2>2, <2>3
  <2> QED BY <2>4 DEF CreditsConserved
<1> QED BY <1>2, <1>3, <1>5 DEF IInv

(* What is known of a thread in every state. *)
LEMMA ThreadFacts ==
  ASSUME IInv, NEW t \in Threads
  PROVE  /\ hold[t] \in Amounts /\ want[t] \in Amounts /\ Right(pc[t], hold[t], want[t])
         /\ hold = [hold EXCEPT ![t] = hold[t]] /\ want = [want EXCEPT ![t] = want[t]]
         /\ pc[t] \in Labels /\ pc = [pc EXCEPT ![t] = pc[t]]
         /\ internal \in [Threads -> BOOLEAN]
         /\ credits \in Amounts /\ freed \in Amounts /\ lost \in Amounts
         /\ live \in Nat /\ used \in 0 .. live /\ (live > 0 => used > 0)
         /\ None \in Amounts /\ None.pkts = 0 /\ None.bufs = 0
BY DEF IInv, TypeOK, RegistersRight, None, Amounts

LEMMA AmountsNat ==
  ASSUME NEW x \in Amounts
  PROVE  x.pkts \in Nat /\ x.bufs \in Nat
BY DEF Amounts

(* A subtraction moves credits from the structure to registers that hold   *)
(* nothing. *)
LEMMA SubsatStep ==
  ASSUME IInv, NEW t \in Threads, NEW asked \in Amounts, TestSubsat(t, asked),
         asked.pkts > 0, asked.pkts = asked.bufs, hold[t] = None,
         want' = [want EXCEPT ![t] = asked],
         internal' \in [Threads -> BOOLEAN], UNCHANGED <<pe, lost>>
  PROVE  IInv'
<1> DEFINE h == Taken(asked)
<1>1. h \in Amounts /\ credits.pkts >= h.pkts /\ credits.bufs >= h.bufs
  BY ThreadFacts, AmountsTaken
<1> HIDE DEF h
<1>2. /\ credits' = Minus(credits, h)
      /\ hold' = [hold EXCEPT ![t] = h] /\ pc' = [pc EXCEPT ![t] = "check"]
  BY DEF TestSubsat, h
<1>3. /\ credits' \in Amounts
      /\ credits'.pkts = credits.pkts - h.pkts /\ credits'.bufs = credits.bufs - h.bufs
  BY <1>1, <1>2, ThreadFacts, AmountsMinus
<1>4. "check" \in Labels /\ Right("check", h, asked)
  BY DEF Labels, Right
<1>5. freed' = freed /\ lost' = lost /\ live' = live /\ used' = used
  BY DEF pe
<1>6. /\ credits'.pkts + h.pkts + live + freed.pkts + lost.pkts
           = credits.pkts + hold[t].pkts + live + freed.pkts + lost.pkts
      /\ credits'.bufs + h.bufs + used + freed.bufs + lost.bufs
           = credits.bufs + hold[t].bufs + used + freed.bufs + lost.bufs
  BY <1>1, <1>3, ThreadFacts, AmountsNat
<1> QED BY <1>1, <1>2, <1>3, <1>4, <1>5, <1>6, ThreadFacts, ThreadStep

LEMMA AskedStep ==
  ASSUME IInv, NEW t \in Threads,
         AllocInternal(t) \/ Retry(t) \/ \E n \in Bulk : GetCredits(t, n)
  PROVE  IInv'
<1>1. CASE AllocInternal(t)
  <2> DEFINE one == [pkts |-> 1, bufs |-> 1]
  <2>1. one \in Amounts /\ one.pkts > 0 /\ one.pkts = one.bufs
    BY DEF Amounts
  <2>2. hold[t] = None
    BY <1>1, ThreadFacts DEF AllocInternal, Right
  <2>3. internal' \in [Threads -> BOOLEAN]
    BY <1>1, ThreadFacts DEF AllocInternal
  <2>4. TestSubsat(t, one) /\ want' = [want EXCEPT ![t] = one] /\ UNCHANGED <<pe, lost>>
    BY <1>1 DEF AllocInternal
  <2> HIDE DEF one
  <2> QED BY <2>1, <2>2, <2>3, <2>4, SubsatStep
<1>2. CASE Retry(t)
  <2>1. want[t].pkts > 0 /\ want[t].pkts = want[t].bufs /\ hold[t] = None
    BY <1>2, ThreadFacts DEF Retry, Right
  <2>2. want' = [want EXCEPT ![t] = want[t]] /\ internal' = internal
    BY <1>2, ThreadFacts DEF Retry
  <2> QED BY <1>2, <2>1, <2>2, ThreadFacts, SubsatStep DEF Retry
<1>3. CASE \E n \in Bulk : GetCredits(t, n)
  <2> PICK n \in Bulk : GetCredits(t, n)
    BY <1>3
  <2>1. n \in Nat \ {0}
    BY CreditsAssumption
  <2>2. [pkts |-> n, bufs |-> n] \in Amounts /\ n > 0
    BY <2>1 DEF Amounts
  <2>3. hold[t] = None
    BY ThreadFacts DEF GetCredits, Right
  <2>4. internal' \in [Threads -> BOOLEAN]
    BY ThreadFacts DEF GetCredits
  <2> QED BY <2>2, <2>3, <2>4, SubsatStep DEF GetCredits
<1> QED BY <1>1, <1>2, <1>3

(* A thread that only goes to another label keeps its registers. *)
LEMMA MovedStep ==
  ASSUME IInv, NEW t \in Threads, NEW l \in Labels, pc' = [pc EXCEPT ![t] = l],
         Right(l, hold[t], want[t]), UNCHANGED <<credits, want, hold, internal, pe, lost>>
  PROVE  IInv'
<1>1. /\ hold' = [hold EXCEPT ![t] = hold[t]] /\ want' = [want EXCEPT ![t] = want[t]]
      /\ credits' = credits /\ freed' = freed /\ lost' = lost /\ live' = live /\ used' = used
      /\ internal' = internal
  BY ThreadFacts DEF pe
<1>2. /\ credits'.pkts + hold[t].pkts + live' + freed'.pkts + lost'.pkts
           = credits.pkts + hold[t].pkts + live + freed.pkts + lost.pkts
      /\ credits'.bufs + hold[t].bufs + used' + freed'.bufs + lost'.bufs
           = credits.bufs + hold[t].bufs + used + freed.bufs + lost.bufs
  BY <1>1
<1>3. /\ hold[t] \in Amounts /\ want[t] \in Amounts /\ internal' \in [Threads -> BOOLEAN]
      /\ credits' \in Amounts /\ freed' \in Amounts /\ lost' \in Amounts
      /\ live' \in Nat /\ used' \in 0 .. live' /\ (live' > 0 => used' > 0)
  BY <1>1, ThreadFacts
<1> QED BY <1>1, <1>2, <1>3, ThreadStep

LEMMA CheckedStep ==
  ASSUME IInv, NEW t \in Threads, Acquired(t) \/ Short(t) \/ PollNow(t)
  PROVE  IInv'
<1>0. "alloc" \in Labels /\ "asleep" \in Labels /\ "poll" \in Labels
  BY DEF Labels
<1>1. CASE Acquired(t)
  <2>1. Right("alloc", hold[t], want[t])
    BY <1>1, ThreadFacts DEF Acquired, Right
  <2> QED BY <1>0, <1>1, <2>1, MovedStep DEF Acquired
<1>2. CASE Short(t)
  <2>1. Right("asleep", hold[t], want[t])
    BY <1>2, ThreadFacts DEF Short, Right
  <2> QED BY <1>0, <1>2, <2>1, MovedStep DEF Short
<1>3. CASE PollNow(t)
  <2>1. Right("poll", hold[t], want[t])
    BY <1>3, ThreadFacts DEF PollNow, Right
  <2> QED BY <1>0, <1>3, <2>1, MovedStep DEF PollNow
<1> QED BY <1>1, <1>2, <1>3

(* Credits in the registers are added to the structure.  Right(l, rest, w) *)
(* is what the thread goes on with: rest is None or what it still wants. *)
LEMMA GivenStep ==
  ASSUME IInv, NEW t \in Threads, NEW l \in Labels, NEW given \in Amounts, NEW rest \in Amounts,
         hold[t].pkts = given.pkts + rest.pkts, hold[t].bufs = given.bufs + rest.bufs,
         credits' = Plus(credits, given), hold' = [hold EXCEPT ![t] = rest],
         pc' = [pc EXCEPT ![t] = l], Right(l, rest, want[t]),
         UNCHANGED <<want, internal, pe, lost>>
  PROVE  IInv'
<1>1. /\ credits' \in Amounts
      /\ credits'.pkts = credits.pkts + given.pkts /\ credits'.bufs = credits.bufs + given.bufs
  BY ThreadFacts, AmountsPlus
<1>2. /\ want' = [want EXCEPT ![t] = want[t]] /\ internal' = internal
      /\ freed' = freed /\ lost' = lost /\ live' = live /\ used' = used
  BY ThreadFacts DEF pe
<1>3. /\ credits'.pkts + rest.pkts + live' + freed'.pkts + lost'.pkts
           = credits.pkts + hold[t].pkts + live + freed.pkts + lost.pkts
      /\ credits'.bufs + rest.bufs + used' + freed'.bufs + lost'.bufs
           = credits.bufs + hold[t].bufs + used + freed.bufs + lost.bufs
  BY <1>1, <1>2, ThreadFacts, AmountsNat
<1>4. /\ want[t] \in Amounts /\ internal' \in [Threads -> BOOLEAN]
      /\ freed' \in Amounts /\ lost' \in Amounts
      /\ live' \in Nat /\ used' \in 0 .. live' /\ (live' > 0 => used' > 0)
  BY <1>2, ThreadFacts
<1> QED BY <1>1, <1>2, <1>3, <1>4, ThreadStep

LEMMA ResumeRight ==
  ASSUME IInv, NEW t \in Threads, pc[t] \in {"poll", "update"}
  PROVE  Resume(t) \in Labels /\ Right(Resume(t), None, want[t])
<1>1. want[t] \in Amounts /\ want[t].pkts = want[t].bufs
  BY ThreadFacts DEF Right
<1>2. want[t] # None => want[t].pkts > 0
  BY <1>1 DEF Amounts, None
<1> QED BY <1>1, <1>2 DEF Resume, Right, Labels

LEMMA AddedStep ==
  ASSUME IInv, NEW t \in Threads, AddBack(t) \/ Update(t) \/ Return(t)
  PROVE  IInv'
<1>0. /\ hold[t] \in Amounts /\ None \in Amounts
      /\ hold[t].pkts = hold[t].pkts + None.pkts /\ hold[t].bufs = hold[t].bufs + None.bufs
  BY ThreadFacts, AmountsNat
<1>1. CASE AddBack(t)
  <2> DEFINE l == IF Replenish THEN "poll" ELSE "retry"
  <2>1. l \in Labels /\ Right(l, None, want[t])
    BY <1>1, ThreadFacts DEF AddBack, Right, Labels
  <2>2. /\ credits' = Plus(credits, hold[t]) /\ hold' = [hold EXCEPT ![t] = None]
        /\ pc' = [pc EXCEPT ![t] = l] /\ UNCHANGED <<want, internal, pe, lost>>
    BY <1>1 DEF AddBack
  <2> HIDE DEF l
  <2> QED BY <1>0, <2>1, <2>2, GivenStep
<1>2. CASE Update(t)
  <2>1. Resume(t) \in Labels /\ Right(Resume(t), None, want[t])
    BY <1>2, ResumeRight DEF Update
  <2>2. /\ credits' = Plus(credits, hold[t]) /\ hold' = [hold EXCEPT ![t] = None]
        /\ pc' = [pc EXCEPT ![t] = Resume(t)] /\ UNCHANGED <<want, internal, pe, lost>>
    BY <1>2 DEF Update
  <2> QED BY <1>0, <2>1, <2>2, GivenStep
<1>3. CASE Return(t)
  <2> DEFINE l == IF want[t] = None THEN "idle" ELSE "alloc"
             given == Minus(hold[t], want[t])
  <2>1. pc[t] = "return" /\ want[t] \in Amounts
    BY <1>3, ThreadFacts DEF Return
  <2>2. hold[t].pkts >= want[t].pkts /\ hold[t].bufs >= want[t].bufs
        /\ want[t].pkts = want[t].bufs
    BY <2>1, ThreadFacts DEF Right
  <2>3. given \in Amounts /\ given.pkts = hold[t].pkts - want[t].pkts
        /\ given.bufs = hold[t].bufs - want[t].bufs
    BY <1>0, <2>1, <2>2, AmountsMinus
  <2>4. want[t] # None => want[t].pkts > 0
    BY <2>1, <2>2 DEF Amounts, None
  <2>5. l \in Labels /\ Right(l, want[t], want[t])
    BY <2>2, <2>4 DEF Right, Labels
  <2>6. /\ credits' = Plus(credits, given) /\ hold' = [hold EXCEPT ![t] = want[t]]
        /\ pc' = [pc EXCEPT ![t] = l] /\ UNCHANGED <<want, internal, pe, lost>>
    BY <1>3 DEF Return
  <2> HIDE DEF l, given
  <2>7. hold[t].pkts = given.pkts + want[t].pkts /\ hold[t].bufs = given.bufs + want[t].bufs
    BY <1>0, <2>1, <2>3, AmountsNat
  <2> QED BY <2>1, <2>3, <2>5, <2>6, <2>7, GivenStep
<1> QED BY <1>1, <1>2, <1>3

(* What the packet engine has to give back goes to the registers. *)
LEMMA PollStep ==
  ASSUME IInv, NEW t \in Threads, PollPe(t)
  PROVE  IInv'
<1> DEFINE l == IF freed = None THEN Resume(t) ELSE "update"
<1>1. /\ pc[t] = "poll" /\ hold' = [hold EXCEPT ![t] = freed] /\ freed' = None
      /\ pc' = [pc EXCEPT ![t] = l]
      /\ credits' = credits /\ want' = want /\ internal' = internal /\ live' = live
      /\ used' = used /\ lost' = lost
  BY DEF PollPe
<1>2. hold[t] = None /\ want[t].pkts = want[t].bufs
  BY <1>1, ThreadFacts DEF Right
<1>3. l \in Labels /\ Right(l, freed, want[t])
  <2>1. CASE freed = None
    BY <1>1, <2>1, ResumeRight
  <2>2. CASE freed # None
    BY <1>2, <2>2 DEF Right, Labels
  <2> QED BY <2>1, <2>2
<1> HIDE DEF l
<1>4. /\ credits'.pkts + freed.pkts + live' + freed'.pkts + lost'.pkts
           = credits.pkts + hold[t].pkts + live + freed.pkts + lost.pkts
      /\ credits'.bufs + freed.bufs + used' + freed'.bufs + lost'.bufs
           = credits.bufs + hold[t].bufs + used + freed.bufs + lost.bufs
  BY <1>1, <1>2, ThreadFacts, AmountsNat
<1>5. /\ want[t] \in Amounts /\ want' = [want EXCEPT ![t] = want[t]] /\ freed \in Amounts
      /\ internal' \in [Threads -> BOOLEAN]
      /\ credits' \in Amounts /\ freed' \in Amounts /\ lost' \in Amounts
      /\ live' \in Nat /\ used' \in 0 .. live' /\ (live' > 0 => used' > 0)
  BY <1>1, ThreadFacts
<1> QED BY <1>1, <1>3, <1>4, <1>5, ThreadStep

(* An allocation turns the credits of one packet into a packet; one that   *)
(* fails loses those that were taken for it, or keeps them. *)
LEMMA AllocStep ==
  ASSUME IInv, NEW t \in Threads, Alloc(t)
  PROVE  IInv'
<1>1. PICK new \in {0, 1} :
        /\ live = 0 => new = 1
        /\ live' = live + 1 /\ used' = used + new
        /\ LET back == Plus(freed, [pkts |-> 0, bufs |-> 1 - new])
               rest == Minus(hold[t], [pkts |-> 1, bufs |-> 1])
           IN  /\ hold' = [hold EXCEPT ![t] = Plus(rest, back)]
               /\ want' = [want EXCEPT ![t] = rest]
  BY DEF Alloc
<1> DEFINE unit == [pkts |-> 0, bufs |-> 1 - new]
           one  == [pkts |-> 1, bufs |-> 1]
           back == Plus(freed, unit)
           rest == Minus(hold[t], one)
           h    == Plus(rest, back)
<1>2. /\ unit \in Amounts /\ unit.pkts = 0 /\ unit.bufs = 1 - new
      /\ one \in Amounts /\ one.pkts = 1 /\ one.bufs = 1
  BY DEF Amounts
<1>3. pc[t] = "alloc" /\ freed' = None /\ pc' = [pc EXCEPT ![t] = "return"]
      /\ credits' = credits /\ internal' = internal /\ lost' = lost
  BY DEF Alloc
<1>4. hold[t].pkts > 0 /\ hold[t].pkts = hold[t].bufs
  BY <1>3, ThreadFacts DEF Right
<1> HIDE DEF unit, one
<1>5. back \in Amounts /\ back.pkts = freed.pkts /\ back.bufs = freed.bufs + 1 - new
  BY <1>2, ThreadFacts, AmountsPlus, AmountsNat
<1>6. rest \in Amounts /\ rest.pkts = hold[t].pkts - 1 /\ rest.bufs = hold[t].bufs - 1
  BY <1>2, <1>4, ThreadFacts, AmountsMinus, AmountsNat
<1> HIDE DEF back, rest
<1>7. h \in Amounts /\ h.pkts = rest.pkts + back.pkts /\ h.bufs = rest.bufs + back.bufs
  BY <1>5, <1>6, AmountsPlus
<1>8. hold' = [hold EXCEPT ![t] = h] /\ want' = [want EXCEPT ![t] = rest]
  BY <1>1 DEF back, rest, unit, one
<1> HIDE DEF h
<1>9. "return" \in Labels /\ Right("return", h, rest)
  BY <1>4, <1>5, <1>6, <1>7, AmountsNat DEF Right, Labels
<1>10. /\ live' \in Nat /\ used' \in 0 .. live' /\ (live' > 0 => used' > 0)
       /\ internal' \in [Threads -> BOOLEAN]
       /\ credits' \in Amounts /\ freed' \in Amounts /\ lost' \in Amounts
  BY <1>1, <1>3, ThreadFacts
<1>11. /\ credits'.pkts + h.pkts + live' + freed'.pkts + lost'.pkts
            = credits.pkts + hold[t].pkts + live + freed.pkts + lost.pkts
       /\ credits'.bufs + h.bufs + used' + freed'.bufs + lost'.bufs
            = credits.bufs + hold[t].bufs + used + freed.bufs + lost.bufs
  <2>1. live' = live + 1 /\ used' = used + new /\ new \in Nat
    BY <1>1
  <2>2. freed'.pkts = 0 /\ freed'.bufs = 0 /\ credits' = credits /\ lost' = lost
    BY <1>3, ThreadFacts
  <2>3. /\ live \in Nat /\ used \in Nat /\ hold[t].pkts \in Nat /\ hold[t].bufs \in Nat
        /\ freed.pkts \in Nat /\ freed.bufs \in Nat
        /\ credits.pkts \in Nat /\ credits.bufs \in Nat
        /\ lost.pkts \in Nat /\ lost.bufs \in Nat
    BY ThreadFacts, AmountsNat
  <2>4. h.pkts = hold[t].pkts - 1 + freed.pkts
    BY <1>5, <1>6, <1>7
  <2>5. h.bufs = hold[t].bufs - 1 + freed.bufs + 1 - new
    BY <1>5, <1>6, <1>7, <2>1, <2>3
  <2>6. credits'.pkts + h.pkts + live' + freed'.pkts + lost'.pkts
          = credits.pkts + hold[t].pkts + live + freed.pkts + lost.pkts
    BY <2>1, <2>2, <2>3, <2>4
  <2>7. credits'.bufs + h.bufs + used' + freed'.bufs + lost'.bufs
          = credits.bufs + hold[t].bufs + used + freed.bufs + lost.bufs
    BY <2>1, <2>2, <2>3, <2>5
  <2> QED BY <2>6, <2>7
<1> QED BY <1>3, <1>6, <1>7, <1>8, <1>9, <1>10, <1>11, ThreadStep

LEMMA FailedStep ==
  ASSUME IInv, NEW t \in Threads, AllocFails(t), internal[t]
  PROVE  IInv'
<1>1. /\ lost' = Plus(lost, hold[t])
      /\ hold' = [hold EXCEPT ![t] = None] /\ want' = [want EXCEPT ![t] = None]
      /\ pc' = [pc EXCEPT ![t] = "idle"]
      /\ credits' = credits /\ internal' = internal /\ live' = live /\ used' = used
      /\ freed' = freed
  BY DEF AllocFails, pe
<1>2. lost' \in Amounts /\ lost'.pkts = lost.pkts + hold[t].pkts
      /\ lost'.bufs = lost.bufs + hold[t].bufs
  BY <1>1, ThreadFacts, AmountsPlus
<1>3. "idle" \in Labels /\ Right("idle", None, None)
  BY DEF Labels, Right, None
<1>4. /\ credits'.pkts + None.pkts + live' + freed'.pkts + lost'.pkts
           = credits.pkts + hold[t].pkts + live + freed.pkts + lost.pkts
      /\ credits'.bufs + None.bufs + used' + freed'.bufs + lost'.bufs
           = credits.bufs + hold[t].bufs + used + freed.bufs + lost.bufs
  BY <1>1, <1>2, ThreadFacts, AmountsNat
<1>5. /\ None \in Amounts /\ internal' \in [Threads -> BOOLEAN]
      /\ credits' \in Amounts /\ freed' \in Amounts
      /\ live' \in Nat /\ used' \in 0 .. live' /\ (live' > 0 => used' > 0)
  BY <1>1, ThreadFacts
<1> QED BY <1>1, <1>2, <1>3, <1>4, <1>5, ThreadStep

(* What the threads hold does not depend on the packet engine. *)
LEMMA StillStep ==
  ASSUME IInv, UNCHANGED vars
  PROVE  IInv'
BY DEF IInv, vars, TypeOK, RegistersRight, Right, CreditsConserved, Held, Units, PktsHeld, BufsHeld

LEMMA FreeStep ==
  ASSUME IInv, Free
  PROVE  IInv'
<1>1. TypeOK /\ RegistersRight /\ CreditsConserved
  BY DEF IInv
<1>2. /\ live > 0 /\ live' = live - 1 /\ used' \in {used, used - 1} /\ used' <= live'
      /\ (live' > 0 => used' > 0)
      /\ credits' = credits /\ want' = want /\ hold' = hold /\ internal' = internal
      /\ pc' = pc /\ lost' = lost
  BY DEF Free
<1> DEFINE back == [pkts |-> 1, bufs |-> used - used']
<1>3. back \in Amounts /\ back.pkts = 1 /\ back.bufs = used - used'
  <2>1. used \in Int /\ used' \in {used, used - 1}
    BY <1>1, <1>2 DEF TypeOK
  <2>2. used - used' \in Nat
    <3>1. CASE used' = used
      BY <2>1, <3>1
    <3>2. CASE used' = used - 1
      BY <2>1, <3>2
    <3> QED BY <2>1, <3>1, <3>2
  <2> QED BY <2>2 DEF Amounts
<1>4. freed' = Plus(freed, back)
  BY DEF Free
<1> HIDE DEF back
<1>5. freed' \in Amounts /\ freed'.pkts = freed.pkts + 1 /\ freed'.bufs = freed.bufs + used - used'
  <2>1. freed \in Amounts /\ used \in Nat /\ used' \in Int
    BY <1>1, <1>2 DEF TypeOK
  <2> QED BY <1>3, <1>4, <2>1, AmountsPlus, AmountsNat
<1>6. live' \in Nat /\ used' \in 0 .. live'
  <2>1. live \in Nat /\ used \in 0 .. live /\ used > 0
    BY <1>1, <1>2 DEF TypeOK, RegistersRight
  <2> QED BY <1>2, <2>1
<1>7. TypeOK'
  BY <1>1, <1>2, <1>5, <1>6 DEF TypeOK
<1>8. RegistersRight'
  BY <1>1, <1>2 DEF RegistersRight, Right
<1>9. Held(PktsHeld)' = Held(PktsHeld) /\ Held(BufsHeld)' = Held(BufsHeld)
  BY <1>2 DEF Held, Units, PktsHeld, BufsHeld
<1>10. Held(PktsHeld) \in Nat /\ Held(BufsHeld) \in Nat
  <2>1. PktsHeld \in [Threads -> Nat] /\ BufsHeld \in [Threads -> Nat]
    BY <1>1 DEF TypeOK, Amounts, PktsHeld, BufsHeld
  <2> QED BY <2>1, UnitsFinite, FS_CardinalityType DEF Held
<1>11. CreditsConserved'
  <2>1. /\ credits \in Amounts /\ freed \in Amounts /\ lost \in Amounts
        /\ live \in Nat /\ used \in Nat /\ used' \in Nat
    BY <1>1, <1>6 DEF TypeOK
  <2>2. /\ credits.pkts + Held(PktsHeld) + live' + freed'.pkts + lost.pkts = InitPkts
        /\ credits.bufs + Held(BufsHeld) + used' + freed'.bufs + lost.bufs = InitBufs
    BY <1>1, <1>2, <1>5, <1>10, <2>1, AmountsNat DEF CreditsConserved
  <2> QED BY <1>2, <1>9, <2>2 DEF CreditsConserved
<1> QED BY <1>7, <1>8, <1>11 DEF IInv

LEMMA NextIInv == IInv /\ [Next]_vars => IInv'
<1> SUFFICES ASSUME IInv, [Next]_vars PROVE IInv'
  OBVIOUS
<1>1. CASE Free
  BY <1>1, FreeStep
<1>2. ASSUME NEW t \in Threads, Step(t) PROVE IInv'
  BY <1>2, CheckedStep, AskedStep, AddedStep, PollStep, AllocStep DEF Step
<1>3. ASSUME NEW t \in Threads, Call(t) PROVE IInv'
  BY <1>3, CheckedStep, AskedStep DEF Call
<1>4. ASSUME NEW t \in Threads, AllocFails(t) PROVE IInv'
  <2>1. CASE internal[t]
    BY <1>4, <2>1, FailedStep
  <2>2. CASE ~internal[t]
    BY <1>4, <2>2, StillStep DEF AllocFails, vars, pe
  <2> QED BY <2>1, <2>2
<1>5. CASE UNCHANGED vars
  BY <1>5, StillStep
<1> QED BY <1>1, <1>2, <1>3, <1>4, <1>5 DEF Next

-----------------------------------------------------------------------------
(* The structure, the registers and the counts of the packet engine stay   *)
(* numbers, so no subtraction goes below zero, for every number of threads *)
(* and credits. *)
THEOREM CreditTypes == Spec => []TypeOK
<1>1. IInv => TypeOK
  BY DEF IInv
<1> QED BY <1>1, InitIInv, NextIInv, PTL DEF Spec

(* Every credit is in one place: in the structure, in a thread's           *)
(* registers, in use, on its way back, or lost with a failed allocation,   *)
(* for every number of threads and credits. *)
THEOREM CreditsKept == Spec => []CreditsConserved
<1>1. IInv => CreditsConserved
  BY DEF IInv
<1> QED BY <1>1, InitIInv, NextIInv, PTL DEF Spec

-----------------------------------------------------------------------------
(***************************************************************************)
(* Drops: the register that two ports share.                               *)
(***************************************************************************)
\* Who accumulates drops is at a pair of ports, with a mask some caller has,
\* and has the pair's drops in its registers only if it wanted one of them.
DropsType ==
  /\ drops \in [Ports -> Nat] /\ dropped \in [Ports -> Nat] /\ ports_drop \in [Ports -> Nat]
  /\ stats \in [Callers -> [Words -> Nat]]
  /\ at \in [Callers -> Nat] /\ mask \in [Callers -> SUBSET Ports]
  /\ mac_pc \in [Callers -> {"idle", "pair", "even", "odd"}]

AtPair(t) ==
  /\ mac_pc[t] # "idle" =>
       at[t] % 2 = 0 /\ at[t] + 1 < NPorts /\ mask[t] \in PortMasks
  /\ mac_pc[t] \in {"even", "odd"} => Wanted(at[t], mask[t])
  /\ mac_pc[t] = "odd" => stats[t][0] = 0

DropsInv == DropsType /\ (\A t \in Callers : AtPair(t)) /\ DropsConserved

LEMMA FirstWords == 0 \in Words /\ 1 \in Words
BY StatsAssumption DEF Words

\* What one thread has in its registers changes the sum by as much.
LEMMA DropsInChange ==
  ASSUME NEW p \in Ports, NEW t \in Callers,
         \A u \in Callers : DropIn(u, p) \in Nat,
         \A u \in Callers \ {t} : DropIn(u, p)' = DropIn(u, p),
         DropIn(t, p)' \in Nat
  PROVE  /\ DropsIn(p) \in Nat
         /\ DropsIn(p)' = DropsIn(p) - DropIn(t, p) + DropIn(t, p)'
<1> DEFINE f == [u \in Callers |-> DropIn(u, p)]
           g == [u \in Callers |-> DropIn(u, p)']
<1>1. DropsIn(p) = SumFunctionOnSet(f, Callers) /\ DropsIn(p)' = SumFunctionOnSet(g, Callers)
  BY DEF DropsIn, SumFunction
<1>2. IsFiniteSet(Callers)
  BY StatsAssumption
<1>3. /\ \A u \in Callers : f[u] \in Nat
      /\ g[t] \in Int /\ \A u \in Callers \ {t} : g[u] = f[u]
      /\ f[t] = DropIn(t, p) /\ g[t] = DropIn(t, p)'
  OBVIOUS
<1> HIDE DEF f, g
<1>4. \A u \in Callers : f[u] \in Int
  BY <1>3
<1>5. SumFunctionOnSet(f, Callers) \in Nat
  BY <1>2, <1>3, SumNat
<1>6. SumFunctionOnSet(g, Callers) = SumFunctionOnSet(f, Callers) - f[t] + g[t]
  BY <1>2, <1>3, <1>4, SumChange
<1> QED BY <1>1, <1>3, <1>5, <1>6

LEMMA DropInType ==
  ASSUME DropsType, NEW t \in Callers, NEW p \in Ports
  PROVE  DropIn(t, p) \in Nat
<1>1. p % 2 \in Words
  BY FirstWords DEF Ports
<1>2. stats[t] \in [Words -> Nat]
  BY DEF DropsType
<1> QED BY <1>1, <1>2 DEF DropIn

\* A thread of the pair that p belongs to has p's drops, and no other.
LEMMA PairOf ==
  ASSUME NEW p \in Ports, NEW a \in Nat, a % 2 = 0
  PROVE  /\ (a = p - (p % 2)) <=> (p = a \/ p = a + 1)
         /\ p \in Pair(a) <=> (p = a \/ p = a + 1)
         /\ p = a => p % 2 = 0
         /\ p = a + 1 => p % 2 = 1
<1>1. p \in Nat
  BY DEF Ports
<1> QED BY <1>1 DEF Pair

LEMMA DropsInitially == StatsInit => DropsInv
<1> SUFFICES ASSUME StatsInit PROVE DropsInv
  OBVIOUS
<1>1. DropsType
  <2>1. Zero \in [Words -> Nat]
    BY DEF Zero
  <2> QED BY <2>1 DEF StatsInit, DropsType
<1>2. ASSUME NEW t \in Callers PROVE AtPair(t)
  BY DEF StatsInit, AtPair
<1>3. ASSUME NEW p \in Ports PROVE drops[p] + ports_drop[p] + DropsIn(p) = dropped[p]
  <2> DEFINE f == [t \in Callers |-> DropIn(t, p)]
  <2>1. \A t \in Callers : f[t] = 0
    BY DEF StatsInit, DropIn
  <2>2. DropsIn(p) = SumFunctionOnSet(f, Callers)
    BY DEF DropsIn, SumFunction
  <2> HIDE DEF f
  <2>3. DropsIn(p) = 0
    BY <2>1, <2>2, SumZero, StatsAssumption
  <2> QED BY <2>3 DEF StatsInit
<1> QED BY <1>1, <1>2, <1>3 DEF DropsInv, DropsConserved

LEMMA CountDropKeeps ==
  ASSUME DropsInv, NEW p \in Ports, CountDrop(p)
  PROVE  DropsInv'
<1> USE DEF DropsInv
<1>1. DropsType'
  BY DEF CountDrop, DropsType
<1>2. ASSUME NEW t \in Callers PROVE AtPair(t)'
  BY DEF CountDrop, AtPair
<1>3. DropsConserved'
  <2> SUFFICES ASSUME NEW q \in Ports,
                      \A ports \in PortMasks : Pair(q - (q % 2)) \cap ports = {} \/ q \in ports
               PROVE  drops'[q] + ports_drop'[q] + DropsIn(q)' = dropped'[q]
    BY DEF DropsConserved
  <2>1. drops[q] + ports_drop[q] + DropsIn(q) = dropped[q]
    BY DEF DropsConserved
  <2>2. DropsIn(q)' = DropsIn(q)
    BY DEF CountDrop, DropsIn, DropIn
  <2>3. DropsIn(q) \in Nat
    <3> DEFINE f == [t \in Callers |-> DropIn(t, q)]
    <3>1. \A t \in Callers : f[t] \in Nat
      BY DropInType
    <3>2. DropsIn(q) = SumFunctionOnSet(f, Callers)
      BY DEF DropsIn, SumFunction
    <3> HIDE DEF f
    <3> QED BY <3>1, <3>2, SumNat, StatsAssumption
  <2>4. ports_drop'[q] = ports_drop[q] /\ ports_drop[q] \in Nat /\ drops[q] \in Nat
        /\ dropped[q] \in Nat
    BY DEF CountDrop, DropsType
  <2>5. CASE q = p
    <3>1. dropped[q] = 0 /\ drops'[q] = 1 /\ dropped'[q] = 1
      BY <2>5 DEF CountDrop, DropsType
    <3> QED BY <2>1, <2>2, <2>3, <2>4, <3>1
  <2>6. CASE q # p
    <3>1. drops'[q] = drops[q] /\ dropped'[q] = dropped[q]
      BY <2>6 DEF CountDrop, DropsType
    <3> QED BY <2>1, <2>2, <2>4, <3>1
  <2> QED BY <2>5, <2>6
<1> QED BY <1>1, <1>2, <1>3

\* A step of t accounts for the drops of q if it does for t's registers.
LEMMA DropsMoved ==
  ASSUME DropsInv, DropsType', NEW t \in Callers,
         \A u \in Callers \ {t} : mac_pc'[u] = mac_pc[u] /\ at'[u] = at[u] /\ stats'[u] = stats[u],
         dropped' = dropped,
         \A q \in Ports :
           (\A ports \in PortMasks : Pair(q - (q % 2)) \cap ports = {} \/ q \in ports) =>
             drops'[q] + ports_drop'[q] + DropIn(t, q)' = drops[q] + ports_drop[q] + DropIn(t, q)
  PROVE  DropsConserved'
<1> SUFFICES ASSUME NEW q \in Ports,
                    \A ports \in PortMasks : Pair(q - (q % 2)) \cap ports = {} \/ q \in ports
             PROVE  drops'[q] + ports_drop'[q] + DropsIn(q)' = dropped'[q]
  BY DEF DropsConserved
<1>1. \A u \in Callers : DropIn(u, q) \in Nat
  BY DropInType DEF DropsInv
<1>2. DropIn(t, q)' \in Nat
  <2>1. q % 2 \in Words
    BY FirstWords DEF Ports
  <2>2. stats'[t] \in [Words -> Nat]
    BY DEF DropsType
  <2> QED BY <2>1, <2>2 DEF DropIn
<1>3. \A u \in Callers \ {t} : DropIn(u, q)' = DropIn(u, q)
  BY DEF DropIn
<1>4. DropsIn(q) \in Nat /\ DropsIn(q)' = DropsIn(q) - DropIn(t, q) + DropIn(t, q)'
  BY <1>1, <1>2, <1>3, DropsInChange
<1>5. drops[q] + ports_drop[q] + DropsIn(q) = dropped[q]
  BY DEF DropsInv, DropsConserved
<1>6. /\ drops[q] \in Nat /\ ports_drop[q] \in Nat /\ dropped[q] \in Nat
      /\ drops'[q] \in Nat /\ ports_drop'[q] \in Nat
  BY DEF DropsInv, DropsType
<1>7. DropIn(t, q) \in Nat
  BY <1>1
<1>8. drops'[q] + ports_drop'[q] + DropIn(t, q)' = drops[q] + ports_drop[q] + DropIn(t, q)
  OBVIOUS
<1> QED BY <1>2, <1>4, <1>5, <1>6, <1>7, <1>8

LEMMA CallForDropsKeeps ==
  ASSUME DropsInv, NEW t \in Callers, NEW ports \in PortMasks, CallStats(t, "pair", ports)
  PROVE  DropsInv'
<1> USE DEF DropsInv
<1>1. DropsType'
  BY StatsAssumption DEF CallStats, Goto, head, port, DropsType
<1>2. ASSUME NEW u \in Callers PROVE AtPair(u)'
  <2>1. CASE u = t
    <3>1. mac_pc'[t] = "pair" /\ at'[t] = 0 /\ mask'[t] = ports
      BY DEF CallStats, Goto, DropsType
    <3> QED BY <2>1, <3>1, StatsAssumption DEF AtPair
  <2>2. CASE u # t
    <3>1. mac_pc'[u] = mac_pc[u] /\ at'[u] = at[u] /\ mask'[u] = mask[u] /\ stats' = stats
      BY <2>2 DEF CallStats, Goto, DropsType
    <3>2. AtPair(u)
      OBVIOUS
    <3> QED BY <3>1, <3>2 DEF AtPair
  <2> QED BY <2>1, <2>2
<1>3. DropsConserved'
  <2>1. \A u \in Callers \ {t} :
          mac_pc'[u] = mac_pc[u] /\ at'[u] = at[u] /\ stats'[u] = stats[u]
    BY DEF CallStats, Goto, DropsType
  <2>2. drops' = drops /\ ports_drop' = ports_drop /\ dropped' = dropped
    BY DEF CallStats, head
  <2>3. \A q \in Ports : DropIn(t, q)' = 0 /\ DropIn(t, q) = 0
    BY DEF CallStats, Goto, DropIn, DropsType
  <2> QED BY <1>1, <2>1, <2>2, <2>3, DropsMoved
<1> QED BY <1>1, <1>2, <1>3

LEMMA ReadPairKeeps ==
  ASSUME DropsInv, NEW t \in Callers, ReadPair(t)
  PROVE  DropsInv'
<1> USE DEF DropsInv
<1>1. /\ mac_pc[t] = "pair" /\ mac_pc'[t] = "even" /\ at' = at /\ mask' = mask
      /\ Wanted(at[t], mask[t])
      /\ \A u \in Callers \ {t} : mac_pc'[u] = mac_pc[u] /\ stats'[u] = stats[u]
      /\ dropped' = dropped /\ ports_drop' = ports_drop
  BY DEF ReadPair, Goto, DropsType
<1>2. PICK a \in Nat : a = at[t] /\ a % 2 = 0 /\ a \in Ports /\ a + 1 \in Ports
  <2>1. AtPair(t) /\ at[t] \in Nat
    BY DEF DropsType
  <2> QED BY <1>1, <2>1, StatsAssumption DEF AtPair, Ports
<1>3. mask[t] \in PortMasks
  BY <1>1 DEF AtPair
<1>4. /\ stats'[t] = [w \in Words |-> IF w \in {0, 1} THEN drops[a + w] ELSE 0]
      /\ drops' = [p \in Ports |-> IF p \in Pair(a) THEN 0 ELSE drops[p]]
  BY <1>2 DEF ReadPair, DropsType
<1>5. drops[a] \in Nat /\ drops[a + 1] \in Nat
  BY <1>2 DEF DropsType
<1>6. stats'[t] \in [Words -> Nat] /\ stats'[t][0] = drops[a] /\ stats'[t][1] = drops[a + 1]
  BY <1>4, <1>5, FirstWords
<1>7. DropsType'
  <2>1. stats' \in [Callers -> [Words -> Nat]]
    BY <1>6 DEF ReadPair, DropsType
  <2>2. drops' \in [Ports -> Nat]
    BY <1>4 DEF DropsType
  <2>3. mac_pc' \in [Callers -> {"idle", "pair", "even", "odd"}]
    BY DEF ReadPair, Goto, DropsType
  <2> QED BY <1>1, <2>1, <2>2, <2>3 DEF DropsType
<1>8. ASSUME NEW u \in Callers PROVE AtPair(u)'
  <2>1. CASE u = t
    BY <1>1, <1>2, <1>3, <2>1 DEF AtPair, Ports
  <2>2. CASE u # t
    BY <1>1, <2>2 DEF AtPair
  <2> QED BY <2>1, <2>2
<1>9. ASSUME NEW q \in Ports
      PROVE  drops'[q] + ports_drop'[q] + DropIn(t, q)' = drops[q] + ports_drop[q] + DropIn(t, q)
  <2>1. DropIn(t, q) = 0
    BY <1>1 DEF DropIn
  <2>2. drops[q] \in Nat /\ ports_drop[q] \in Nat
    BY DEF DropsType
  <2>3. CASE q \in Pair(a)
    <3>1. DropIn(t, q)' = drops[q]
      BY <1>1, <1>2, <1>6, <2>3, PairOf DEF DropIn
    <3>2. drops'[q] = 0
      BY <1>4, <2>3
    <3> QED BY <1>1, <2>1, <2>2, <3>1, <3>2
  <2>4. CASE q \notin Pair(a)
    <3>1. DropIn(t, q)' = 0
      BY <1>1, <1>2, <2>4, PairOf DEF DropIn
    <3>2. drops'[q] = drops[q]
      BY <1>4, <2>4
    <3> QED BY <1>1, <2>1, <2>2, <3>1, <3>2
  <2> QED BY <2>3, <2>4
<1>10. DropsConserved'
  <2>1. \A u \in Callers \ {t} :
          mac_pc'[u] = mac_pc[u] /\ at'[u] = at[u] /\ stats'[u] = stats[u]
    BY <1>1
  <2> QED BY <1>1, <1>7, <1>9, <2>1, DropsMoved
<1> QED BY <1>7, <1>8, <1>10

\* After a pair comes the next one, if there is one.
LEMMA NextPairSteps ==
  ASSUME DropsType, NEW t \in Callers, NextPair(t),
         at[t] % 2 = 0, at[t] + 1 < NPorts
  PROVE  /\ mac_pc' \in [Callers -> {"idle", "pair", "even", "odd"}]
         /\ mac_pc'[t] \in {"idle", "pair"}
         /\ at' \in [Callers -> Nat]
         /\ mac_pc'[t] = "pair" => at'[t] % 2 = 0 /\ at'[t] + 1 < NPorts
         /\ \A u \in Callers \ {t} : mac_pc'[u] = mac_pc[u] /\ at'[u] = at[u]
<1>1. PICK a \in Nat : a = at[t]
  BY DEF DropsType
<1>2. CASE a + 2 < NPorts
  <2>1. mac_pc' = [mac_pc EXCEPT ![t] = "pair"] /\ at' = [at EXCEPT ![t] = a + 2]
    BY <1>1, <1>2 DEF NextPair, Goto
  <2>2. (a + 2) % 2 = 0 /\ a + 2 + 1 < NPorts /\ a + 2 \in Nat
    BY <1>1, <1>2, StatsAssumption
  <2> QED BY <2>1, <2>2 DEF DropsType
<1>3. CASE ~(a + 2 < NPorts)
  <2>1. mac_pc' = [mac_pc EXCEPT ![t] = "idle"] /\ at' = [at EXCEPT ![t] = 0]
    BY <1>1, <1>3 DEF NextPair, Goto
  <2> QED BY <2>1 DEF DropsType
<1> QED BY <1>2, <1>3

LEMMA SkipPairKeeps ==
  ASSUME DropsInv, NEW t \in Callers, SkipPair(t)
  PROVE  DropsInv'
<1> USE DEF DropsInv
<1>1. /\ mac_pc[t] = "pair" /\ NextPair(t) /\ mask' = mask /\ stats' = stats
      /\ UNCHANGED head
  BY DEF SkipPair
<1>2. AtPair(t)
  OBVIOUS
<1>3. at[t] % 2 = 0 /\ at[t] + 1 < NPorts /\ mask[t] \in PortMasks
  BY <1>1, <1>2 DEF AtPair
<1>4. /\ mac_pc' \in [Callers -> {"idle", "pair", "even", "odd"}]
      /\ mac_pc'[t] \in {"idle", "pair"} /\ at' \in [Callers -> Nat]
      /\ mac_pc'[t] = "pair" => at'[t] % 2 = 0 /\ at'[t] + 1 < NPorts
      /\ \A u \in Callers \ {t} : mac_pc'[u] = mac_pc[u] /\ at'[u] = at[u]
  BY <1>1, <1>3, NextPairSteps
<1>5. DropsType'
  BY <1>1, <1>4 DEF DropsType, head
<1>6. ASSUME NEW u \in Callers PROVE AtPair(u)'
  <2>1. CASE u = t
    BY <1>1, <1>3, <1>4, <2>1 DEF AtPair
  <2>2. CASE u # t
    <3>1. AtPair(u)
      OBVIOUS
    <3> QED BY <1>1, <1>4, <2>2, <3>1 DEF AtPair
  <2> QED BY <2>1, <2>2
<1>7. \A q \in Ports : DropIn(t, q)' = 0 /\ DropIn(t, q) = 0
  BY <1>1, <1>4 DEF DropIn
<1>8. DropsConserved'
  BY <1>1, <1>4, <1>5, <1>7, DropsMoved DEF head
<1> QED BY <1>5, <1>6, <1>8

LEMMA AddDropsKeeps ==
  ASSUME DropsInv, NEW t \in Callers, AddDrops(t)
  PROVE  DropsInv'
<1> USE DEF DropsInv
<1>1. AtPair(t) /\ mac_pc[t] \in {"even", "odd"}
  BY DEF AddDrops
<1>2. PICK a \in Nat : a = at[t]
  BY DEF DropsType
<1>3. a % 2 = 0 /\ a + 1 < NPorts /\ mask[t] \in PortMasks /\ Wanted(a, mask[t])
  BY <1>1, <1>2 DEF AtPair
<1>4. PICK w \in {0, 1} : w = IF mac_pc[t] = "even" THEN 0 ELSE 1
  OBVIOUS
<1>5. w \in Words /\ a + w \in Ports
  <2> HIDE DEF DropsInv
  <2>1. w \in Words /\ (w = 0 \/ w = 1)
    BY FirstWords
  <2>2. a + w \in Nat /\ a + w <= NPorts - 1
    BY <1>3, <2>1, StatsAssumption
  <2> QED BY <2>1, <2>2, StatsAssumption DEF Ports
<1>6. stats[t] \in [Words -> Nat]
  BY DEF DropsType
<1>7. PICK n \in Nat : n = stats[t][w]
  BY <1>5, <1>6
<1>8. /\ ports_drop' = [ports_drop EXCEPT ![a + w] = @ + Added(a + w, mask[t], n)]
      /\ stats' = [stats EXCEPT ![t] = [stats[t] EXCEPT ![w] = 0]]
      /\ UNCHANGED <<drops, dropped, mask>>
  BY <1>2, <1>4, <1>7 DEF AddDrops
<1>9. Added(a + w, mask[t], n) \in Nat
  BY DEF Added
<1>10. /\ stats'[t] = [stats[t] EXCEPT ![w] = 0]
       /\ \A u \in Callers \ {t} : stats'[u] = stats[u]
       /\ stats' \in [Callers -> [Words -> Nat]]
  BY <1>5, <1>6, <1>8 DEF DropsType
<1>11. /\ mac_pc' \in [Callers -> {"idle", "pair", "even", "odd"}]
       /\ at' \in [Callers -> Nat]
       /\ \A u \in Callers \ {t} : mac_pc'[u] = mac_pc[u] /\ at'[u] = at[u]
       /\ mac_pc[t] = "even" => mac_pc'[t] = "odd" /\ at'[t] = a
       /\ mac_pc[t] = "odd" =>
            /\ mac_pc'[t] \in {"idle", "pair"}
            /\ mac_pc'[t] = "pair" => at'[t] % 2 = 0 /\ at'[t] + 1 < NPorts
  <2>1. CASE mac_pc[t] = "even"
    BY <1>2, <2>1 DEF AddDrops, Goto, DropsType
  <2>2. CASE mac_pc[t] = "odd"
    <3>1. NextPair(t)
      BY <2>2 DEF AddDrops
    <3> QED BY <1>2, <1>3, <2>2, <3>1, NextPairSteps
  <2> QED BY <1>1, <2>1, <2>2
<1>12. DropsType'
  <2>1. ports_drop' \in [Ports -> Nat]
    BY <1>5, <1>8, <1>9 DEF DropsType
  <2> QED BY <1>8, <1>10, <1>11, <2>1 DEF DropsType
<1>13. ASSUME NEW u \in Callers PROVE AtPair(u)'
  <2>1. CASE u = t /\ mac_pc[t] = "even"
    <3>1. stats'[t][0] = 0
      BY <1>4, <1>5, <1>6, <1>10, <2>1
    <3> QED BY <1>3, <1>8, <1>11, <2>1, <3>1 DEF AtPair
  <2>2. CASE u = t /\ mac_pc[t] = "odd"
    BY <1>3, <1>8, <1>11, <2>2 DEF AtPair
  <2>3. CASE u # t
    <3>1. AtPair(u)
      OBVIOUS
    <3> QED BY <1>8, <1>10, <1>11, <2>3, <3>1 DEF AtPair
  <2> QED BY <1>1, <2>1, <2>2, <2>3
<1>14. ASSUME NEW q \in Ports,
              \A ports \in PortMasks : Pair(q - (q % 2)) \cap ports = {} \/ q \in ports
       PROVE  drops'[q] + ports_drop'[q] + DropIn(t, q)' = drops[q] + ports_drop[q] + DropIn(t, q)
  <2>1. drops[q] \in Nat /\ ports_drop[q] \in Nat /\ drops'[q] = drops[q]
    BY <1>8 DEF DropsType
  <2>2. CASE q = a + w
    <3>1. q - (q % 2) = a /\ q % 2 = w
      BY <1>3, <1>4, <2>2
    <3>2. q \in mask[t]
      BY <1>3, <1>14, <3>1 DEF Wanted
    <3>3. ports_drop'[q] = ports_drop[q] + n
      BY <1>5, <1>8, <2>2, <3>2 DEF Added, DropsType
    <3>4. DropIn(t, q) = n
      BY <1>1, <1>2, <1>7, <3>1 DEF DropIn
    <3>5. DropIn(t, q)' = 0
      <4>1. stats'[t][w] = 0
        BY <1>5, <1>6, <1>10
      <4> QED BY <1>1, <1>4, <1>11, <3>1, <4>1 DEF DropIn
    <3> QED BY <2>1, <3>3, <3>4, <3>5
  <2>3. CASE q # a + w
    <3>1. ports_drop'[q] = ports_drop[q]
      BY <1>8, <2>3 DEF DropsType
    <3>2. DropIn(t, q)' = DropIn(t, q)
      <4>1. CASE mac_pc[t] = "even"
        <5>1. q % 2 \in Words
          BY FirstWords DEF Ports
        <5>2. CASE a = q - (q % 2)
          <6>1. q % 2 # w
            BY <1>3, <1>4, <2>3, <5>2 DEF Ports
          <6>2. stats'[t][q % 2] = stats[t][q % 2]
            BY <1>6, <1>10, <5>1, <6>1
          <6> QED BY <1>2, <1>11, <4>1, <6>2 DEF DropIn
        <5>3. CASE a # q - (q % 2)
          BY <1>2, <1>11, <4>1, <5>3 DEF DropIn
        <5> QED BY <5>2, <5>3
      <4>2. CASE mac_pc[t] = "odd"
        <5>1. DropIn(t, q)' = 0
          BY <1>11, <4>2 DEF DropIn
        <5>2. CASE a = q - (q % 2)
          <6>1. q % 2 = 0
            BY <1>3, <1>4, <2>3, <4>2, <5>2 DEF Ports
          <6> QED BY <1>1, <1>2, <4>2, <5>1, <5>2, <6>1 DEF DropIn, AtPair
        <5>3. CASE a # q - (q % 2)
          BY <1>2, <4>2, <5>1, <5>3 DEF DropIn
        <5> QED BY <5>2, <5>3
      <4> QED BY <1>1, <4>1, <4>2
    <3> QED BY <2>1, <3>1, <3>2
  <2> QED BY <2>2, <2>3
<1>15. DropsConserved'
  <2>1. \A u \in Callers \ {t} :
          mac_pc'[u] = mac_pc[u] /\ at'[u] = at[u] /\ stats'[u] = stats[u]
    BY <1>10, <1>11
  <2>2. dropped' = dropped
    BY <1>8
  <2> QED BY <1>12, <1>14, <2>1, <2>2, DropsMoved
<1> QED BY <1>12, <1>13, <1>15

LEMMA DropsKept ==
  ASSUME DropsInv, [DropNext]_mac_vars
  PROVE  DropsInv'
<1>1. CASE DropNext
  BY <1>1, CountDropKeeps, CallForDropsKeeps, ReadPairKeeps, AddDropsKeeps, SkipPairKeeps
  DEF DropNext
<1>2. CASE UNCHANGED mac_vars
  BY <1>2 DEF mac_vars, head, DropsInv, DropsType, AtPair, DropsConserved, DropsIn, DropIn
<1> QED BY <1>1, <1>2

(* Whatever the masks, and however many threads read the registers at once,*)
(* a port that no mask leaves out of its pair loses no drop.               *)
THEOREM NoDropLost == DropSpec => []DropsConserved
<1>1. DropsInv => DropsConserved
  BY DEF DropsInv
<1> QED BY <1>1, DropsInitially, DropsKept, PTL DEF DropSpec

-----------------------------------------------------------------------------
(***************************************************************************)
(* Ports: counters that are cleared as they are read.                      *)
(***************************************************************************)
LEMMA WordArithmetic ==
  /\ Long \in Nat \ {0}
  /\ \A n \in Nat : /\ n % Word \in Nat /\ n \div Word \in Nat
                    /\ (n % Word) + (n \div Word) * Word = n
                    /\ n <= n * Word /\ n * Word \in Nat
                    /\ n % Long \in Nat
                    /\ n < Long => n % Long = n
<1>1. Word \in Nat \ {0}
  BY StatsAssumption
<1>2. Long \in Nat \ {0}
  BY <1>1 DEF Long
<1>3. ASSUME NEW n \in Nat
      PROVE  /\ n % Word \in Nat /\ n \div Word \in Nat
             /\ (n % Word) + (n \div Word) * Word = n
             /\ n <= n * Word /\ n * Word \in Nat
  BY <1>1
<1>4. ASSUME NEW n \in Nat
      PROVE  n % Long \in Nat /\ (n < Long => n % Long = n)
  BY <1>2
<1> QED BY <1>2, <1>3, <1>4

\* A counter of octets has two words, and no other counter has any of them.
LEMMA OctetWords ==
  ASSUME NEW o \in Octets
  PROVE  o \in Nat /\ o \in Words /\ o + 1 \in Words /\ o \in Counters /\ o + 1 \notin Octets
<1>1. o \in Nat /\ o % 2 = 0 /\ o <= NWords - 1 /\ NWords % 2 = 0 /\ NWords \in Nat
  BY StatsAssumption DEF Words
<1>2. o + 1 <= NWords - 1 /\ (o + 1) % 2 # 0 /\ (o - 1) % 2 # 0
  BY <1>1
<1>3. o + 1 \notin Octets /\ o - 1 \notin Octets
  BY <1>2, StatsAssumption
<1> QED BY <1>1, <1>2, <1>3 DEF Words, Counters

LEMMA LeastOctet ==
  ASSUME NEW S, S \subseteq Octets, S # {}
  PROVE  Min(S) \in S /\ \A o \in S : Min(S) <= o
<1>1. S \subseteq Nat
  BY OctetWords
<1>2. \E x \in S : \A y \in S : x <= y
  BY <1>1, LeastNumber
<1> QED BY <1>2 DEF Min

PortLabels == {"idle", "read", "read_only", "add", "add2", "load", "fix", "fix_write", "fix_clear"}

PortType ==
  /\ mac \in [Counters -> Nat] /\ counted \in [Counters -> Nat]
  /\ accum \in [Words -> Nat] /\ loaded \in [Words -> Nat]
  /\ stats \in [Callers -> [Words -> Nat]]
  /\ at \in [Callers -> Nat] /\ mac_pc \in [Callers -> PortLabels]

\* Words that are not read, or were added already, are not in the registers.
RegistersOf(t) ==
  /\ at[t] % 2 = 0
  /\ mac_pc[t] \in {"fix", "fix_write", "fix_clear"} => at[t] \in Octets
  /\ mac_pc[t] = "add" => \A w \in Words \ Segment(at[t]) : stats[t][w] = 0
  /\ mac_pc[t] = "add2" => \A w \in Words \ Half(at[t], "add2") : stats[t][w] = 0

\* The books of a word of 32 bits.
WordBooks(w) ==
  /\ counted[w] <= MaxFrames
  /\ mac[w] + WordsIn(w) + accum[w] + loaded[Beside(w)] = counted[w]

Frames == Counters \ Octets

PortInv ==
  PortType /\ (\A t \in Callers : RegistersOf(t)) /\ (\A w \in Frames : WordBooks(w))

LEMMA FrameWord ==
  ASSUME NEW w \in Frames
  PROVE  w \in Words /\ w \in Counters /\ w \notin Octets /\ w - 1 \notin Octets
BY DEF Frames, Counters

LEMMA BesideWord ==
  ASSUME NEW w \in Words
  PROVE  Beside(w) \in Words /\ Beside(Beside(w)) = w
<1>1. w \in Nat /\ w <= NWords - 1 /\ NWords \in Nat /\ NWords % 2 = 0
  BY StatsAssumption DEF Words
<1>2. CASE w % 2 = 0
  <2>1. w + 1 <= NWords - 1 /\ (w + 1) % 2 # 0
    BY <1>1, <1>2
  <2> QED BY <1>1, <1>2, <2>1 DEF Beside, Words
<1>3. CASE w % 2 # 0
  <2>1. w - 1 \in Nat /\ (w - 1) % 2 = 0
    BY <1>1, <1>3
  <2> QED BY <1>1, <1>3, <2>1 DEF Beside, Words
<1> QED BY <1>2, <1>3

LEMMA OctetsBeside ==
  ASSUME NEW o \in Octets
  PROVE  Beside(o) = o + 1 /\ Beside(o + 1) = o
<1>1. o \in Nat /\ o % 2 = 0 /\ o \in Words
  BY OctetWords, StatsAssumption
<1>2. Beside(o) = o + 1
  BY <1>1 DEF Beside
<1> QED BY <1>1, <1>2, BesideWord

LEMMA WordInType ==
  ASSUME PortType, NEW t \in Callers, NEW w \in Words
  PROVE  WordIn(t, w) \in Nat
BY DEF PortType, WordIn

LEMMA WordsInType ==
  ASSUME PortType, NEW w \in Words
  PROVE  WordsIn(w) \in Nat /\ \A t \in Callers : WordIn(t, w) <= WordsIn(w)
<1> DEFINE f == [t \in Callers |-> WordIn(t, w)]
<1>1. \A t \in Callers : f[t] \in Nat
  BY WordInType
<1>2. WordsIn(w) = SumFunctionOnSet(f, Callers) /\ \A t \in Callers : f[t] = WordIn(t, w)
  BY DEF WordsIn, SumFunction
<1> HIDE DEF f
<1> QED BY <1>1, <1>2, SumNat, SumBounds, StatsAssumption

LEMMA WordsInChange ==
  ASSUME PortType, NEW w \in Words, NEW t \in Callers,
         \A u \in Callers \ {t} : WordIn(u, w)' = WordIn(u, w),
         WordIn(t, w)' \in Nat
  PROVE  WordsIn(w)' = WordsIn(w) - WordIn(t, w) + WordIn(t, w)'
<1> DEFINE f == [u \in Callers |-> WordIn(u, w)]
           g == [u \in Callers |-> WordIn(u, w)']
<1>1. WordsIn(w) = SumFunctionOnSet(f, Callers) /\ WordsIn(w)' = SumFunctionOnSet(g, Callers)
  BY DEF WordsIn, SumFunction
<1>2. IsFiniteSet(Callers)
  BY StatsAssumption
<1>3. /\ \A u \in Callers : f[u] \in Nat
      /\ g[t] \in Int /\ \A u \in Callers \ {t} : g[u] = f[u]
      /\ f[t] = WordIn(t, w) /\ g[t] = WordIn(t, w)'
  BY WordInType
<1> HIDE DEF f, g
<1>4. \A u \in Callers : f[u] \in Int
  BY <1>3
<1>5. SumFunctionOnSet(g, Callers) = SumFunctionOnSet(f, Callers) - f[t] + g[t]
  BY <1>2, <1>3, <1>4, SumChange
<1> QED BY <1>1, <1>3, <1>5

\* A step of t keeps the books if it does so for t's registers.
LEMMA WordsMoved ==
  ASSUME PortInv, PortType', NEW t \in Callers,
         \A u \in Callers \ {t} : mac_pc'[u] = mac_pc[u] /\ stats'[u] = stats[u],
         counted' = counted,
         NEW w \in Frames,
         mac'[w] + WordIn(t, w)' + accum'[w] + loaded'[Beside(w)]
           = mac[w] + WordIn(t, w) + accum[w] + loaded[Beside(w)]
  PROVE  WordBooks(w)'
<1>0. w \in Words /\ w \in Counters
  BY FrameWord
<1>1. \A u \in Callers \ {t} : WordIn(u, w)' = WordIn(u, w)
  BY DEF WordIn
<1>2. WordIn(t, w)' \in Nat
  BY <1>0 DEF PortType, WordIn
<1>3. WordsIn(w) \in Nat /\ WordIn(t, w) \in Nat
  BY <1>0, WordsInType, WordInType DEF PortInv
<1>4. WordsIn(w)' = WordsIn(w) - WordIn(t, w) + WordIn(t, w)'
  BY <1>0, <1>1, <1>2, WordsInChange DEF PortInv
<1>5. /\ mac[w] \in Nat /\ accum[w] \in Nat /\ loaded[Beside(w)] \in Nat /\ counted[w] \in Nat
      /\ mac'[w] \in Nat /\ accum'[w] \in Nat /\ loaded'[Beside(w)] \in Nat
  BY <1>0, BesideWord DEF PortInv, PortType
<1>6. counted[w] <= MaxFrames /\ mac[w] + WordsIn(w) + accum[w] + loaded[Beside(w)] = counted[w]
  BY DEF PortInv, WordBooks
<1> QED BY <1>2, <1>3, <1>4, <1>5, <1>6 DEF WordBooks

\* What a thread adds to a word does not overflow it.
LEMMA NoWordOverflow ==
  ASSUME PortInv, NEW t \in Callers, NEW w \in Frames, mac_pc[t] \in {"add", "add2"}
  PROVE  (accum[w] + stats[t][w]) % Long = accum[w] + stats[t][w]
<1>0. w \in Words /\ w \in Counters
  BY FrameWord
<1>1. WordIn(t, w) = stats[t][w] /\ WordIn(t, w) \in Nat
  BY <1>0, WordInType DEF WordIn, PortInv
<1>2. WordsIn(w) \in Nat /\ WordIn(t, w) <= WordsIn(w)
  BY <1>0, WordsInType DEF PortInv
<1>3. mac[w] \in Nat /\ accum[w] \in Nat /\ loaded[Beside(w)] \in Nat
  BY <1>0, BesideWord DEF PortInv, PortType
<1>4. counted[w] <= MaxFrames /\ mac[w] + WordsIn(w) + accum[w] + loaded[Beside(w)] = counted[w]
  BY DEF PortInv, WordBooks
<1>5. MaxFrames < Long /\ MaxFrames \in Nat
  BY StatsAssumption, WordArithmetic
<1>6. accum[w] + stats[t][w] \in Nat /\ accum[w] + stats[t][w] < Long
  <2> HIDE DEF Long
  <2> QED BY <1>1, <1>2, <1>3, <1>4, <1>5, WordArithmetic
<1> QED BY <1>6, WordArithmetic

-----------------------------------------------------------------------------
LEMMA PortsInitially == StatsInit => PortInv
<1> SUFFICES ASSUME StatsInit PROVE PortInv
  OBVIOUS
<1>1. PortType
  <2>1. Zero \in [Words -> Nat]
    BY DEF Zero
  <2> QED BY <2>1 DEF StatsInit, PortType, PortLabels
<1>2. ASSUME NEW t \in Callers PROVE RegistersOf(t)
  BY DEF StatsInit, RegistersOf
<1>3. ASSUME NEW w \in Frames PROVE WordBooks(w)
  <2> DEFINE f == [t \in Callers |-> WordIn(t, w)]
  <2>1. \A t \in Callers : f[t] = 0
    BY DEF StatsInit, WordIn
  <2>2. WordsIn(w) = SumFunctionOnSet(f, Callers)
    BY DEF WordsIn, SumFunction
  <2> HIDE DEF f
  <2>3. WordsIn(w) = 0
    BY <2>1, <2>2, SumZero, StatsAssumption
  <2>4. mac[w] = 0 /\ counted[w] = 0 /\ accum[w] = 0 /\ loaded[Beside(w)] = 0
    BY FrameWord, BesideWord DEF StatsInit, Zero
  <2> QED BY <2>3, <2>4, StatsAssumption DEF WordBooks
<1> QED BY <1>1, <1>2, <1>3 DEF PortInv

LEMMA CountFrameKeeps ==
  ASSUME PortInv, NEW w \in Counters, NEW n \in Nat, CountFrame(w, n)
  PROVE  PortInv'
<1> USE DEF PortInv
<1>1. mac[w] \in Nat /\ counted[w] \in Nat
  BY DEF PortType
<1>2. PortType'
  BY <1>1 DEF CountFrame, PortType
<1>3. ASSUME NEW t \in Callers PROVE RegistersOf(t)'
  BY DEF CountFrame, RegistersOf
<1>4. ASSUME NEW v \in Frames PROVE WordBooks(v)'
  <2>0. v \in Words /\ v \in Counters /\ v \notin Octets
    BY FrameWord
  <2>1. WordsIn(v)' = WordsIn(v)
    BY DEF CountFrame, WordsIn, WordIn
  <2>2. WordsIn(v) \in Nat
    BY <2>0, WordsInType
  <2>3. mac[v] \in Nat /\ accum[v] \in Nat /\ loaded[Beside(v)] \in Nat /\ counted[v] \in Nat
    BY <2>0, BesideWord DEF PortType
  <2>4. counted[v] <= MaxFrames /\ mac[v] + WordsIn(v) + accum[v] + loaded[Beside(v)] = counted[v]
    BY DEF WordBooks
  <2>5. accum' = accum /\ loaded' = loaded
    BY DEF CountFrame
  <2>6. CASE v = w
    <3>1. mac'[v] = mac[v] + n /\ counted'[v] = counted[v] + n /\ counted[v] + n <= MaxFrames
      BY <2>0, <2>6 DEF CountFrame, PortType
    <3> QED BY <2>1, <2>2, <2>3, <2>4, <2>5, <3>1 DEF WordBooks
  <2>7. CASE v # w
    <3>1. mac'[v] = mac[v] /\ counted'[v] = counted[v]
      BY <2>7 DEF CountFrame, PortType
    <3> QED BY <2>1, <2>4, <2>5, <3>1 DEF WordBooks
  <2> QED BY <2>6, <2>7
<1> QED BY <1>2, <1>3, <1>4

\* What holds of the threads that do not take the step.
LEMMA OthersKeep ==
  ASSUME NEW t \in Callers, NEW u \in Callers \ {t}, RegistersOf(u),
         mac_pc'[u] = mac_pc[u], at'[u] = at[u], stats'[u] = stats[u]
  PROVE  RegistersOf(u)'
BY DEF RegistersOf

LEMMA CallForPortKeeps ==
  ASSUME PortInv, NEW t \in Callers, NEW label \in {"read", "read_only"},
         CallStats(t, label, {})
  PROVE  PortInv'
<1> USE DEF PortInv
<1>1. PortType'
  BY DEF CallStats, Goto, head, port, PortType, PortLabels
<1>2. mac_pc[t] = "idle" /\ mac_pc'[t] = label /\ at'[t] = 0 /\ stats' = stats
  BY DEF CallStats, Goto, PortType
<1>3. \A u \in Callers \ {t} : mac_pc'[u] = mac_pc[u] /\ at'[u] = at[u] /\ stats'[u] = stats[u]
  BY DEF CallStats, Goto, PortType
<1>4. ASSUME NEW u \in Callers PROVE RegistersOf(u)'
  <2>1. CASE u = t
    BY <1>2, <2>1 DEF RegistersOf
  <2>2. CASE u # t
    BY <1>3, <2>2, OthersKeep
  <2> QED BY <2>1, <2>2
<1>5. ASSUME NEW w \in Frames PROVE WordBooks(w)'
  <2>1. WordIn(t, w) = 0 /\ WordIn(t, w)' = 0
    BY <1>2 DEF WordIn
  <2>2. mac' = mac /\ accum' = accum /\ loaded' = loaded /\ counted' = counted
    BY DEF CallStats, port
  <2> QED BY <1>1, <1>3, <2>1, <2>2, WordsMoved
<1> QED BY <1>1, <1>4, <1>5

LEMMA ReadKeeps ==
  ASSUME PortInv, NEW t \in Callers, ReadSegment(t)
  PROVE  PortInv'
<1> USE DEF PortInv
<1>1. PICK a \in Nat : a = at[t]
  BY DEF PortType
<1>2. mac_pc[t] \in {"read", "read_only"}
  BY DEF ReadSegment, PortType, PortLabels
<1>3. /\ mac' = [w \in Counters |-> IF w \in Segment(a) \cap Counters THEN 0 ELSE mac[w]]
      /\ stats' = [stats EXCEPT ![t] =
                     [w \in Words |-> IF w \in Segment(a) THEN MacWord(w) ELSE 0]]
      /\ UNCHANGED <<counted, accum, loaded, at>>
  BY <1>1 DEF ReadSegment
<1>4. /\ mac_pc' \in [Callers -> PortLabels]
      /\ mac_pc'[t] = IF mac_pc[t] = "read" THEN "add" ELSE "load"
      /\ \A u \in Callers \ {t} : mac_pc'[u] = mac_pc[u]
  BY <1>2 DEF ReadSegment, Goto, AfterRead, PortType, PortLabels
<1>5. \A w \in Words : MacWord(w) \in Nat
  <2> SUFFICES ASSUME NEW w \in Words PROVE MacWord(w) \in Nat
    OBVIOUS
  <2>1. CASE w \in Octets
    BY <2>1, OctetWords, WordArithmetic DEF MacWord, PortType
  <2>2. CASE w \notin Octets /\ w - 1 \in Octets
    BY <2>2, OctetWords, WordArithmetic DEF MacWord, PortType
  <2>3. CASE w \notin Octets /\ w - 1 \notin Octets
    BY <2>3 DEF MacWord, PortType, Counters
  <2> QED BY <2>1, <2>2, <2>3
<1>6. /\ stats' \in [Callers -> [Words -> Nat]]
      /\ \A u \in Callers \ {t} : stats'[u] = stats[u]
      /\ \A w \in Words : stats'[t][w] = IF w \in Segment(a) THEN MacWord(w) ELSE 0
  BY <1>3, <1>5 DEF PortType
<1>7. PortType'
  BY <1>3, <1>4, <1>6 DEF PortType
<1>8. ASSUME NEW u \in Callers PROVE RegistersOf(u)'
  <2>1. CASE u = t
    BY <1>1, <1>3, <1>4, <1>6, <2>1 DEF RegistersOf
  <2>2. CASE u # t
    BY <1>3, <1>4, <1>6, <2>2, OthersKeep
  <2> QED BY <2>1, <2>2
<1>9. ASSUME NEW w \in Frames PROVE WordBooks(w)'
  <2>0. w \in Words /\ w \in Counters /\ MacWord(w) = mac[w]
    BY FrameWord DEF MacWord
  <2>1. WordIn(t, w) = 0 /\ WordIn(t, w)' = stats'[t][w]
    BY <1>2, <1>4 DEF WordIn
  <2>2. mac[w] \in Nat /\ accum[w] \in Nat /\ loaded[Beside(w)] \in Nat
    BY <2>0, BesideWord DEF PortType
  <2>3. mac'[w] + stats'[t][w] = mac[w]
    BY <1>3, <1>6, <2>0, <2>2
  <2>4. mac'[w] \in Nat /\ stats'[t][w] \in Nat
    BY <1>6, <1>7, <2>0 DEF PortType
  <2>5. mac'[w] + WordIn(t, w)' + accum'[w] + loaded'[Beside(w)]
          = mac[w] + WordIn(t, w) + accum[w] + loaded[Beside(w)]
    BY <1>3, <2>1, <2>2, <2>3, <2>4
  <2> QED BY <1>3, <1>4, <1>6, <1>7, <2>5, WordsMoved
<1> QED BY <1>7, <1>8, <1>9

\* After a segment comes the next one, if there is one.
LEMMA NextSegmentSteps ==
  ASSUME PortType, NEW t \in Callers, at[t] % 2 = 0,
         NEW label \in PortLabels, NEW end \in PortLabels, label # end,
         NextSegment(t, label, end)
  PROVE  /\ mac_pc' \in [Callers -> PortLabels] /\ at' \in [Callers -> Nat]
         /\ mac_pc'[t] \in {label, end} /\ at'[t] % 2 = 0
         /\ mac_pc'[t] = end /\ end = "fix" => at'[t] = Min(Octets) /\ at'[t] \in Octets
         /\ \A u \in Callers \ {t} : mac_pc'[u] = mac_pc[u] /\ at'[u] = at[u]
<1>1. PICK a \in Nat : a = at[t]
  BY DEF PortType
<1>2. CASE a + SegWords < NWords
  <2>1. mac_pc' = [mac_pc EXCEPT ![t] = label] /\ at' = [at EXCEPT ![t] = a + SegWords]
    BY <1>1, <1>2 DEF NextSegment, Goto
  <2>2. (a + SegWords) % 2 = 0 /\ a + SegWords \in Nat
    BY <1>1, StatsAssumption
  <2> QED BY <2>1, <2>2 DEF PortType
<1>3. CASE ~(a + SegWords < NWords)
  <2> DEFINE n == IF end = "fix" THEN Min(Octets) ELSE 0
  <2>1. mac_pc' = [mac_pc EXCEPT ![t] = end] /\ at' = [at EXCEPT ![t] = n]
    BY <1>1, <1>3 DEF NextSegment, Goto
  <2>2. Min(Octets) \in Octets
    BY StatsAssumption, LeastOctet
  <2>3. n \in Nat /\ n % 2 = 0 /\ (end = "fix" => n = Min(Octets))
    <3>1. Min(Octets) \in Nat /\ Min(Octets) % 2 = 0
      BY <2>2, OctetWords, StatsAssumption
    <3> QED BY <3>1
  <2> HIDE DEF n
  <2> QED BY <2>1, <2>2, <2>3 DEF PortType
<1> QED BY <1>2, <1>3

\* One of the two additions; whatever is not added stays in the registers.
LEMMA AddSteps ==
  ASSUME PortInv, NEW t \in Callers, AddHalf(t)
  PROVE  /\ PortType' /\ \A u \in Callers : RegistersOf(u)'
         /\ \A u \in Callers \ {t} :
              mac_pc'[u] = mac_pc[u] /\ at'[u] = at[u] /\ stats'[u] = stats[u]
         /\ mac_pc[t] = "add" => mac_pc'[t] = "add2"
         /\ mac_pc[t] = "add2" =>
              /\ mac_pc'[t] \in {"read", "fix"} /\ \A w \in Words : stats'[t][w] = 0
              /\ mac_pc'[t] = "fix" => at'[t] = Min(Octets)
         /\ \A w \in Words :
              (accum[w] + stats[t][w]) % Long = accum[w] + stats[t][w] =>
                accum'[w] + stats'[t][w] = accum[w] + stats[t][w]
         /\ \A w \in Words : stats'[t][w] <= stats[t][w]
<1> USE DEF PortInv
<1>1. PICK a \in Nat : a = at[t]
  BY DEF PortType
<1>2. mac_pc[t] \in {"add", "add2"} /\ RegistersOf(t)
  BY DEF AddHalf
<1>3. PICK H : H = Half(a, mac_pc[t])
  OBVIOUS
<1>4. /\ accum' = [w \in Words |-> IF w \in H THEN (accum[w] + stats[t][w]) % Long
                                   ELSE accum[w]]
      /\ stats' = [stats EXCEPT ![t] = [w \in Words |-> IF w \in H THEN 0 ELSE stats[t][w]]]
  BY <1>1, <1>3 DEF AddHalf, PortType
<1>5. stats[t] \in [Words -> Nat] /\ accum \in [Words -> Nat]
  BY DEF PortType
<1>6. \A w \in Words : (accum[w] + stats[t][w]) % Long \in Nat
  BY <1>5, WordArithmetic
<1>7. accum' \in [Words -> Nat]
  BY <1>4, <1>5, <1>6
<1>8. /\ stats' \in [Callers -> [Words -> Nat]]
      /\ \A u \in Callers \ {t} : stats'[u] = stats[u]
      /\ \A w \in Words : stats'[t][w] = IF w \in H THEN 0 ELSE stats[t][w]
  BY <1>4, <1>5 DEF PortType
<1>9. ASSUME NEW w \in Words,
             (accum[w] + stats[t][w]) % Long = accum[w] + stats[t][w]
      PROVE  accum'[w] + stats'[t][w] = accum[w] + stats[t][w]
  BY <1>4, <1>5, <1>8, <1>9
<1>10. /\ mac_pc' \in [Callers -> PortLabels] /\ at' \in [Callers -> Nat]
       /\ \A u \in Callers \ {t} : mac_pc'[u] = mac_pc[u] /\ at'[u] = at[u]
       /\ mac_pc[t] = "add" => mac_pc'[t] = "add2" /\ at'[t] = a
       /\ mac_pc[t] = "add2" =>
            /\ mac_pc'[t] \in {"read", "fix"} /\ at'[t] % 2 = 0
            /\ mac_pc'[t] = "fix" => at'[t] = Min(Octets) /\ at'[t] \in Octets
  <2>1. CASE mac_pc[t] = "add"
    <3>1. mac_pc' = [mac_pc EXCEPT ![t] = "add2"] /\ at' = at
      BY <2>1 DEF AddHalf, Goto
    <3> QED BY <1>1, <2>1, <3>1 DEF PortType, PortLabels
  <2>2. CASE mac_pc[t] = "add2"
    <3>1. NextSegment(t, "read", "fix")
      BY <2>2 DEF AddHalf
    <3>2. at[t] % 2 = 0 /\ "read" \in PortLabels /\ "fix" \in PortLabels /\ "read" # "fix"
      BY <1>2 DEF RegistersOf, PortLabels
    <3> HIDE DEF PortInv
    <3>3. PortType
      BY DEF PortInv
    <3> QED BY <2>2, <3>1, <3>2, <3>3, NextSegmentSteps
  <2> QED BY <1>2, <2>1, <2>2
<1>11. PortType'
  BY <1>7, <1>8, <1>10 DEF AddHalf, PortType
<1>12. mac_pc[t] = "add" => \A w \in Words \ Half(a, "add2") : stats'[t][w] = 0
  <2> SUFFICES ASSUME mac_pc[t] = "add", NEW w \in Words \ Half(a, "add2")
               PROVE  stats'[t][w] = 0
    OBVIOUS
  <2>1. CASE w \in H
    BY <1>8, <2>1
  <2>2. CASE w \notin H
    <3>1. w \notin Segment(a)
      BY <1>3, <2>2, StatsAssumption DEF Segment, Half, Words
    <3>2. stats[t][w] = 0
      BY <1>1, <1>2, <3>1 DEF RegistersOf
    <3> QED BY <1>8, <2>2, <3>2
  <2> QED BY <2>1, <2>2
<1>13. mac_pc[t] = "add2" => \A w \in Words : stats'[t][w] = 0
  BY <1>1, <1>2, <1>3, <1>8 DEF RegistersOf
<1>14. ASSUME NEW u \in Callers PROVE RegistersOf(u)'
  <2>1. CASE u = t /\ mac_pc[t] = "add"
    BY <1>1, <1>2, <1>10, <1>12, <2>1 DEF RegistersOf
  <2>2. CASE u = t /\ mac_pc[t] = "add2"
    BY <1>10, <2>2 DEF RegistersOf
  <2>3. CASE u # t
    BY <1>8, <1>10, <2>3, OthersKeep
  <2> QED BY <1>2, <2>1, <2>2, <2>3
<1>15. \A w \in Words : stats'[t][w] <= stats[t][w]
  BY <1>5, <1>8
<1> QED BY <1>8, <1>9, <1>10, <1>11, <1>13, <1>14, <1>15

LEMMA AddKeeps ==
  ASSUME PortInv, NEW t \in Callers, AddHalf(t)
  PROVE  PortInv'
<1>1. /\ PortType' /\ \A u \in Callers : RegistersOf(u)'
      /\ \A u \in Callers \ {t} :
           mac_pc'[u] = mac_pc[u] /\ at'[u] = at[u] /\ stats'[u] = stats[u]
      /\ mac_pc[t] = "add" => mac_pc'[t] = "add2"
      /\ mac_pc[t] = "add2" =>
           mac_pc'[t] \in {"read", "fix"} /\ \A w \in Words : stats'[t][w] = 0
      /\ \A w \in Words :
           (accum[w] + stats[t][w]) % Long = accum[w] + stats[t][w] =>
             accum'[w] + stats'[t][w] = accum[w] + stats[t][w]
  BY AddSteps
<1>2. mac_pc[t] \in {"add", "add2"} /\ UNCHANGED <<mac, counted, loaded>>
  BY DEF AddHalf
<1>3. ASSUME NEW w \in Frames PROVE WordBooks(w)'
  <2>1. w \in Words /\ w \in Counters
    BY FrameWord
  <2>2. accum'[w] + stats'[t][w] = accum[w] + stats[t][w]
    BY <1>1, <1>2, <2>1, NoWordOverflow
  <2>3. WordIn(t, w) = stats[t][w] /\ WordIn(t, w)' = stats'[t][w]
    BY <1>1, <1>2, <2>1 DEF WordIn
  <2>4. /\ mac[w] \in Nat /\ accum[w] \in Nat /\ loaded[Beside(w)] \in Nat /\ stats[t][w] \in Nat
        /\ accum'[w] \in Nat /\ stats'[t][w] \in Nat
    BY <1>1, <2>1, BesideWord DEF PortInv, PortType
  <2>5. mac'[w] + WordIn(t, w)' + accum'[w] + loaded'[Beside(w)]
          = mac[w] + WordIn(t, w) + accum[w] + loaded[Beside(w)]
    BY <1>2, <2>2, <2>3, <2>4
  <2> QED BY <1>1, <1>2, <2>5, WordsMoved
<1> QED BY <1>1, <1>3 DEF PortInv

LEMMA LoadKeeps ==
  ASSUME PortInv, NEW t \in Callers, LoadSegment(t)
  PROVE  PortInv'
<1> USE DEF PortInv
<1>1. /\ mac_pc[t] = "load" /\ RegistersOf(t)
      /\ loaded' = [w \in Words |-> loaded[w] + stats[t][Beside(w)]]
      /\ stats' = [stats EXCEPT ![t] = Zero]
      /\ UNCHANGED <<mac, counted, accum>>
  BY DEF LoadSegment
<1>2. NextSegment(t, "read_only", "idle") /\ at[t] % 2 = 0
  BY <1>1 DEF LoadSegment, RegistersOf
<1>3. /\ mac_pc' \in [Callers -> PortLabels] /\ at' \in [Callers -> Nat]
      /\ mac_pc'[t] \in {"read_only", "idle"} /\ at'[t] % 2 = 0
      /\ \A u \in Callers \ {t} : mac_pc'[u] = mac_pc[u] /\ at'[u] = at[u]
  <2>1. "read_only" \in PortLabels /\ "idle" \in PortLabels /\ "read_only" # "idle"
    BY DEF PortLabels
  <2>2. PortType
    OBVIOUS
  <2> HIDE DEF PortInv
  <2> QED BY <1>2, <2>1, <2>2, NextSegmentSteps
<1>4. /\ stats' \in [Callers -> [Words -> Nat]]
      /\ \A u \in Callers \ {t} : stats'[u] = stats[u]
      /\ \A w \in Words : stats'[t][w] = 0
  BY <1>1 DEF PortType, Zero
<1>5. loaded' \in [Words -> Nat]
  BY <1>1, BesideWord DEF PortType
<1>6. PortType'
  BY <1>1, <1>3, <1>4, <1>5 DEF PortType
<1>7. ASSUME NEW u \in Callers PROVE RegistersOf(u)'
  <2>1. CASE u = t
    BY <1>3, <2>1 DEF RegistersOf
  <2>2. CASE u # t
    BY <1>3, <1>4, <2>2, OthersKeep
  <2> QED BY <2>1, <2>2
<1>8. ASSUME NEW w \in Frames PROVE WordBooks(w)'
  <2>1. w \in Words /\ w \in Counters
    BY FrameWord
  <2>2. WordIn(t, w) = stats[t][w] /\ WordIn(t, w)' = 0
    BY <1>1, <1>3 DEF WordIn
  <2>3. /\ mac[w] \in Nat /\ accum[w] \in Nat /\ loaded[Beside(w)] \in Nat /\ stats[t][w] \in Nat
    BY <2>1, BesideWord DEF PortType
  <2>4. loaded'[Beside(w)] = loaded[Beside(w)] + stats[t][w]
    BY <1>1, <2>1, BesideWord
  <2>5. mac'[w] + WordIn(t, w)' + accum'[w] + loaded'[Beside(w)]
          = mac[w] + WordIn(t, w) + accum[w] + loaded[Beside(w)]
    BY <1>1, <2>2, <2>3, <2>4
  <2> QED BY <1>1, <1>3, <1>4, <1>6, <2>5, WordsMoved
<1> QED BY <1>6, <1>7, <1>8

\* The correction of octets leaves all other words alone.
LEMMA FixTypes ==
  ASSUME PortInv, NEW t \in Callers, FixRead(t) \/ FixWrite(t) \/ FixClear(t)
  PROVE  PortType'
<1> USE DEF PortInv
<1>1. RegistersOf(t) /\ mac_pc[t] \in {"fix", "fix_write", "fix_clear"}
  BY DEF FixRead, FixWrite, FixClear
<1>2. PICK a \in Octets : a = at[t]
  BY <1>1 DEF RegistersOf
<1>3. a \in Words /\ a + 1 \in Words /\ a \in Nat
  BY OctetWords
<1>4. \A n \in Nat : AsRead(n) \in Nat
  <2> SUFFICES ASSUME NEW n \in Nat PROVE AsRead(n) \in Nat
    OBVIOUS
  <2>1. PICK k \in Nat, m \in Nat : k = n % Word /\ m = n \div Word
    BY WordArithmetic
  <2>2. k * Word \in Nat
    BY WordArithmetic
  <2> QED BY <2>1, <2>2 DEF AsRead
<1>5. CASE FixRead(t)
  <2>1. stats' = [stats EXCEPT ![t] = [w \in Words |->
                    IF w \in {a, a + 1} THEN AsRead(accum[w]) ELSE 0]]
    BY <1>2, <1>5 DEF FixRead
  <2>2. stats' \in [Callers -> [Words -> Nat]]
    BY <1>4, <2>1 DEF PortType
  <2>3. mac_pc' \in [Callers -> PortLabels]
    BY <1>5 DEF FixRead, Goto, PortType, PortLabels
  <2> QED BY <1>5, <2>2, <2>3 DEF FixRead, port, PortType
<1>6. CASE FixWrite(t)
  <2>1. PICK n : n = AsRead(Fixed(stats[t][a], stats[t][a + 1]))
    OBVIOUS
  <2>2. n \in Nat
    <3>1. PICK x \in Nat, y \in Nat : x = stats[t][a] /\ y = stats[t][a + 1]
      BY <1>3 DEF PortType
    <3>2. y * Word \in Nat
      BY WordArithmetic
    <3>3. Fixed(x, y) \in Nat
      BY <3>2, WordArithmetic DEF Fixed
    <3> QED BY <1>4, <2>1, <3>1, <3>3
  <2>3. accum' = [accum EXCEPT ![a] = n]
    BY <1>2, <1>6, <2>1 DEF FixWrite
  <2>4. accum' \in [Words -> Nat]
    BY <2>2, <2>3 DEF PortType
  <2>5. stats' \in [Callers -> [Words -> Nat]] /\ mac_pc' \in [Callers -> PortLabels]
    BY <1>6 DEF FixWrite, Goto, Zero, PortType, PortLabels
  <2> QED BY <1>6, <2>4, <2>5 DEF FixWrite, PortType
<1>7. CASE FixClear(t)
  <2>1. accum' \in [Words -> Nat]
    BY <1>7 DEF FixClear, PortType
  <2> DEFINE rest == {o \in Octets : o > at[t]}
  <2>2. rest # {} => Min(rest) \in Nat
    BY LeastOctet, OctetWords
  <2>3. \/ rest = {} /\ Goto(t, "idle") /\ at' = [at EXCEPT ![t] = 0]
        \/ rest # {} /\ Goto(t, "fix") /\ at' = [at EXCEPT ![t] = Min(rest)]
    BY <1>7 DEF FixClear
  <2> HIDE DEF rest
  <2>4. at' \in [Callers -> Nat]
    BY <2>2, <2>3 DEF PortType
  <2>5. mac_pc' \in [Callers -> PortLabels]
    BY <2>3 DEF Goto, PortType, PortLabels
  <2> QED BY <1>7, <2>1, <2>4, <2>5 DEF FixClear, PortType
<1> QED BY <1>5, <1>6, <1>7

\* Where the correction goes.
LEMMA FixSteps ==
  ASSUME PortInv, NEW t \in Callers, FixRead(t) \/ FixWrite(t) \/ FixClear(t)
  PROVE  /\ RegistersOf(t)'
         /\ mac_pc[t] \in {"fix", "fix_write", "fix_clear"}
         /\ mac_pc'[t] \in {"fix", "fix_write", "fix_clear", "idle"}
         /\ \A u \in Callers \ {t} :
              mac_pc'[u] = mac_pc[u] /\ at'[u] = at[u] /\ stats'[u] = stats[u]
         /\ UNCHANGED <<mac, counted, loaded>>
         /\ \A w \in Words \ {at[t], at[t] + 1} : accum'[w] = accum[w]
         /\ mac_pc[t] = "fix_clear" =>
              LET rest == {o \in Octets : o > at[t]}
              IN  \/ rest = {} /\ mac_pc'[t] = "idle"
                  \/ rest # {} /\ mac_pc'[t] = "fix" /\ at'[t] = Min(rest)
<1> USE DEF PortInv
<1>1. RegistersOf(t) /\ mac_pc[t] \in {"fix", "fix_write", "fix_clear"}
  BY DEF FixRead, FixWrite, FixClear
<1>2. CASE FixRead(t)
  BY <1>1, <1>2 DEF FixRead, Goto, RegistersOf, PortType, port
<1>3. CASE FixWrite(t)
  BY <1>1, <1>3 DEF FixWrite, Goto, RegistersOf, PortType
<1>4. CASE FixClear(t)
  <2> DEFINE rest == {o \in Octets : o > at[t]}
  <2>1. rest # {} => Min(rest) \in Octets /\ Min(rest) % 2 = 0
    BY LeastOctet, StatsAssumption
  <2>2. \/ rest = {} /\ Goto(t, "idle") /\ at' = [at EXCEPT ![t] = 0]
        \/ rest # {} /\ Goto(t, "fix") /\ at' = [at EXCEPT ![t] = Min(rest)]
    BY <1>4 DEF FixClear
  <2>3. \/ rest = {} /\ mac_pc'[t] = "idle" /\ at'[t] = 0
        \/ rest # {} /\ mac_pc'[t] = "fix" /\ at'[t] = Min(rest)
    <3> HIDE DEF rest
    <3> QED BY <2>2 DEF Goto, PortType
  <2>4. \A u \in Callers \ {t} :
          mac_pc'[u] = mac_pc[u] /\ at'[u] = at[u] /\ stats'[u] = stats[u]
    <3> HIDE DEF rest
    <3> QED BY <1>4, <2>2 DEF FixClear, Goto, PortType
  <2>5. UNCHANGED <<mac, counted, loaded>>
        /\ \A w \in Words \ {at[t], at[t] + 1} : accum'[w] = accum[w]
    BY <1>4 DEF FixClear, PortType
  <2>6. RegistersOf(t)'
    <3> HIDE DEF rest
    <3> QED BY <2>1, <2>3 DEF RegistersOf
  <2> QED BY <1>1, <2>3, <2>4, <2>5, <2>6
<1> QED BY <1>2, <1>3, <1>4

LEMMA FixKeeps ==
  ASSUME PortInv, NEW t \in Callers, FixRead(t) \/ FixWrite(t) \/ FixClear(t)
  PROVE  PortInv'
<1>1. PortType'
  BY FixTypes
<1>2. /\ RegistersOf(t)'
      /\ mac_pc[t] \in {"fix", "fix_write", "fix_clear"}
      /\ mac_pc'[t] \in {"fix", "fix_write", "fix_clear", "idle"}
      /\ \A u \in Callers \ {t} :
           mac_pc'[u] = mac_pc[u] /\ at'[u] = at[u] /\ stats'[u] = stats[u]
      /\ UNCHANGED <<mac, counted, loaded>>
      /\ \A w \in Words \ {at[t], at[t] + 1} : accum'[w] = accum[w]
  BY FixSteps
<1>3. ASSUME NEW u \in Callers PROVE RegistersOf(u)'
  <2>1. CASE u = t
    BY <1>2, <2>1
  <2>2. CASE u # t
    BY <1>2, <2>2, OthersKeep DEF PortInv
  <2> QED BY <2>1, <2>2
<1>4. ASSUME NEW w \in Frames PROVE WordBooks(w)'
  <2>1. PICK a \in Octets : a = at[t]
    BY <1>2 DEF PortInv, RegistersOf
  <2>2. w # a /\ w # a + 1 /\ w \in Words
    BY FrameWord, OctetWords
  <2>3. accum'[w] = accum[w] /\ WordIn(t, w) = 0 /\ WordIn(t, w)' = 0
    BY <1>2, <2>1, <2>2 DEF WordIn
  <2> QED BY <1>1, <1>2, <2>3, WordsMoved
<1> QED BY <1>1, <1>3, <1>4 DEF PortInv

LEMMA PortsKept ==
  ASSUME PortInv, [PortNext]_mac_vars
  PROVE  PortInv'
<1>1. CASE \E w \in Octets, n \in Growth : CountFrame(w, n)
  BY <1>1, OctetWords, CountFrameKeeps, StatsAssumption
<1>2. CASE \E w \in Counters \ Octets : CountFrame(w, 1)
  BY <1>2, CountFrameKeeps
<1>3. ASSUME NEW t \in Callers,
             \/ CallStats(t, "read", {}) \/ CallStats(t, "read_only", {})
             \/ ReadSegment(t) \/ AddHalf(t) \/ LoadSegment(t)
             \/ FixRead(t) \/ FixWrite(t) \/ FixClear(t)
      PROVE  PortInv'
  BY <1>3, CallForPortKeeps, ReadKeeps, AddKeeps, LoadKeeps, FixKeeps
<1>4. CASE UNCHANGED mac_vars
  BY <1>4 DEF mac_vars, port, PortInv, PortType, RegistersOf, WordBooks, WordsIn, WordIn
<1> QED BY <1>1, <1>2, <1>3, <1>4 DEF PortNext

LEMMA PortsSafe == PortSpec => []PortInv
BY PortsInitially, PortsKept, PTL DEF PortSpec

(* However many threads accumulate and read the statistics of a port, no   *)
(* frame that a counter of 32 bits counted is lost or counted twice.       *)
THEOREM EveryFrameOnce == PortSpec => []StatsConserved
<1>1. PortInv => StatsConserved
  BY DEF PortInv, WordBooks, Frames, StatsConserved, NoProgram
<1> QED BY <1>1, PortsSafe, PTL

-----------------------------------------------------------------------------
(***************************************************************************)
(* Octets: counters of two words, and a correction that may undo what      *)
(* others add, but never adds anything itself.                             *)
(***************************************************************************)
\* A product of naturals, for the provers a number like any other.
LEMMA Times == ASSUME NEW n \in Nat PROVE n * Word \in Nat
BY StatsAssumption

LEMMA TimesSum ==
  ASSUME NEW x \in Int, NEW y \in Int
  PROVE  (x + y) * Word = x * Word + y * Word
BY StatsAssumption

\* Exchanging the words of a number twice gives the number, and what is read of
\* an upper word leaves 64 bits when it is shifted.
LEMMA ReadTwice ==
  ASSUME NEW a \in Nat, a < Long
  PROVE  AsRead(a) \in Nat /\ AsRead(a) < Long /\ AsRead(AsRead(a)) = a
<1>1. Word \in Nat \ {0} /\ Long = Word * Word
  BY StatsAssumption DEF Long
<1>2. PICK r \in Nat, q \in Nat : r = (a % Word) /\ q = a \div Word
  BY WordArithmetic
<1>3. r < Word /\ r + q * Word = a
  BY <1>1, <1>2, WordArithmetic
<1>4. q < Word
  <2>1. ASSUME q >= Word PROVE FALSE
    <3>1. q * Word >= Word * Word
      BY <1>1, <2>1
    <3>2. q * Word \in Nat /\ Word * Word \in Nat
      BY <1>1
    <3> QED BY <1>1, <1>3, <3>1, <3>2
  <2> QED BY <1>1, <2>1
<1>5. AsRead(a) = r * Word + q
  BY <1>2 DEF AsRead
<1>6. (r * Word + q) % Word = q /\ (r * Word + q) \div Word = r
  <2>1. r * Word + q = Word * r + q /\ r \in Int /\ q \in 0 .. Word - 1
    BY <1>1, <1>4
  <2> QED BY <1>1, <2>1
<1>7. AsRead(AsRead(a)) = q * Word + r
  BY <1>5, <1>6 DEF AsRead
<1>8. r * Word \in Nat /\ q * Word \in Nat
  BY Times
<1>9. r * Word + q < Word * Word
  <2>1. r <= Word - 1
    BY <1>1, <1>3
  <2>2. r * Word <= (Word - 1) * Word
    BY <1>1, <2>1
  <2>3. (Word - 1) * Word = Word * Word - Word /\ Word * Word \in Nat
    BY <1>1
  <2> QED BY <1>1, <1>4, <1>8, <2>2, <2>3
<1> QED BY <1>1, <1>3, <1>5, <1>7, <1>8, <1>9

LEMMA CorrectedIs ==
  ASSUME NEW a \in Nat, a < Long, NEW b \in Nat, b < Word
  PROVE  AsRead(Fixed(AsRead(a), AsRead(b))) = a
<1>1. Word \in Nat \ {0} /\ Long \in Nat \ {0} /\ Long = Word * Word
  BY StatsAssumption, WordArithmetic DEF Long
<1>2. (b % Word) = b /\ b \div Word = 0
  BY <1>1
<1>3. AsRead(b) = b * Word
  <2>1. b * Word \in Nat
    BY Times
  <2> QED BY <1>2, <2>1 DEF AsRead
<1>4. (b * Word) * Word = b * Long
  BY <1>1
<1>5. PICK n \in Nat : n = AsRead(a) /\ n < Long
  BY ReadTwice
<1>6. (n + b * Long) % Long = n
  <2> HIDE DEF Long
  <2>1. Long \in Nat \ {0} /\ n \in 0 .. Long - 1
    BY <1>1, <1>5
  <2>2. n + b * Long = Long * b + n
    BY <2>1
  <2>3. (Long * b + n) % Long = n
    BY <2>1
  <2> QED BY <2>2, <2>3
<1>7. Fixed(AsRead(a), AsRead(b)) = n
  BY <1>3, <1>4, <1>5, <1>6 DEF Fixed
<1> QED BY <1>5, <1>7, ReadTwice

-----------------------------------------------------------------------------
\* What the correction under way is going to write.
Pending(t, o) == AsRead(Fixed(stats[t][o], stats[t][o + 1]))

Correcting(t, o) == mac_pc[t] = "fix_write" /\ at[t] = o

\* A whole number of upper words, which is all that may be missing.
Lacks(a, p) == \E k \in Nat : p = a + k * Word

OctetBooks(o) ==
  /\ counted[o] <= MaxOctets
  /\ accum[o] <= PassedOn(o) /\ accum[o + 1] * Word <= PassedOn(o)
  /\ \A t \in Callers : Correcting(t, o) => Pending(t, o) <= PassedOn(o) /\ Pending(t, o) \in Nat
  /\ ~overlap =>
       /\ Lacks(accum[o], PassedOn(o))
       /\ \A t \in Callers : Correcting(t, o) => Pending(t, o) = accum[o]

\* As long as no two calls have overlapped, one thread at most is at work.
OneAtWork ==
  ~overlap => \A t, u \in Callers : mac_pc[t] # "idle" /\ mac_pc[u] # "idle" => t = u

OctetsInv == PortInv /\ OneAtWork /\ \A o \in Octets : OctetBooks(o)

LEMMA OctetTypes ==
  ASSUME PortType, NEW o \in Octets, NEW t \in Callers
  PROVE  /\ mac[o] \in Nat /\ counted[o] \in Nat
         /\ accum[o] \in Nat /\ accum[o + 1] \in Nat
         /\ loaded[o + 1] \in Nat /\ loaded[o] \in Nat
         /\ stats[t][o] \in Nat /\ stats[t][o + 1] \in Nat
         /\ WordIn(t, o) \in Nat /\ WordIn(t, o + 1) \in Nat
         /\ OctetsOf(t, o) \in Nat
<1>1. WordIn(t, o) \in Nat /\ WordIn(t, o + 1) \in Nat
  BY OctetWords, WordInType
<1>2. OctetsOf(t, o) \in Nat
  BY <1>1, Times DEF OctetsOf
<1> QED BY <1>1, <1>2, OctetWords DEF PortType

LEMMA OctetsInType ==
  ASSUME PortType, NEW o \in Octets
  PROVE  OctetsIn(o) \in Nat /\ \A t \in Callers : OctetsOf(t, o) <= OctetsIn(o)
<1> DEFINE f == [t \in Callers |-> OctetsOf(t, o)]
<1>1. \A t \in Callers : f[t] \in Nat
  BY OctetTypes
<1>2. OctetsIn(o) = SumFunctionOnSet(f, Callers) /\ \A t \in Callers : f[t] = OctetsOf(t, o)
  BY DEF OctetsIn, SumFunction
<1> HIDE DEF f
<1> QED BY <1>1, <1>2, SumNat, SumBounds, StatsAssumption

LEMMA OctetsInChange ==
  ASSUME PortType, NEW o \in Octets, NEW t \in Callers,
         \A u \in Callers \ {t} : OctetsOf(u, o)' = OctetsOf(u, o),
         OctetsOf(t, o)' \in Nat
  PROVE  OctetsIn(o)' = OctetsIn(o) - OctetsOf(t, o) + OctetsOf(t, o)'
<1> DEFINE f == [u \in Callers |-> OctetsOf(u, o)]
           g == [u \in Callers |-> OctetsOf(u, o)']
<1>1. OctetsIn(o) = SumFunctionOnSet(f, Callers) /\ OctetsIn(o)' = SumFunctionOnSet(g, Callers)
  BY DEF OctetsIn, SumFunction
<1>2. IsFiniteSet(Callers)
  BY StatsAssumption
<1>3. /\ \A u \in Callers : f[u] \in Nat
      /\ g[t] \in Int /\ \A u \in Callers \ {t} : g[u] = f[u]
      /\ f[t] = OctetsOf(t, o) /\ g[t] = OctetsOf(t, o)'
  BY OctetTypes
<1> HIDE DEF f, g
<1>4. \A u \in Callers : f[u] \in Int
  BY <1>3
<1>5. SumFunctionOnSet(g, Callers) = SumFunctionOnSet(f, Callers) - f[t] + g[t]
  BY <1>2, <1>3, <1>4, SumChange
<1> QED BY <1>1, <1>3, <1>5

LEMMA PassedOnType ==
  ASSUME PortType, NEW o \in Octets
  PROVE  PassedOn(o) \in Int /\ PassedOn(o) <= counted[o]
<1>1. PICK t \in Callers : TRUE
  BY StatsAssumption
<1>2. /\ mac[o] \in Nat /\ counted[o] \in Nat /\ OctetsIn(o) \in Nat
      /\ loaded[o + 1] \in Nat /\ loaded[o] * Word \in Nat
  BY <1>1, OctetTypes, OctetsInType, Times
<1> QED BY <1>2 DEF PassedOn

\* A step of t hands n octets on if as many are gone from MAC, registers and
\* what was handed out.
LEMMA OctetsMoved ==
  ASSUME PortType, PortType', NEW t \in Callers, NEW o \in Octets,
         \A u \in Callers \ {t} : mac_pc'[u] = mac_pc[u] /\ stats'[u] = stats[u],
         counted' = counted, NEW n \in Int,
         mac'[o] + OctetsOf(t, o)' + (loaded'[o + 1] + loaded'[o] * Word) + n
           = mac[o] + OctetsOf(t, o) + (loaded[o + 1] + loaded[o] * Word)
  PROVE  PassedOn(o)' = PassedOn(o) + n
<1>1. \A u \in Callers \ {t} : OctetsOf(u, o)' = OctetsOf(u, o)
  BY DEF OctetsOf, WordIn
<1>2. OctetsOf(t, o) \in Nat /\ OctetsOf(t, o)' \in Nat
  <2>1. OctetsOf(t, o) \in Nat
    BY OctetTypes
  <2>2. o \in Words /\ o + 1 \in Words
    BY OctetWords
  <2>3. WordIn(t, o)' \in Nat /\ WordIn(t, o + 1)' \in Nat
    BY <2>2 DEF PortType, WordIn
  <2>4. PICK x \in Nat, y \in Nat : x = WordIn(t, o)' /\ y = WordIn(t, o + 1)'
    BY <2>3
  <2>5. x + y * Word \in Nat
    BY Times
  <2> QED BY <2>1, <2>4, <2>5 DEF OctetsOf
<1>3. OctetsIn(o)' = OctetsIn(o) - OctetsOf(t, o) + OctetsOf(t, o)'
  BY <1>1, <1>2, OctetsInChange
<1>4. /\ mac[o] \in Nat /\ counted[o] \in Nat /\ loaded[o + 1] \in Nat /\ loaded[o] \in Nat
      /\ OctetsIn(o) \in Nat
  BY OctetTypes, OctetsInType
<1>5. /\ mac'[o] \in Nat /\ loaded'[o + 1] \in Nat /\ loaded'[o] \in Nat
  BY OctetWords DEF PortType
<1>6. PICK l \in Nat, k \in Nat : l = loaded[o] * Word /\ k = loaded'[o] * Word
  BY <1>4, <1>5, Times
<1>7. PassedOn(o) = counted[o] - (mac[o] + OctetsIn(o) + (loaded[o + 1] + l))
  BY <1>6 DEF PassedOn
<1>8. PassedOn(o)' = counted[o] - (mac'[o] + OctetsIn(o)' + (loaded'[o + 1] + k))
  BY <1>6 DEF PassedOn
<1>9. mac'[o] + OctetsOf(t, o)' + (loaded'[o + 1] + k) + n
        = mac[o] + OctetsOf(t, o) + (loaded[o + 1] + l)
  BY <1>6
<1> QED BY <1>2, <1>3, <1>4, <1>5, <1>6, <1>7, <1>8, <1>9

\* Books and corrections stay as they are where a step leaves all of it alone.
LEMMA BooksStay ==
  ASSUME OctetsInv, NEW o \in Octets, PassedOn(o)' = PassedOn(o),
         accum'[o] = accum[o], accum'[o + 1] = accum[o + 1],
         counted'[o] <= MaxOctets, ~overlap' => ~overlap,
         \A t \in Callers : Correcting(t, o)' =>
           Correcting(t, o) /\ stats'[t] = stats[t]
  PROVE  OctetBooks(o)'
<1>1. OctetBooks(o)
  BY DEF OctetsInv
<1>2. \A t \in Callers : Correcting(t, o)' => Correcting(t, o) /\ Pending(t, o)' = Pending(t, o)
  BY DEF Pending
<1> QED BY <1>1, <1>2 DEF OctetBooks


-----------------------------------------------------------------------------
LEMMA OctetsInitially == StatsInit => OctetsInv
<1> SUFFICES ASSUME StatsInit PROVE OctetsInv
  OBVIOUS
<1>1. PortInv /\ PortType
  BY PortsInitially DEF PortInv
<1>2. OneAtWork
  BY DEF StatsInit, OneAtWork
<1>3. ASSUME NEW o \in Octets PROVE OctetBooks(o)
  <2> DEFINE f == [t \in Callers |-> OctetsOf(t, o)]
  <2>1. /\ mac[o] = 0 /\ counted[o] = 0 /\ accum[o] = 0 /\ accum[o + 1] = 0
        /\ loaded[o + 1] = 0 /\ loaded[o] = 0
    BY OctetWords DEF StatsInit, Zero
  <2>2. 0 * Word = 0
    BY StatsAssumption
  <2>3. \A t \in Callers : f[t] = 0
    BY <2>2 DEF StatsInit, OctetsOf, WordIn
  <2>4. OctetsIn(o) = SumFunctionOnSet(f, Callers)
    BY DEF OctetsIn, SumFunction
  <2> HIDE DEF f
  <2>5. OctetsIn(o) = 0
    BY <2>3, <2>4, SumZero, StatsAssumption
  <2>6. PassedOn(o) = 0
    BY <2>1, <2>2, <2>5 DEF PassedOn
  <2>7. Lacks(0, 0)
    BY <2>2 DEF Lacks
  <2>8. \A t \in Callers : ~Correcting(t, o)
    BY DEF StatsInit, Correcting
  <2> QED BY <2>1, <2>2, <2>6, <2>7, <2>8, StatsAssumption DEF OctetBooks
<1> QED BY <1>1, <1>2, <1>3 DEF OctetsInv

\* What the MAC counts is still in the MAC.
LEMMA CountingOctets ==
  ASSUME OctetsInv, NEW w \in Counters, NEW n \in Nat, CountFrame(w, n)
  PROVE  OctetsInv'
<1>1. PortInv' /\ PortType
  BY CountFrameKeeps DEF OctetsInv, PortInv
<1>2. OneAtWork'
  BY DEF CountFrame, OctetsInv, OneAtWork
<1>3. ASSUME NEW o \in Octets PROVE OctetBooks(o)'
  <2>0. o \in Words /\ o + 1 \in Words /\ o \in Counters
    BY OctetWords
  <2>1. UNCHANGED <<accum, loaded, stats, mac_pc, at, overlap>>
    BY DEF CountFrame
  <2>2. OctetsIn(o)' = OctetsIn(o)
    BY <2>1 DEF OctetsIn, OctetsOf, WordIn
  <2>3. PICK t \in Callers : TRUE
    BY StatsAssumption
  <2>4. /\ mac[o] \in Nat /\ counted[o] \in Nat /\ OctetsIn(o) \in Nat /\ loaded[o + 1] \in Nat
        /\ loaded[o] * Word \in Nat
    BY <1>1, <2>3, OctetTypes, OctetsInType, Times
  <2>5. PICK r \in Nat : r = OctetsIn(o) + (loaded[o + 1] + loaded[o] * Word)
    BY <2>4
  <2>6. PassedOn(o) = counted[o] - (mac[o] + r)
    BY <2>4, <2>5 DEF PassedOn
  <2>7. mac'[o] \in Nat
    BY <1>1, <2>0 DEF PortInv, PortType
  <2>8. PassedOn(o)' = counted'[o] - (mac'[o] + r)
    BY <2>1, <2>2, <2>4, <2>5, <2>7 DEF PassedOn
  <2>9. counted'[o] - mac'[o] = counted[o] - mac[o] /\ counted'[o] \in Nat /\ counted'[o] <= MaxOctets
    <3>1. CASE w = o
      BY <1>1, <2>4, <3>1 DEF CountFrame, PortType
    <3>2. CASE w # o
      BY <1>1, <2>0, <2>4, <3>2 DEF CountFrame, PortType, OctetsInv, OctetBooks
    <3> QED BY <3>1, <3>2
  <2>10. PassedOn(o)' = PassedOn(o)
    BY <2>4, <2>6, <2>7, <2>8, <2>9
  <2>11. \A u \in Callers : Correcting(u, o)' => Correcting(u, o) /\ stats'[u] = stats[u]
    BY <2>1 DEF Correcting
  <2> QED BY <2>1, <2>9, <2>10, <2>11, BooksStay
<1> QED BY <1>1, <1>2, <1>3 DEF OctetsInv

LEMMA CallingForOctets ==
  ASSUME OctetsInv, NEW t \in Callers, NEW label \in {"read", "read_only"},
         CallStats(t, label, {})
  PROVE  OctetsInv'
<1>1. PortInv' /\ PortType /\ PortType'
  BY CallForPortKeeps DEF OctetsInv, PortInv
<1>2. /\ mac_pc[t] = "idle" /\ mac_pc'[t] = label
      /\ \A u \in Callers \ {t} : mac_pc'[u] = mac_pc[u] /\ at'[u] = at[u] /\ stats'[u] = stats[u]
      /\ UNCHANGED <<mac, counted, accum, loaded, stats>>
      /\ ~overlap' => ~overlap /\ \A u \in Callers : mac_pc[u] = "idle"
  BY <1>1 DEF CallStats, Goto, PortType, port
<1>3. OneAtWork'
  BY <1>2 DEF OneAtWork
<1>4. ASSUME NEW o \in Octets PROVE OctetBooks(o)'
  <2>1. OctetsOf(t, o)' = OctetsOf(t, o)
    BY <1>2 DEF OctetsOf, WordIn
  <2>2. /\ mac[o] \in Nat /\ OctetsOf(t, o) \in Nat /\ loaded[o + 1] \in Nat
        /\ loaded[o] * Word \in Nat
    BY <1>1, OctetTypes, Times
  <2>3. PassedOn(o)' = PassedOn(o) + 0
    BY <1>1, <1>2, <2>1, <2>2, OctetsMoved
  <2>4. PassedOn(o) \in Int
    BY <1>1, PassedOnType
  <2>5. \A u \in Callers : Correcting(u, o)' => Correcting(u, o) /\ stats'[u] = stats[u]
    BY <1>2 DEF Correcting
  <2>6. counted'[o] <= MaxOctets
    BY <1>2 DEF OctetsInv, OctetBooks
  <2> QED BY <1>2, <2>3, <2>4, <2>5, <2>6, BooksStay
<1> QED BY <1>1, <1>3, <1>4 DEF OctetsInv

\* A step of a thread at work leaves it at work, or leaves all of them idle.
LEMMA StillOne ==
  ASSUME OctetsInv, NEW t \in Callers, mac_pc[t] # "idle", overlap' = overlap,
         \A u \in Callers \ {t} : mac_pc'[u] = mac_pc[u]
  PROVE  OneAtWork'
BY DEF OctetsInv, OneAtWork

LEMMA ReadingOctets ==
  ASSUME OctetsInv, NEW t \in Callers, ReadSegment(t)
  PROVE  OctetsInv'
<1>1. PortInv' /\ PortType /\ PortInv /\ PortType'
  BY ReadKeeps DEF OctetsInv, PortInv
<1>2. PICK a \in Nat : a = at[t]
  BY <1>1 DEF PortType
<1>3. a % 2 = 0 /\ mac_pc[t] \in {"read", "read_only"}
  BY <1>1, <1>2 DEF ReadSegment, PortInv, PortType, PortLabels, RegistersOf
<1>4. /\ mac' = [w \in Counters |-> IF w \in Segment(a) \cap Counters THEN 0 ELSE mac[w]]
      /\ \A w \in Words : stats'[t][w] = IF w \in Segment(a) THEN MacWord(w) ELSE 0
      /\ UNCHANGED <<counted, accum, loaded, at, overlap>>
  BY <1>1, <1>2 DEF ReadSegment, PortType
<1>5. /\ mac_pc'[t] \in {"add", "load"}
      /\ \A u \in Callers \ {t} : mac_pc'[u] = mac_pc[u] /\ stats'[u] = stats[u]
  BY <1>1, <1>3 DEF ReadSegment, Goto, AfterRead, PortType
<1>6. ASSUME NEW o \in Octets
      PROVE  OctetBooks(o)'
  <2>0. /\ o \in Nat /\ o \in Words /\ o + 1 \in Words /\ o \in Counters
        /\ o + 1 \notin Octets /\ o % 2 = 0
    BY OctetWords, StatsAssumption
  <2>1. PICK m \in Nat : m = mac[o]
    BY <1>1, OctetTypes
  <2>2. o + 1 \in Segment(a) <=> o \in Segment(a)
    BY <1>3, <2>0, StatsAssumption DEF Segment
  <2>3. MacWord(o) = m % Word /\ MacWord(o + 1) = m \div Word
    <3>1. (o + 1) - 1 = o
      BY <2>0
    <3> QED BY <2>0, <2>1, <3>1 DEF MacWord
  <2>4. OctetsOf(t, o) = 0
    <3>1. WordIn(t, o) = 0 /\ WordIn(t, o + 1) = 0
      BY <1>3 DEF WordIn
    <3> QED BY <3>1, StatsAssumption DEF OctetsOf
  <2>5. OctetsOf(t, o)' = stats'[t][o] + stats'[t][o + 1] * Word
    BY <1>5 DEF OctetsOf, WordIn
  <2>6. mac'[o] + OctetsOf(t, o)' = m /\ mac'[o] \in Nat /\ OctetsOf(t, o)' \in Nat
    <3>1. CASE o \in Segment(a)
      <4>1. mac'[o] = 0 /\ stats'[t][o] = m % Word /\ stats'[t][o + 1] = m \div Word
        BY <1>4, <2>0, <2>2, <2>3, <3>1
      <4> QED BY <2>5, <4>1, WordArithmetic
    <3>2. CASE o \notin Segment(a)
      <4>1. mac'[o] = m /\ stats'[t][o] = 0 /\ stats'[t][o + 1] = 0
        BY <1>4, <2>0, <2>1, <2>2, <3>2
      <4> QED BY <2>5, <4>1, StatsAssumption
    <3> QED BY <3>1, <3>2
  <2>7. PICK l \in Nat : l = loaded[o + 1] + loaded[o] * Word
    <3>1. loaded[o + 1] \in Nat /\ loaded[o] * Word \in Nat
      BY <1>1, OctetTypes, Times
    <3> QED BY <3>1
  <2>8. mac'[o] + OctetsOf(t, o)' + (loaded'[o + 1] + loaded'[o] * Word) + 0
          = mac[o] + OctetsOf(t, o) + (loaded[o + 1] + loaded[o] * Word)
    <3>1. loaded'[o + 1] + loaded'[o] * Word = l
      BY <1>4, <2>7
    <3> QED BY <2>1, <2>4, <2>6, <2>7, <3>1
  <2>9. PassedOn(o)' = PassedOn(o) + 0 /\ PassedOn(o) \in Int
    BY <1>1, <1>4, <1>5, <2>8, OctetsMoved, PassedOnType
  <2>10. \A u \in Callers : Correcting(u, o)' => Correcting(u, o) /\ stats'[u] = stats[u]
    BY <1>4, <1>5 DEF Correcting
  <2>11. counted'[o] <= MaxOctets
    BY <1>4 DEF OctetsInv, OctetBooks
  <2> QED BY <1>4, <2>9, <2>10, <2>11, BooksStay
<1>7. OneAtWork'
  BY <1>3, <1>4, <1>5, StillOne
<1> QED BY <1>1, <1>6, <1>7 DEF OctetsInv

LEMMA LoadingOctets ==
  ASSUME OctetsInv, NEW t \in Callers, LoadSegment(t)
  PROVE  OctetsInv'
<1>1. PortInv' /\ PortType /\ PortInv /\ PortType'
  BY LoadKeeps DEF OctetsInv, PortInv
<1>2. /\ mac_pc[t] = "load"
      /\ loaded' = [w \in Words |-> loaded[w] + stats[t][Beside(w)]]
      /\ UNCHANGED <<mac, counted, accum, overlap>>
      /\ NextSegment(t, "read_only", "idle")
      /\ \A u \in Callers \ {t} : stats'[u] = stats[u]
  BY <1>1 DEF LoadSegment, PortType
<1>3. /\ mac_pc'[t] \in {"read_only", "idle"}
      /\ \A u \in Callers \ {t} : mac_pc'[u] = mac_pc[u] /\ at'[u] = at[u]
  <2>1. "read_only" \in PortLabels /\ "idle" \in PortLabels /\ "read_only" # "idle"
    BY DEF PortLabels
  <2>2. at[t] % 2 = 0
    BY <1>1 DEF PortInv, RegistersOf
  <2> QED BY <1>1, <1>2, <2>1, <2>2, NextSegmentSteps
<1>4. ASSUME NEW o \in Octets
      PROVE  OctetBooks(o)'
  <2>0. o \in Nat /\ o \in Words /\ o + 1 \in Words
    BY OctetWords
  <2>1. PICK c \in Nat, d \in Nat, l \in Nat, h \in Nat, m \in Nat :
          /\ c = stats[t][o] /\ d = stats[t][o + 1]
          /\ l = loaded[o + 1] /\ h = loaded[o] /\ m = mac[o]
    BY <1>1, OctetTypes
  <2>2. loaded'[o + 1] = l + c /\ loaded'[o] = h + d
    <3>1. Beside(o + 1) = o /\ Beside(o) = o + 1
      BY OctetsBeside
    <3> QED BY <1>2, <2>0, <2>1, <3>1
  <2>3. OctetsOf(t, o) = c + d * Word
    BY <1>2, <2>1 DEF OctetsOf, WordIn
  <2>4. OctetsOf(t, o)' = 0
    <3>1. WordIn(t, o)' = 0 /\ WordIn(t, o + 1)' = 0
      BY <1>3 DEF WordIn
    <3> QED BY <3>1, StatsAssumption DEF OctetsOf
  <2>5. PICK x \in Nat, y \in Nat : x = h * Word /\ y = d * Word /\ (h + d) * Word = x + y
    <3>1. h * Word \in Nat /\ d * Word \in Nat
      BY Times
    <3>2. (h + d) * Word = h * Word + d * Word
      BY TimesSum
    <3> QED BY <3>1, <3>2
  <2>6. m + 0 + ((l + c) + (x + y)) + 0 = m + (c + y) + (l + x)
    OBVIOUS
  <2>7. mac'[o] + OctetsOf(t, o)' + (loaded'[o + 1] + loaded'[o] * Word) + 0
          = mac[o] + OctetsOf(t, o) + (loaded[o + 1] + loaded[o] * Word)
    BY <1>2, <2>1, <2>2, <2>3, <2>4, <2>5, <2>6
  <2>8. PassedOn(o)' = PassedOn(o) + 0 /\ PassedOn(o) \in Int
    BY <1>1, <1>2, <1>3, <2>7, OctetsMoved, PassedOnType
  <2>9. \A u \in Callers : Correcting(u, o)' => Correcting(u, o) /\ stats'[u] = stats[u]
    BY <1>2, <1>3 DEF Correcting
  <2>10. counted'[o] <= MaxOctets
    BY <1>2 DEF OctetsInv, OctetBooks
  <2> QED BY <1>2, <2>8, <2>9, <2>10, BooksStay
<1>5. OneAtWork'
  BY <1>2, <1>3, StillOne
<1> QED BY <1>1, <1>4, <1>5 DEF OctetsInv

\* Nothing an addition can overflow: memory never has more than was counted.
LEMMA AddingOctets ==
  ASSUME OctetsInv, NEW t \in Callers, AddHalf(t)
  PROVE  OctetsInv'
<1>1. PortInv' /\ PortType /\ PortInv /\ PortType'
  BY AddKeeps DEF OctetsInv, PortInv
<1>2. /\ mac_pc[t] \in {"add", "add2"} /\ UNCHANGED <<mac, counted, loaded, overlap>>
  BY DEF AddHalf
<1>3. /\ \A u \in Callers \ {t} :
           mac_pc'[u] = mac_pc[u] /\ at'[u] = at[u] /\ stats'[u] = stats[u]
      /\ mac_pc[t] = "add" => mac_pc'[t] = "add2"
      /\ mac_pc[t] = "add2" =>
           mac_pc'[t] \in {"read", "fix"} /\ \A w \in Words : stats'[t][w] = 0
      /\ \A w \in Words :
           (accum[w] + stats[t][w]) % Long = accum[w] + stats[t][w] =>
             accum'[w] + stats'[t][w] = accum[w] + stats[t][w]
      /\ \A w \in Words : stats'[t][w] <= stats[t][w]
  BY <1>1, AddSteps
<1>4. ASSUME NEW o \in Octets
      PROVE  OctetBooks(o)'
  <2>0. o \in Nat /\ o \in Words /\ o + 1 \in Words
    BY OctetWords
  <2>1. PICK a \in Nat, b \in Nat, c \in Nat, d \in Nat, l \in Nat, h \in Nat, m \in Nat :
          /\ a = accum[o] /\ b = accum[o + 1] /\ c = stats[t][o] /\ d = stats[t][o + 1]
          /\ l = loaded[o + 1] /\ h = loaded[o] /\ m = mac[o]
    BY <1>1, OctetTypes
  <2>2. PICK e \in Nat, f \in Nat : e = stats'[t][o] /\ f = stats'[t][o + 1]
    BY <1>1, <2>0 DEF PortType
  <2>3. e <= c /\ f <= d
    BY <1>3, <2>0, <2>1, <2>2
  <2>4. PICK p \in Int : p = PassedOn(o) /\ p <= counted[o]
    BY <1>1, PassedOnType
  <2>5. OctetBooks(o)
    BY DEF OctetsInv
  <2>6. a <= p /\ b * Word <= p /\ p <= MaxOctets
    <3>1. counted[o] <= MaxOctets /\ counted[o] \in Nat
      BY <1>1, <2>5, OctetTypes DEF OctetBooks
    <3> QED BY <2>1, <2>4, <2>5, <3>1, StatsAssumption DEF OctetBooks
  <2>7. OctetsOf(t, o) = c + d * Word
    BY <1>2, <2>1 DEF OctetsOf, WordIn
  <2>8. OctetsOf(t, o)' = e + f * Word
    <3>1. WordIn(t, o)' = e /\ WordIn(t, o + 1)' = f
      BY <1>2, <1>3, <2>0, <2>2 DEF WordIn
    <3> QED BY <3>1 DEF OctetsOf
  \* Products, for what follows numbers like any other.
  <2>9. PICK bw \in Nat, dw \in Nat, fw \in Nat, gw \in Nat, hw \in Nat :
          /\ bw = b * Word /\ dw = d * Word /\ fw = f * Word /\ gw = (d - f) * Word
          /\ hw = h * Word
    <3>1. d - f \in Nat
      BY <2>3
    <3> QED BY <3>1, Times
  <2>10. gw = dw - fw
    <3>1. (d - f) * Word = d * Word - f * Word
      BY StatsAssumption
    <3> QED BY <2>9, <3>1
  <2>11. p + c + dw <= MaxOctets
    <3>1. /\ OctetsIn(o) \in Nat /\ OctetsOf(t, o) <= OctetsIn(o)
          /\ counted[o] \in Nat /\ counted[o] <= MaxOctets
      BY <1>1, <2>5, OctetsInType, OctetTypes DEF OctetBooks
    <3>2. p = counted[o] - (m + OctetsIn(o) + (l + hw))
      BY <2>1, <2>4, <2>9 DEF PassedOn
    <3>3. OctetsOf(t, o) = c + dw
      BY <2>7, <2>9
    <3> QED BY <3>1, <3>2, <3>3, StatsAssumption
  <2>12. /\ MaxOctets \in Nat /\ MaxOctets < Long /\ Long \in Nat
         /\ b <= bw /\ d <= dw
    BY <2>9, StatsAssumption, WordArithmetic
  <2>13. a + c < Long /\ b + d < Long
    <3> HIDE DEF Long
    <3> QED BY <2>6, <2>9, <2>11, <2>12
  <2>14. (a + c) % Long = a + c /\ (b + d) % Long = b + d
    BY <2>13, WordArithmetic
  <2>15. accum'[o] = a + (c - e) /\ accum'[o + 1] = b + (d - f)
    <3>1. PICK x \in Nat, y \in Nat : x = accum'[o] /\ y = accum'[o + 1]
      BY <1>1, <2>0 DEF PortType
    <3>2. x + e = a + c /\ y + f = b + d
      BY <1>3, <2>0, <2>1, <2>2, <2>14, <3>1
    <3>3. x = a + (c - e) /\ y = b + (d - f)
      BY <3>2
    <3> QED BY <3>1, <3>3
  <2>16. PICK n \in Nat : n = (c - e) + gw
    BY <2>3
  <2>17. PassedOn(o)' = p + n
    <3>1. m + (e + fw) + (l + hw) + n = m + (c + dw) + (l + hw)
      BY <2>3, <2>10, <2>16
    <3>2. mac'[o] + OctetsOf(t, o)' + (loaded'[o + 1] + loaded'[o] * Word) + n
            = mac[o] + OctetsOf(t, o) + (loaded[o + 1] + loaded[o] * Word)
      BY <1>2, <2>1, <2>7, <2>8, <2>9, <3>1
    <3> QED BY <1>1, <1>2, <1>3, <2>4, <3>2, OctetsMoved
  <2>18. accum'[o] <= PassedOn(o)'
    BY <2>3, <2>6, <2>15, <2>16, <2>17
  <2>19. accum'[o + 1] * Word <= PassedOn(o)'
    <3>1. (b + (d - f)) * Word = bw + gw
      BY <2>3, <2>9, TimesSum
    <3> QED BY <2>3, <2>6, <2>9, <2>15, <2>16, <2>17, <3>1
  <2>20. ASSUME NEW u \in Callers, Correcting(u, o)'
         PROVE  Correcting(u, o) /\ Pending(u, o)' = Pending(u, o)
    BY <1>2, <1>3, <2>20 DEF Correcting, Pending
  <2>21. \A u \in Callers : Correcting(u, o)' => Pending(u, o)' <= PassedOn(o)' /\ Pending(u, o)' \in Nat
    <3> SUFFICES ASSUME NEW u \in Callers, Correcting(u, o)'
                 PROVE  Pending(u, o)' <= PassedOn(o)' /\ Pending(u, o)' \in Nat
      OBVIOUS
    <3>1. Pending(u, o) <= p /\ Pending(u, o) \in Nat
      BY <2>4, <2>5, <2>20 DEF OctetBooks
    <3> QED BY <2>16, <2>17, <2>20, <3>1
  <2>22. ~overlap' =>
           /\ Lacks(accum[o], PassedOn(o))'
           /\ \A u \in Callers : Correcting(u, o)' => Pending(u, o)' = accum'[o]
    <3> SUFFICES ASSUME ~overlap'
                 PROVE  /\ Lacks(accum'[o], PassedOn(o)')
                        /\ \A u \in Callers : Correcting(u, o)' => Pending(u, o)' = accum'[o]
      BY DEF Lacks
    <3>1. ~overlap
      BY <1>2
    <3>2. PICK k \in Nat : p = a + k * Word
      BY <2>1, <2>4, <2>5, <3>1 DEF OctetBooks, Lacks
    <3>3. PICK kw \in Nat : kw = k * Word /\ (k + (d - f)) * Word = kw + gw
      <4>1. k * Word \in Nat /\ (k + (d - f)) * Word = k * Word + (d - f) * Word
        BY <2>3, Times, TimesSum
      <4> QED BY <2>9, <4>1
    <3>4. PassedOn(o)' = accum'[o] + (k + (d - f)) * Word
      BY <2>3, <2>15, <2>16, <2>17, <3>2, <3>3
    <3>5. k + (d - f) \in Nat
      BY <2>3
    <3>6. \A u \in Callers : ~Correcting(u, o)'
      BY <1>2, <1>3, <3>1 DEF Correcting, OctetsInv, OneAtWork
    <3> QED BY <3>4, <3>5, <3>6 DEF Lacks
  <2>23. counted'[o] <= MaxOctets
    BY <1>2, <2>5 DEF OctetBooks
  <2> QED BY <2>18, <2>19, <2>21, <2>22, <2>23 DEF OctetBooks
<1>5. OneAtWork'
  BY <1>2, <1>3, StillOne
<1> QED BY <1>1, <1>4, <1>5 DEF OctetsInv

\* What is written is what was read: without the upper word, but never more
\* than was passed on.
LEMMA FixingOctets ==
  ASSUME OctetsInv, NEW t \in Callers, FixRead(t) \/ FixWrite(t) \/ FixClear(t)
  PROVE  OctetsInv'
<1>1. PortInv' /\ PortType /\ PortInv /\ PortType'
  BY FixKeeps DEF OctetsInv, PortInv
<1>2. /\ mac_pc[t] \in {"fix", "fix_write", "fix_clear"}
      /\ mac_pc'[t] \in {"fix", "fix_write", "fix_clear", "idle"}
      /\ \A u \in Callers \ {t} :
           mac_pc'[u] = mac_pc[u] /\ at'[u] = at[u] /\ stats'[u] = stats[u]
      /\ UNCHANGED <<mac, counted, loaded>>
      /\ \A w \in Words \ {at[t], at[t] + 1} : accum'[w] = accum[w]
  BY <1>1, FixSteps
<1>3. overlap' = overlap
  BY DEF FixRead, FixWrite, FixClear
<1>4. ASSUME NEW o \in Octets
      PROVE  OctetBooks(o)'
  <2>0. o \in Nat /\ o \in Words /\ o + 1 \in Words /\ o % 2 = 0
    BY OctetWords, StatsAssumption
  <2>1. PICK v \in Octets : v = at[t]
    BY <1>1, <1>2 DEF PortInv, RegistersOf
  <2>2. v \in Nat /\ v % 2 = 0 /\ v \in Words /\ v + 1 \in Words
    BY OctetWords, StatsAssumption
  <2>3. PICK p \in Int : p = PassedOn(o) /\ p <= counted[o]
    BY <1>1, PassedOnType
  <2>4. PassedOn(o)' = p
    <3>1. OctetsOf(t, o) = OctetsOf(t, o)' /\ OctetsOf(t, o) \in Nat
      BY <1>1, <1>2, OctetTypes DEF OctetsOf, WordIn
    <3>2. mac'[o] + OctetsOf(t, o)' + (loaded'[o + 1] + loaded'[o] * Word) + 0
            = mac[o] + OctetsOf(t, o) + (loaded[o + 1] + loaded[o] * Word)
      <4>1. PICK n \in Nat : n = loaded[o] * Word
        BY <1>1, OctetTypes, Times
      <4>2. mac[o] \in Nat /\ loaded[o + 1] \in Nat
        BY <1>1, OctetTypes
      <4> QED BY <1>2, <3>1, <4>1, <4>2
    <3>3. PassedOn(o)' = PassedOn(o) + 0
      BY <1>1, <1>2, <3>2, OctetsMoved
    <3> QED BY <2>3, <3>3
  <2>5. OctetBooks(o)
    BY DEF OctetsInv
  <2>6. PICK a \in Nat, b \in Nat : a = accum[o] /\ b = accum[o + 1]
    BY <1>1, OctetTypes
  <2>7. a <= p /\ b * Word <= p /\ p <= MaxOctets
    <3>1. counted[o] <= MaxOctets /\ counted[o] \in Nat
      BY <1>1, <2>5, OctetTypes DEF OctetBooks
    <3> QED BY <2>3, <2>5, <2>6, <3>1, StatsAssumption DEF OctetBooks
  <2>8. counted'[o] <= MaxOctets
    BY <1>2, <2>5 DEF OctetBooks
  <2>9. \A u \in Callers \ {t} : Correcting(u, o)' => Correcting(u, o) /\ stats'[u] = stats[u]
    BY <1>2 DEF Correcting
  <2>10. CASE v # o
    <3>1. o # v + 1 /\ o + 1 # v
      BY <2>0, <2>2
    <3>2. accum'[o] = accum[o] /\ accum'[o + 1] = accum[o + 1]
      <4>1. o + 1 # v + 1
        BY <2>0, <2>2, <2>10
      <4> QED BY <1>2, <2>0, <2>1, <2>10, <3>1, <4>1
    <3>3. ~Correcting(t, o)'
      <4>1. CASE FixRead(t) \/ FixWrite(t)
        BY <2>1, <2>10, <4>1 DEF FixRead, FixWrite, Correcting
      <4>2. CASE FixClear(t)
        <5>1. mac_pc[t] = "fix_clear"
          BY <4>2 DEF FixClear
        <5>2. mac_pc'[t] \in {"fix", "idle"}
          BY <1>1, <5>1, FixSteps
        <5> QED BY <5>2 DEF Correcting
      <4> QED BY <4>1, <4>2
    <3>4. \A u \in Callers : Correcting(u, o)' => Correcting(u, o) /\ stats'[u] = stats[u]
      BY <2>9, <3>3
    <3> QED BY <1>3, <2>3, <2>4, <2>8, <3>2, <3>4, BooksStay
  <2>11. CASE v = o /\ FixRead(t)
    <3>1. accum' = accum
      BY <2>11 DEF FixRead, port
    <3>2. stats'[t][o] = AsRead(a) /\ stats'[t][o + 1] = AsRead(b)
      <4>1. stats' = [stats EXCEPT ![t] = [w \in Words |->
                        IF w \in {v, v + 1} THEN AsRead(accum[w]) ELSE 0]]
        BY <2>1, <2>11 DEF FixRead
      <4> QED BY <1>1, <2>0, <2>6, <2>11, <4>1 DEF PortType
    <3>3. Pending(t, o)' = a
      <4>1. a < Long
        <5>1. MaxOctets \in Nat /\ MaxOctets < Long /\ Long \in Nat
          BY StatsAssumption, WordArithmetic
        <5> HIDE DEF Long
        <5> QED BY <2>7, <5>1
      <4>2. b < Word
        <5>1. Word \in Nat \ {0} /\ MaxOctets < Word * Word /\ MaxOctets \in Nat
          BY StatsAssumption, WordArithmetic DEF Long
        <5>2. ASSUME b >= Word PROVE FALSE
          <6>1. b * Word >= Word * Word
            BY <5>1, <5>2
          <6>2. b * Word \in Nat /\ Word * Word \in Nat
            BY <5>1, Times
          <6> QED BY <2>7, <5>1, <6>1, <6>2
        <5> QED BY <5>1, <5>2
      <4>3. AsRead(Fixed(AsRead(a), AsRead(b))) = a
        BY <4>1, <4>2, CorrectedIs
      <4> QED BY <3>2, <4>3 DEF Pending
    <3>4. \A u \in Callers \ {t} :
            Correcting(u, o)' => Correcting(u, o) /\ Pending(u, o)' = Pending(u, o)
      BY <2>9 DEF Pending
    <3>5. \A u \in Callers : Correcting(u, o)' =>
            Pending(u, o)' <= p /\ Pending(u, o)' \in Nat
              /\ (~overlap => Pending(u, o)' = a)
      BY <2>3, <2>5, <2>6, <2>7, <3>3, <3>4 DEF OctetBooks
    <3>6. ~overlap => Lacks(a, p)
      BY <2>3, <2>5, <2>6 DEF OctetBooks
    <3> QED BY <1>3, <2>4, <2>6, <2>7, <2>8, <3>1, <3>5, <3>6 DEF OctetBooks
  <2>12. CASE v = o /\ FixWrite(t)
    <3>1. Correcting(t, o) /\ mac_pc'[t] = "fix_clear"
      BY <1>1, <2>1, <2>12 DEF FixWrite, Goto, Correcting, PortType
    <3>2. accum' = [accum EXCEPT ![o] = Pending(t, o)]
      BY <2>1, <2>12 DEF FixWrite, Pending
    <3>3. accum'[o] = Pending(t, o) /\ accum'[o + 1] = b
      BY <1>1, <2>0, <2>6, <3>2 DEF PortType
    <3>4. Pending(t, o) <= p /\ (~overlap => Pending(t, o) = a /\ Lacks(a, p))
      BY <2>3, <2>5, <2>6, <3>1 DEF OctetBooks
    <3>5. ~Correcting(t, o)'
      BY <3>1 DEF Correcting
    <3>6. \A u \in Callers :
            Correcting(u, o)' => u # t /\ Correcting(u, o) /\ Pending(u, o)' = Pending(u, o)
      BY <2>9, <3>5 DEF Pending
    <3>7. ~overlap => \A u \in Callers : ~Correcting(u, o)'
      BY <3>1, <3>6 DEF Correcting, OctetsInv, OneAtWork
    <3>8. \A u \in Callers : Correcting(u, o)' => Pending(u, o)' <= p /\ Pending(u, o)' \in Nat
      BY <2>3, <2>5, <3>6 DEF OctetBooks
    <3> QED BY <1>3, <2>4, <2>7, <2>8, <3>3, <3>4, <3>7, <3>8 DEF OctetBooks
  <2>13. CASE v = o /\ FixClear(t)
    <3>1. accum' = [accum EXCEPT ![o + 1] = 0]
      BY <2>1, <2>13 DEF FixClear
    <3>2. accum'[o] = a /\ accum'[o + 1] = 0
      BY <1>1, <2>0, <2>6, <3>1 DEF PortType
    <3>3. mac_pc'[t] \in {"fix", "idle"}
      <4>1. mac_pc[t] = "fix_clear"
        BY <2>13 DEF FixClear
      <4> QED BY <1>1, <4>1, FixSteps
    <3>4. ~Correcting(t, o)'
      BY <3>3 DEF Correcting
    <3>5. \A u \in Callers :
            Correcting(u, o)' => Correcting(u, o) /\ Pending(u, o)' = Pending(u, o)
      BY <2>9, <3>4 DEF Pending
    <3>6. 0 * Word = 0 /\ 0 <= p
      BY <2>6, <2>7, StatsAssumption
    <3>7. \A u \in Callers : Correcting(u, o)' =>
            Pending(u, o)' <= p /\ Pending(u, o)' \in Nat
              /\ (~overlap => Pending(u, o)' = a)
      BY <2>3, <2>5, <2>6, <3>5 DEF OctetBooks
    <3>8. ~overlap => Lacks(a, p)
      BY <2>3, <2>5, <2>6 DEF OctetBooks
    <3> QED BY <1>3, <2>4, <2>7, <2>8, <3>2, <3>6, <3>7, <3>8 DEF OctetBooks
  <2> QED BY <2>10, <2>11, <2>12, <2>13
<1>5. OneAtWork'
  <2>1. mac_pc[t] # "idle"
    BY <1>2
  <2> QED BY <1>2, <1>3, <2>1, StillOne
<1> QED BY <1>1, <1>4, <1>5 DEF OctetsInv

LEMMA OctetsKept ==
  ASSUME OctetsInv, [PortNext]_mac_vars
  PROVE  OctetsInv'
<1>1. CASE \E w \in Octets, n \in Growth : CountFrame(w, n)
  BY <1>1, OctetWords, CountingOctets, StatsAssumption
<1>2. CASE \E w \in Counters \ Octets : CountFrame(w, 1)
  BY <1>2, CountingOctets
<1>3. ASSUME NEW t \in Callers,
             \/ CallStats(t, "read", {}) \/ CallStats(t, "read_only", {})
             \/ ReadSegment(t) \/ AddHalf(t) \/ LoadSegment(t)
             \/ FixRead(t) \/ FixWrite(t) \/ FixClear(t)
      PROVE  OctetsInv'
  BY <1>3, CallingForOctets, ReadingOctets, AddingOctets, LoadingOctets, FixingOctets
<1>4. CASE UNCHANGED mac_vars
  <2>1. PortInv'
    BY <1>4, PortsKept DEF OctetsInv
  <2>2. OneAtWork'
    BY <1>4 DEF mac_vars, OctetsInv, OneAtWork
  <2>3. ASSUME NEW o \in Octets PROVE OctetBooks(o)'
    <3>1. UNCHANGED <<mac, counted, accum, loaded, stats, mac_pc, at, overlap>>
      BY <1>4 DEF mac_vars, port
    <3>2. PassedOn(o)' = PassedOn(o)
      BY <3>1 DEF PassedOn, OctetsIn, OctetsOf, WordIn
    <3>3. counted[o] <= MaxOctets
      BY DEF OctetsInv, OctetBooks
    <3> QED BY <3>1, <3>2, <3>3, BooksStay DEF Correcting
  <2> QED BY <2>1, <2>2, <2>3 DEF OctetsInv
<1> QED BY <1>1, <1>2, <1>3, <1>4 DEF PortNext

(* However many threads accumulate and read a port, and however their      *)
(* corrections overlap, no octet is counted twice; and if no two calls     *)
(* overlap the accumulator lacks multiples of 2^32 only.                   *)
THEOREM NoOctetTwice == PortSpec => []LowOctetsKept
<1>1. OctetsInv => LowOctetsKept
  <2> SUFFICES ASSUME OctetsInv, NEW o \in Octets
               PROVE  /\ accum[o] <= PassedOn(o)
                      /\ ~overlap => (PassedOn(o) - accum[o]) % Word = 0
    BY DEF LowOctetsKept
  <2>1. OctetBooks(o) /\ PortType
    BY DEF OctetsInv, PortInv
  <2>2. ASSUME ~overlap PROVE (PassedOn(o) - accum[o]) % Word = 0
    <3>1. PICK k \in Nat : PassedOn(o) = accum[o] + k * Word
      BY <2>1, <2>2 DEF OctetBooks, Lacks
    <3>2. PICK t \in Callers : TRUE
      BY StatsAssumption
    <3>3. PICK a \in Nat, n \in Nat : a = accum[o] /\ n = k * Word
      BY <2>1, <3>2, OctetTypes, Times
    <3>4. PassedOn(o) - accum[o] = k * Word
      BY <3>1, <3>3
    <3>5. (k * Word) % Word = 0
      BY StatsAssumption
    <3> QED BY <3>4, <3>5
  <2> QED BY <2>1, <2>2 DEF OctetBooks
<1> QED BY <1>1, OctetsInitially, OctetsKept, PTL DEF PortSpec


-----------------------------------------------------------------------------
(***************************************************************************)
(* The program mac_stats.c: words that wrap around.                        *)
(***************************************************************************)
\* A number that differs by a multiple is zero modulo the same modulus.
LEMMA SameModulo ==
  ASSUME NEW m \in Nat \ {0}, NEW x \in Int, NEW q \in Int, x % m = 0
  PROVE  (x + q * m) % m = 0
<1>1. PICK k \in Int : k = x \div m
  OBVIOUS
<1>2. (x % m) + k * m = x
  BY <1>1
<1>3. x + q * m = (k + q) * m
  BY <1>2
<1>4. ASSUME NEW y \in Int, NEW j \in Int, y = j * m
      PROVE  y % m = 0
  BY <1>4
<1>5. x + q * m \in Int /\ k + q \in Int
  OBVIOUS
<1> QED BY <1>3, <1>4, <1>5

ProgramLabels == {"idle", "clear", "program", "cls_add64", "cls_add"}

ProgramType ==
  /\ mac \in [Counters -> Nat] /\ counted \in [Counters -> Nat]
  /\ cls \in [Words -> 0 .. Word - 1]
  /\ stats \in [Callers -> [Words -> Nat]]
  /\ at \in [Callers -> Nat] /\ mac_pc \in [Callers -> ProgramLabels]

\* One context runs the program.
OneRuns ==
  /\ calls = 0 => \A t \in Callers : mac_pc[t] = "idle"
  /\ \A t, u \in Callers : mac_pc[t] # "idle" /\ mac_pc[u] # "idle" => t = u
  /\ (\A t \in Callers : mac_pc[t] \in {"idle", "clear"}) => mac = counted

\* Before it reads its registers are clear, and it clears all words first.  The
\* first counter of octets is added in one command.
Running(t) ==
  /\ at[t] % 2 = 0
  /\ mac_pc[t] \in {"idle", "clear", "program"} => \A w \in Words : stats[t][w] = 0
  /\ mac_pc[t] = "clear" => \A w \in Words : w < at[t] => cls[w] = 0
  /\ mac_pc[t] = "cls_add" => stats[t][0] = 0 /\ stats[t][1] = 0

FrameSum(t, w) == mac[w] + stats[t][w] + cls[w] - counted[w]
OctetSum(t) ==
  mac[0] + (stats[t][0] + cls[0]) + (stats[t][1] + cls[1]) * Word - counted[0]

Wraps(t) ==
  /\ \A w \in Frames : FrameSum(t, w) % Word = 0
  /\ OctetSum(t) % Long = 0

ProgramInv ==
  /\ ProgramType /\ OneRuns
  /\ \A t \in Callers : Running(t)
  /\ \A t \in Callers : mac_pc[t] \in {"program", "cls_add64", "cls_add"} => Wraps(t)

LEMMA FirstOctets == 0 \in Octets /\ 0 \in Words /\ 1 \in Words /\ 0 \in Counters
<1>1. 0 \in Octets
  BY StatsAssumption
<1>2. 0 \in Words /\ 0 + 1 \in Words /\ 0 \in Counters
  BY <1>1, OctetWords
<1> QED BY <1>1, <1>2

LEMMA ProgramTypes ==
  ASSUME ProgramType, NEW t \in Callers, NEW w \in Words
  PROVE  /\ stats[t][w] \in Nat /\ cls[w] \in Nat /\ cls[w] < Word
         /\ w \in Counters => mac[w] \in Nat /\ counted[w] \in Nat
<1>1. cls[w] \in 0 .. Word - 1
  BY DEF ProgramType
<1>2. cls[w] \in Nat /\ cls[w] < Word
  BY <1>1, StatsAssumption
<1>3. stats[t][w] \in Nat
  BY DEF ProgramType
<1>4. ASSUME w \in Counters PROVE mac[w] \in Nat /\ counted[w] \in Nat
  BY <1>4 DEF ProgramType
<1> QED BY <1>2, <1>3, <1>4

\* The steps of the context that runs the program concern nobody else.
LEMMA ProgramMoved ==
  ASSUME ProgramInv, ProgramType', NEW t \in Callers, mac_pc[t] # "idle",
         calls' = calls, mac_pc'[t] # "idle",
         \A u \in Callers \ {t} :
           mac_pc'[u] = mac_pc[u] /\ at'[u] = at[u] /\ stats'[u] = stats[u],
         mac_pc'[t] = "clear" => mac' = counted',
         Running(t)', mac_pc'[t] \in {"program", "cls_add64", "cls_add"} => Wraps(t)'
  PROVE  ProgramInv'
<1>1. \A u \in Callers \ {t} : mac_pc[u] = "idle" /\ mac_pc'[u] = "idle"
  BY DEF ProgramInv, OneRuns
<1>2. OneRuns'
  BY <1>1 DEF ProgramInv, OneRuns
<1>3. ASSUME NEW u \in Callers PROVE Running(u)'
  <2>1. CASE u # t
    <3>1. Running(u)
      BY DEF ProgramInv
    <3> QED BY <1>1, <2>1, <3>1 DEF Running
  <2> QED BY <2>1
<1>4. \A u \in Callers : mac_pc'[u] \in {"program", "cls_add64", "cls_add"} => Wraps(u)'
  BY <1>1
<1> QED BY <1>2, <1>3, <1>4 DEF ProgramInv

-----------------------------------------------------------------------------
LEMMA ProgramInitially == StatsInit => ProgramInv
<1> SUFFICES ASSUME StatsInit PROVE ProgramInv
  OBVIOUS
<1>1. ProgramType
  <2>1. Zero \in [Words -> Nat] /\ Word - 1 \in 0 .. Word - 1
    BY StatsAssumption DEF Zero
  <2> QED BY <2>1 DEF StatsInit, ProgramType, ProgramLabels
<1>2. OneRuns
  BY DEF StatsInit, OneRuns
<1>3. ASSUME NEW t \in Callers PROVE Running(t)
  BY DEF StatsInit, Running, Zero
<1>4. \A t \in Callers : mac_pc[t] = "idle"
  BY DEF StatsInit
<1> QED BY <1>1, <1>2, <1>3, <1>4 DEF ProgramInv

LEMMA CountingForProgram ==
  ASSUME ProgramInv, NEW w \in Counters, NEW n \in Nat, CountFrame(w, n)
  PROVE  ProgramInv'
<1> USE DEF ProgramInv
<1>1. UNCHANGED <<mac_pc, at, stats, cls, calls>>
      /\ mac' = [mac EXCEPT ![w] = @ + n] /\ counted' = [counted EXCEPT ![w] = @ + n]
  BY DEF CountFrame
<1>2. mac[w] \in Nat /\ counted[w] \in Nat
  BY DEF ProgramType
<1>3. ProgramType'
  BY <1>1, <1>2 DEF ProgramType
<1>4. OneRuns'
  BY <1>1 DEF OneRuns
<1>5. ASSUME NEW t \in Callers PROVE Running(t)'
  BY <1>1 DEF Running
<1>6. ASSUME NEW v \in Counters
      PROVE  \E k \in Nat : mac'[v] = mac[v] + k /\ counted'[v] = counted[v] + k
  <2>1. CASE v = w
    BY <1>1, <1>2, <2>1 DEF ProgramType
  <2>2. CASE v # w
    <3>1. mac'[v] = mac[v] + 0 /\ counted'[v] = counted[v] + 0
      BY <1>1, <2>2 DEF ProgramType
    <3> QED BY <3>1
  <2> QED BY <2>1, <2>2
<1>7. ASSUME NEW t \in Callers, Wraps(t) PROVE Wraps(t)'
  <2>1. ASSUME NEW v \in Frames PROVE FrameSum(t, v)' % Word = 0
    <3>1. v \in Words /\ v \in Counters
      BY FrameWord
    <3>2. PICK k \in Nat : mac'[v] = mac[v] + k /\ counted'[v] = counted[v] + k
      BY <1>6, <3>1
    <3>3. /\ stats[t][v] \in Nat /\ cls[v] \in Nat /\ mac[v] \in Nat /\ counted[v] \in Nat
      BY <3>1, ProgramTypes
    <3>4. FrameSum(t, v)' = FrameSum(t, v)
      BY <1>1, <3>2, <3>3 DEF FrameSum
    <3> QED BY <1>7, <3>4 DEF Wraps
  <2>2. PICK k \in Nat : mac'[0] = mac[0] + k /\ counted'[0] = counted[0] + k
    BY <1>6, FirstOctets
  <2>3. OctetSum(t)' = OctetSum(t)
    <3>1. PICK a \in Int, b \in Nat, m \in Nat, c \in Nat :
            /\ a = stats[t][0] + cls[0] /\ b = stats[t][1] + cls[1]
            /\ m = mac[0] /\ c = counted[0]
      BY FirstOctets, ProgramTypes
    <3>2. b * Word \in Nat
      BY WordArithmetic
    <3>3. (m + k) + a + b * Word - (c + k) = m + a + b * Word - c
      BY <3>2
    <3> QED BY <1>1, <2>2, <3>1, <3>3 DEF OctetSum
  <2> QED BY <1>7, <2>1, <2>3 DEF Wraps
<1> QED BY <1>1, <1>3, <1>4, <1>5, <1>7

LEMMA StartingProgram ==
  ASSUME ProgramInv, NEW t \in Callers, calls = 0, CallStats(t, "clear", {})
  PROVE  ProgramInv'
<1> USE DEF ProgramInv
<1>1. \A u \in Callers : mac_pc[u] = "idle"
  BY DEF OneRuns
<1>2. /\ UNCHANGED <<mac, counted, cls, stats>> /\ calls' = 1
      /\ mac_pc'[t] = "clear" /\ at'[t] = 0
      /\ \A u \in Callers \ {t} : mac_pc'[u] = "idle" /\ at'[u] = at[u]
  BY <1>1 DEF CallStats, Goto, ProgramType, port
<1>3. ProgramType'
  BY DEF CallStats, Goto, ProgramType, ProgramLabels, port
<1>4. OneRuns'
  BY <1>1, <1>2 DEF OneRuns
<1>5. ASSUME NEW u \in Callers PROVE Running(u)'
  <2>1. Running(u) /\ mac_pc[u] = "idle"
    BY <1>1
  <2>2. \A w \in Words : ~(w < 0)
    BY DEF Words
  <2>3. CASE u = t
    BY <1>2, <2>1, <2>2, <2>3 DEF Running
  <2>4. CASE u # t
    BY <1>2, <2>1, <2>4 DEF Running
  <2> QED BY <2>3, <2>4
<1>6. \A u \in Callers : mac_pc'[u] \notin {"program", "cls_add64", "cls_add"}
  BY <1>2
<1> QED BY <1>3, <1>4, <1>5, <1>6

LEMMA NextForProgram ==
  ASSUME ProgramType, NEW t \in Callers, at[t] % 2 = 0,
         NEW label \in ProgramLabels, NEW end \in ProgramLabels, end # "fix",
         NextSegment(t, label, end)
  PROVE  /\ mac_pc' \in [Callers -> ProgramLabels] /\ at' \in [Callers -> Nat]
         /\ at'[t] % 2 = 0
         /\ \/ mac_pc'[t] = label /\ at'[t] = at[t] + SegWords
            \/ mac_pc'[t] = end /\ at[t] + SegWords >= NWords
         /\ \A u \in Callers \ {t} : mac_pc'[u] = mac_pc[u] /\ at'[u] = at[u]
<1>1. PICK a \in Nat : a = at[t]
  BY DEF ProgramType
<1>2. CASE a + SegWords < NWords
  <2>1. mac_pc' = [mac_pc EXCEPT ![t] = label] /\ at' = [at EXCEPT ![t] = a + SegWords]
    BY <1>1, <1>2 DEF NextSegment, Goto
  <2>2. (a + SegWords) % 2 = 0 /\ a + SegWords \in Nat
    BY <1>1, StatsAssumption
  <2> QED BY <1>1, <2>1, <2>2 DEF ProgramType
<1>3. CASE ~(a + SegWords < NWords)
  <2>1. mac_pc' = [mac_pc EXCEPT ![t] = end] /\ at' = [at EXCEPT ![t] = 0]
    BY <1>1, <1>3 DEF NextSegment, Goto
  <2>2. a + SegWords >= NWords
    BY <1>3, StatsAssumption
  <2> QED BY <1>1, <2>1, <2>2 DEF ProgramType
<1> QED BY <1>2, <1>3

LEMMA ClearingProgram ==
  ASSUME ProgramInv, NEW t \in Callers, ClearSegment(t)
  PROVE  ProgramInv'
<1> USE DEF ProgramInv
<1>1. PICK a \in Nat : a = at[t]
  BY DEF ProgramType
<1>2. /\ mac_pc[t] = "clear" /\ Running(t) /\ a % 2 = 0
      /\ cls' = [w \in Words |-> IF w \in Segment(a) THEN 0 ELSE cls[w]]
      /\ UNCHANGED <<mac, counted, stats, calls>>
  BY <1>1 DEF ClearSegment, Running
<1>3. /\ mac_pc' \in [Callers -> ProgramLabels] /\ at' \in [Callers -> Nat]
      /\ at'[t] % 2 = 0
      /\ \/ mac_pc'[t] = "clear" /\ at'[t] = a + SegWords
         \/ mac_pc'[t] = "program" /\ a + SegWords >= NWords
      /\ \A u \in Callers \ {t} : mac_pc'[u] = mac_pc[u] /\ at'[u] = at[u]
  <2>1. NextSegment(t, "clear", "program")
    BY DEF ClearSegment
  <2>2. "clear" \in ProgramLabels /\ "program" \in ProgramLabels /\ "program" # "fix"
    BY DEF ProgramLabels
  <2>3. ProgramType /\ at[t] % 2 = 0
    BY <1>1, <1>2
  <2> HIDE DEF ProgramInv
  <2> QED BY <1>1, <2>1, <2>2, <2>3, NextForProgram
<1>4. mac = counted
  BY <1>2 DEF OneRuns
<1>5. cls' \in [Words -> 0 .. Word - 1]
  <2>1. 0 \in 0 .. Word - 1
    BY StatsAssumption
  <2> QED BY <1>2, <2>1 DEF ProgramType
<1>6. ProgramType'
  BY <1>2, <1>3, <1>5 DEF ProgramType
<1>7. \A w \in Words : w < a + SegWords => cls'[w] = 0
  <2> SUFFICES ASSUME NEW w \in Words, w < a + SegWords PROVE cls'[w] = 0
    OBVIOUS
  <2>1. CASE w < a
    <3>1. cls[w] = 0
      BY <1>1, <1>2, <2>1 DEF Running
    <3> QED BY <1>2, <3>1
  <2>2. CASE ~(w < a)
    <3>1. w \in Segment(a)
      BY <2>2, StatsAssumption DEF Segment, Words
    <3> QED BY <1>2, <3>1
  <2> QED BY <2>1, <2>2
<1>8. \A w \in Words : stats'[t][w] = 0
  BY <1>2 DEF Running
<1>9. Running(t)'
  BY <1>3, <1>7, <1>8 DEF Running
<1>10. mac_pc'[t] = "program" => Wraps(t)'
  <2> SUFFICES ASSUME mac_pc'[t] = "program" PROVE Wraps(t)'
    OBVIOUS
  <2>1. \A w \in Words : cls'[w] = 0
    BY <1>3, <1>7, StatsAssumption DEF Words
  <2>2. ASSUME NEW w \in Frames PROVE FrameSum(t, w)' % Word = 0
    <3>1. w \in Words /\ w \in Counters
      BY FrameWord
    <3>2. mac[w] \in Nat
      BY <3>1, ProgramTypes
    <3>3. FrameSum(t, w)' = 0
      BY <1>2, <1>4, <1>8, <2>1, <3>1, <3>2 DEF FrameSum
    <3> QED BY <3>3, WordArithmetic, StatsAssumption
  <2>3. OctetSum(t)' = 0
    <3>1. mac[0] \in Nat
      BY FirstOctets, ProgramTypes
    <3>2. mac[0] + (0 + 0) + (0 + 0) * Word - mac[0] = 0
      BY <3>1, StatsAssumption
    <3> QED BY <1>2, <1>4, <1>8, <2>1, <3>2, FirstOctets DEF OctetSum
  <2>4. 0 % Long = 0
    BY WordArithmetic
  <2> QED BY <2>2, <2>3, <2>4 DEF Wraps
<1>11. /\ mac_pc[t] # "idle" /\ mac_pc'[t] # "idle" /\ calls' = calls
       /\ mac' = counted' /\ stats' = stats
       /\ mac_pc'[t] \in {"program", "cls_add64", "cls_add"} => mac_pc'[t] = "program"
  BY <1>2, <1>3, <1>4
<1> HIDE DEF ProgramInv
<1> QED BY <1>3, <1>6, <1>9, <1>10, <1>11, ProgramMoved

LEMMA ReadingForProgram ==
  ASSUME ProgramInv, NEW t \in Callers, ReadSegment(t)
  PROVE  ProgramInv'
<1> USE DEF ProgramInv
<1>1. PICK a \in Nat : a = at[t]
  BY DEF ProgramType
<1>2. mac_pc[t] = "program" /\ Running(t) /\ Wraps(t) /\ a % 2 = 0
  BY <1>1 DEF ReadSegment, ProgramType, ProgramLabels, Running
<1>3. /\ mac' = [w \in Counters |-> IF w \in Segment(a) \cap Counters THEN 0 ELSE mac[w]]
      /\ stats' = [stats EXCEPT ![t] =
                     [w \in Words |-> IF w \in Segment(a) THEN MacWord(w) ELSE 0]]
      /\ UNCHANGED <<counted, cls, at, calls>>
  BY <1>1 DEF ReadSegment
<1>4. /\ mac_pc' \in [Callers -> ProgramLabels]
      /\ mac_pc'[t] = IF a = 0 THEN "cls_add64" ELSE "cls_add"
      /\ \A u \in Callers \ {t} : mac_pc'[u] = mac_pc[u]
  BY <1>1, <1>2 DEF ReadSegment, Goto, AfterRead, ProgramType, ProgramLabels
<1>5. \A w \in Words : MacWord(w) \in Nat
  <2> SUFFICES ASSUME NEW w \in Words PROVE MacWord(w) \in Nat
    OBVIOUS
  <2>1. CASE w \in Octets
    BY <2>1, OctetWords, WordArithmetic DEF MacWord, ProgramType
  <2>2. CASE w \notin Octets /\ w - 1 \in Octets
    BY <2>2, OctetWords, WordArithmetic DEF MacWord, ProgramType
  <2>3. CASE w \notin Octets /\ w - 1 \notin Octets
    BY <2>3 DEF MacWord, ProgramType, Counters
  <2> QED BY <2>1, <2>2, <2>3
<1>6. /\ stats' \in [Callers -> [Words -> Nat]]
      /\ \A u \in Callers \ {t} : stats'[u] = stats[u]
      /\ \A w \in Words : stats'[t][w] = IF w \in Segment(a) THEN MacWord(w) ELSE 0
  BY <1>3, <1>5 DEF ProgramType
<1>7. ProgramType'
  BY <1>3, <1>4, <1>6 DEF ProgramType
<1>8. \A w \in {0, 1} : w \in Segment(a) <=> a = 0
  BY <1>2, StatsAssumption DEF Segment
<1>9. Running(t)'
  <2>1. a # 0 => stats'[t][0] = 0 /\ stats'[t][1] = 0
    BY <1>6, <1>8, FirstOctets
  <2> QED BY <1>1, <1>2, <1>3, <1>4, <2>1 DEF Running
<1>10. ASSUME NEW w \in Frames PROVE FrameSum(t, w)' % Word = 0
  <2>1. w \in Words /\ w \in Counters /\ MacWord(w) = mac[w]
    BY FrameWord DEF MacWord
  <2>2. mac[w] \in Nat /\ counted[w] \in Nat /\ cls[w] \in Nat /\ stats[t][w] = 0
    BY <1>2, <2>1, ProgramTypes DEF Running
  <2>3. mac'[w] + stats'[t][w] = mac[w] /\ mac'[w] \in Nat /\ stats'[t][w] \in Nat
    BY <1>3, <1>6, <2>1, <2>2
  <2>4. FrameSum(t, w)' = FrameSum(t, w)
    BY <1>3, <2>2, <2>3 DEF FrameSum
  <2> QED BY <1>2, <2>4 DEF Wraps
<1>11. OctetSum(t)' = OctetSum(t)
  <2>1. PICK m \in Nat, c \in Nat, lo \in Nat, hi \in Nat :
          m = mac[0] /\ c = counted[0] /\ lo = cls[0] /\ hi = cls[1]
    BY FirstOctets, ProgramTypes
  <2>2. stats[t][0] = 0 /\ stats[t][1] = 0
    BY <1>2, FirstOctets DEF Running
  <2>3. MacWord(0) = m % Word /\ MacWord(1) = m \div Word
    <3>1. 1 \notin Octets /\ 1 - 1 = 0
      BY StatsAssumption
    <3> QED BY <2>1, <3>1, FirstOctets DEF MacWord
  <2>4. OctetSum(t) = m + (0 + lo) + (0 + hi) * Word - c
    BY <2>1, <2>2 DEF OctetSum
  <2>5. CASE a = 0
    <3>1. mac'[0] = 0 /\ stats'[t][0] = m % Word /\ stats'[t][1] = m \div Word
      BY <1>3, <1>6, <1>8, <2>3, <2>5, FirstOctets
    <3>2. PICK x \in Nat, y \in Nat : x = m % Word /\ y = m \div Word /\ x + y * Word = m
      BY WordArithmetic
    <3>3. (y + hi) * Word = y * Word + hi * Word /\ y * Word \in Nat /\ hi * Word \in Nat
          /\ (0 + hi) * Word = hi * Word
      BY StatsAssumption, WordArithmetic
    <3>4. PICK Y \in Nat, H \in Nat : Y = y * Word /\ H = hi * Word
      BY <3>3
    <3>5. 0 + (x + lo) + (Y + H) - c = m + (0 + lo) + H - c
      BY <3>2, <3>4
    <3> QED BY <1>3, <2>1, <2>4, <3>1, <3>2, <3>3, <3>4, <3>5 DEF OctetSum
  <2>6. CASE a # 0
    <3>1. mac'[0] = m /\ stats'[t][0] = 0 /\ stats'[t][1] = 0
      BY <1>3, <1>6, <1>8, <2>1, <2>6, FirstOctets
    <3> QED BY <1>3, <2>1, <2>4, <3>1 DEF OctetSum
  <2> QED BY <2>5, <2>6
<1>12. Wraps(t)'
  BY <1>2, <1>10, <1>11 DEF Wraps
<1>13. mac_pc[t] # "idle" /\ mac_pc'[t] # "idle" /\ mac_pc'[t] # "clear" /\ at' = at
  BY <1>2, <1>3, <1>4
<1> HIDE DEF ProgramInv
<1> QED BY <1>3, <1>4, <1>6, <1>7, <1>9, <1>12, <1>13, ProgramMoved

LEMMA AddingInCls ==
  ASSUME ProgramInv, NEW t \in Callers, ClsAdd(t)
  PROVE  ProgramInv'
<1> USE DEF ProgramInv
<1>1. /\ mac_pc[t] = "cls_add" /\ Running(t) /\ Wraps(t)
      /\ cls' = [w \in Words |-> (cls[w] + stats[t][w]) % Word]
      /\ stats' = [stats EXCEPT ![t] = Zero]
      /\ UNCHANGED <<mac, counted, calls>>
  BY DEF ClsAdd
<1>2. /\ mac_pc' \in [Callers -> ProgramLabels] /\ at' \in [Callers -> Nat]
      /\ at'[t] % 2 = 0 /\ mac_pc'[t] = "program"
      /\ \A u \in Callers \ {t} : mac_pc'[u] = mac_pc[u] /\ at'[u] = at[u]
  <2>1. NextSegment(t, "program", "program")
    BY DEF ClsAdd
  <2>2. "program" \in ProgramLabels /\ "program" # "fix"
    BY DEF ProgramLabels
  <2>3. ProgramType /\ at[t] % 2 = 0
    BY <1>1 DEF Running
  <2> HIDE DEF ProgramInv
  <2> QED BY <2>1, <2>2, <2>3, NextForProgram
<1>3. /\ stats' \in [Callers -> [Words -> Nat]]
      /\ \A u \in Callers \ {t} : stats'[u] = stats[u]
      /\ \A w \in Words : stats'[t][w] = 0
  BY <1>1 DEF ProgramType, Zero
<1>4. Word \in Nat \ {0}
  BY StatsAssumption
<1>5. \A n \in Nat : n % Word \in 0 .. Word - 1
  BY <1>4
<1>6. cls' \in [Words -> 0 .. Word - 1]
  <2>1. \A w \in Words : cls[w] + stats[t][w] \in Nat
    BY ProgramTypes
  <2> QED BY <1>1, <1>5, <2>1
<1>7. ProgramType'
  BY <1>1, <1>2, <1>3, <1>6 DEF ProgramType
<1>8. Running(t)'
  BY <1>2, <1>3 DEF Running
<1>9. ASSUME NEW w \in Frames PROVE FrameSum(t, w)' % Word = 0
  <2>1. w \in Words /\ w \in Counters
    BY FrameWord
  <2>2. PICK s \in Nat, l \in Nat, m \in Nat, c \in Nat :
          s = stats[t][w] /\ l = cls[w] /\ m = mac[w] /\ c = counted[w]
    BY <2>1, ProgramTypes
  <2>3. PICK q \in Nat, r \in Nat : q = (l + s) \div Word /\ r = (l + s) % Word
    BY <1>4
  <2>4. r + q * Word = l + s
    <3>1. l + s \in Nat
      OBVIOUS
    <3> QED BY <2>3, <3>1, WordArithmetic
  <2>5. (m + s + l - c) % Word = 0
    BY <1>1, <2>2 DEF Wraps, FrameSum
  <2>6. ((m + s + l - c) + (0 - q) * Word) % Word = 0
    <3>1. m + s + l - c \in Int /\ 0 - q \in Int
      OBVIOUS
    <3> QED BY <1>4, <2>5, <3>1, SameModulo
  <2>7. (m + s + l - c) + (0 - q) * Word = m + 0 + r - c
    <3>1. PICK p \in Nat : p = q * Word
      BY WordArithmetic
    <3>2. (0 - q) * Word = 0 - p
      BY <1>4, <3>1
    <3> QED BY <2>4, <3>1, <3>2
  <2>8. FrameSum(t, w)' = m + 0 + r - c
    BY <1>1, <1>3, <2>1, <2>2, <2>3 DEF FrameSum
  <2> QED BY <2>6, <2>7, <2>8
<1>10. OctetSum(t)' = OctetSum(t)
  <2>1. stats[t][0] = 0 /\ stats[t][1] = 0
    BY <1>1 DEF Running
  <2>2. cls[0] \in Nat /\ cls[0] < Word /\ cls[1] \in Nat /\ cls[1] < Word
    BY FirstOctets, ProgramTypes
  <2>3. cls'[0] = cls[0] /\ cls'[1] = cls[1]
    <3>1. \A n \in Nat : n < Word => (n + 0) % Word = n
      BY <1>4
    <3> QED BY <1>1, <2>1, <2>2, <3>1, FirstOctets
  <2>4. stats'[t][0] = 0 /\ stats'[t][1] = 0
    BY <1>3, FirstOctets
  <2> HIDE DEF ProgramInv
  <2> QED BY <1>1, <2>1, <2>3, <2>4 DEF OctetSum
<1>11. Wraps(t)'
  BY <1>1, <1>9, <1>10 DEF Wraps
<1>12. mac_pc[t] # "idle" /\ mac_pc'[t] # "idle" /\ mac_pc'[t] # "clear"
  BY <1>1, <1>2
<1> HIDE DEF ProgramInv
<1> QED BY <1>1, <1>2, <1>3, <1>7, <1>8, <1>11, <1>12, ProgramMoved

\* What the command adds to the two words, up to a multiple of 2^64.
Adds(lo, hi, n, m, l, h, q) ==
  /\ AddedToPair(lo, hi, n, m) = <<l, h>>
  /\ l + h * Word = (n + lo) + (m + hi) * Word + q * Long

LEMMA PairSum ==
  ASSUME NEW lo \in Nat, NEW hi \in Nat, NEW n \in Nat, NEW m \in Nat
  PROVE  \E l \in 0 .. Word - 1, h \in 0 .. Word - 1, q \in Int : Adds(lo, hi, n, m, l, h, q)
<1>1. PICK l \in Nat, c \in Nat : l = (lo + n) % Word /\ c = (lo + n) \div Word
  BY WordArithmetic
<1>2. PICK h \in Nat, q \in Nat : h = (hi + m + c) % Word /\ q = (hi + m + c) \div Word
  BY WordArithmetic
<1>3. l + c * Word = lo + n /\ h + q * Word = hi + m + c
  BY <1>1, <1>2, WordArithmetic
<1>4. AddedToPair(lo, hi, n, m) = <<l, h>>
  BY <1>1, <1>2 DEF AddedToPair
<1>5. Word \in Nat \ {0}
  BY StatsAssumption
<1>6. l \in 0 .. Word - 1 /\ h \in 0 .. Word - 1
  BY <1>1, <1>2, <1>5
<1>7. l + h * Word = (n + lo) + (m + hi) * Word + (0 - q) * Long
  <2>1. h = hi + m + c - q * Word
    <3>1. q * Word \in Nat
      BY WordArithmetic
    <3> QED BY <1>3, <3>1
  <2>2. h * Word = (m + hi) * Word + c * Word - (q * Word) * Word
    BY <1>5, <2>1
  <2>3. (q * Word) * Word = q * Long /\ (0 - q) * Long = 0 - q * Long
    BY <1>5 DEF Long
  <2>4. PICK a \in Nat, b \in Nat, d \in Nat, e \in Nat :
          a = h * Word /\ b = (m + hi) * Word /\ d = c * Word /\ e = q * Long
    BY <1>5, WordArithmetic DEF Long
  <2>5. a = b + d - e /\ l + d = lo + n
    BY <1>3, <2>2, <2>3, <2>4
  <2>6. l + a = (n + lo) + b + (0 - e)
    BY <2>5
  <2> QED BY <2>3, <2>4, <2>6
<1>8. 0 - q \in Int
  OBVIOUS
<1> QED BY <1>4, <1>6, <1>7, <1>8 DEF Adds

LEMMA Adding64InCls ==
  ASSUME ProgramInv, NEW t \in Callers, ClsAdd64(t)
  PROVE  ProgramInv'
<1> USE DEF ProgramInv
<1>1. mac_pc[t] = "cls_add64" /\ Running(t) /\ Wraps(t)
      /\ UNCHANGED <<mac, counted, at, calls>>
  BY DEF ClsAdd64
<1>2. PICK n \in Nat, m \in Nat, lo \in Nat, hi \in Nat :
        n = stats[t][0] /\ m = stats[t][1] /\ lo = cls[0] /\ hi = cls[1]
  BY FirstOctets, ProgramTypes
<1>3. PICK low \in 0 .. Word - 1, up \in 0 .. Word - 1, q \in Int :
        /\ AddedToPair(lo, hi, n, m) = <<low, up>>
        /\ low + up * Word = (n + lo) + (m + hi) * Word + q * Long
  <2>1. \E low \in 0 .. Word - 1, up \in 0 .. Word - 1, q \in Int : Adds(lo, hi, n, m, low, up, q)
    BY PairSum
  <2> QED BY <2>1 DEF Adds
<1>4. /\ cls' = [cls EXCEPT ![0] = low, ![1] = up]
      /\ stats' = [stats EXCEPT ![t][0] = 0, ![t][1] = 0]
      /\ mac_pc' = [mac_pc EXCEPT ![t] = "cls_add"]
  BY <1>2, <1>3 DEF ClsAdd64, Goto
<1>5. /\ cls' \in [Words -> 0 .. Word - 1] /\ cls'[0] = low /\ cls'[1] = up
      /\ \A w \in Words \ {0, 1} : cls'[w] = cls[w]
  BY <1>4, FirstOctets DEF ProgramType
<1>6. /\ stats' \in [Callers -> [Words -> Nat]]
      /\ \A u \in Callers \ {t} : stats'[u] = stats[u]
      /\ stats'[t][0] = 0 /\ stats'[t][1] = 0
      /\ \A w \in Words \ {0, 1} : stats'[t][w] = stats[t][w]
  <2>1. stats \in [Callers -> [Words -> Nat]]
    BY DEF ProgramType
  <2>2. \A w \in Words : stats'[t][w] = IF w \in {0, 1} THEN 0 ELSE stats[t][w]
    BY <1>4, <2>1
  <2>3. stats' \in [Callers -> [Words -> Nat]]
    BY <1>4, <2>1
  <2>4. \A u \in Callers \ {t} : stats'[u] = stats[u]
    BY <1>4, <2>1
  <2> QED BY <2>2, <2>3, <2>4, FirstOctets
<1>7. mac_pc' \in [Callers -> ProgramLabels] /\ mac_pc'[t] = "cls_add"
      /\ \A u \in Callers \ {t} : mac_pc'[u] = mac_pc[u]
  BY <1>4 DEF ProgramType, ProgramLabels
<1>8. ProgramType'
  BY <1>1, <1>5, <1>6, <1>7 DEF ProgramType
<1>9. Running(t)'
  BY <1>1, <1>6, <1>7 DEF Running
<1>10. ASSUME NEW w \in Frames PROVE FrameSum(t, w)' % Word = 0
  <2>1. w \in Words \ {0, 1}
    BY FrameWord, FirstOctets
  <2>2. FrameSum(t, w)' = FrameSum(t, w)
    BY <1>1, <1>5, <1>6, <2>1 DEF FrameSum
  <2> QED BY <1>1, <2>2 DEF Wraps
<1>11. OctetSum(t)' % Long = 0
  <2>1. PICK x \in Nat, c \in Nat, l \in Nat, h \in Nat :
          x = mac[0] /\ c = counted[0] /\ l = low /\ h = up
    BY StatsAssumption, FirstOctets, ProgramTypes
  <2>2. OctetSum(t) = x + (n + lo) + (m + hi) * Word - c
    BY <1>2, <2>1 DEF OctetSum
  <2>3. OctetSum(t)' = x + (0 + l) + (0 + h) * Word - c
    BY <1>1, <1>5, <1>6, <2>1 DEF OctetSum
  <2>4. PICK H \in Nat, M \in Nat, Q \in Int :
          H = h * Word /\ M = (m + hi) * Word /\ Q = q * Long
    <3>1. h * Word \in Nat /\ m + hi \in Nat
      BY WordArithmetic
    <3>2. (m + hi) * Word \in Nat /\ Long \in Int
      BY <3>1, WordArithmetic
    <3>3. q * Long \in Int
      BY <3>2
    <3> QED BY <3>1, <3>2, <3>3
  <2>5. (0 + h) * Word = H
    BY <2>4
  <2>6. x + (0 + l) + H - c = (x + (n + lo) + M - c) + Q
    <3>1. l + H = (n + lo) + M + Q
      BY <1>3, <2>1, <2>4
    <3> QED BY <3>1
  <2>7. x + (n + lo) + M - c \in Int /\ (x + (n + lo) + M - c) % Long = 0
    BY <1>1, <2>2, <2>4 DEF Wraps
  <2>8. ((x + (n + lo) + M - c) + q * Long) % Long = 0
    <3> HIDE DEF Long
    <3> QED BY <2>7, WordArithmetic, SameModulo
  <2> QED BY <2>3, <2>4, <2>5, <2>6, <2>8
<1>12. Wraps(t)'
  BY <1>10, <1>11 DEF Wraps
<1>13. mac_pc[t] # "idle" /\ mac_pc'[t] # "idle" /\ mac_pc'[t] # "clear" /\ at' = at
  BY <1>1, <1>7
<1> HIDE DEF ProgramInv
<1> QED BY <1>1, <1>6, <1>7, <1>8, <1>9, <1>12, <1>13, ProgramMoved

LEMMA ProgramKept ==
  ASSUME ProgramInv, [ProgramNext]_mac_vars
  PROVE  ProgramInv'
<1>1. CASE \E w \in Octets, n \in Growth : CountFrame(w, n)
  BY <1>1, OctetWords, CountingForProgram, StatsAssumption
<1>2. CASE \E w \in Counters \ Octets : CountFrame(w, 1)
  BY <1>2, CountingForProgram
<1>3. ASSUME NEW t \in Callers,
             \/ calls = 0 /\ CallStats(t, "clear", {})
             \/ ClearSegment(t) \/ ReadSegment(t) \/ ClsAdd64(t) \/ ClsAdd(t)
      PROVE  ProgramInv'
  BY <1>3, StartingProgram, ClearingProgram, ReadingForProgram, Adding64InCls, AddingInCls
<1>4. CASE UNCHANGED mac_vars
  BY <1>4 DEF mac_vars, port, ProgramInv, ProgramType, OneRuns, Running, Wraps, FrameSum,
     OctetSum
<1> QED BY <1>1, <1>2, <1>3, <1>4 DEF ProgramNext

(* For ever, the words of mac_stats.c are those of the MAC, modulo what    *)
(* they can hold, the carry between the two words of octets included.      *)
THEOREM ProgramKeepsBooks == ProgramSpec => []ProgramConserved
<1>1. ProgramInv => ProgramConserved
  BY DEF ProgramInv, Wraps, Frames, FrameSum, OctetSum, ProgramConserved
<1> QED BY <1>1, ProgramInitially, ProgramKept, PTL DEF ProgramSpec

(***************************************************************************)
(* Lists: what is written once stays, and no list reaches into the next.   *)
(***************************************************************************)
Reg == DOMAIN Regions
AllLists == [kind : {"blq", "emu"}, blq : Blqs]

Filling(l) == step = "fill" /\ todo # <<>> /\ l = Head(todo)
Begun(l) == l \in DOMAIN desc \/ Filling(l)

\* Where the part that is written ends, and what it has from a region.
End(l) == IF Filling(l) THEN slot ELSE FirstSlot(l) + Total(Nums(l))
Done(l, r) == IF Filling(l) THEN Nums(l)[r] - left[r] ELSE Nums(l)[r]

FillType ==
  /\ cfg \in [Blqs -> Settings] /\ \A b \in Blqs : cfg[b].bufsize % Unit = 0
  /\ todo \in Seq(AllLists) /\ step \in {"check", "fill", "error"}
  /\ region \in Reg /\ left \in [Reg -> Nat] /\ off \in [Reg -> Nat] /\ slot \in Int

\* Each list once; the BLQs one after the other, so that heads add up.
Follows(l, m) == m.kind = "blq" /\ m.blq > 0 => l = List("blq", m.blq - 1)
HeadAt(l) == l.kind = "blq" /\ l.blq > 0 => blq_head = BdsramOff(l.blq - 1)

InOrder ==
  /\ \A i, j \in 1 .. Len(todo) : todo[i] = todo[j] => i = j
  /\ \A i \in 1 .. Len(todo) : todo[i] \notin DOMAIN desc
  /\ \A i \in 1 .. Len(todo) - 1 : Follows(todo[i], todo[i + 1])
  /\ todo # <<>> => HeadAt(Head(todo))

\* What is left and where it goes.
Going(l) ==
  /\ FillAccepted(l)
  /\ \A r \in Reg : left[r] <= Nums(l)[r] /\ off[r] = BufSize(l) * (Nums(l)[r] - left[r])
  /\ slot = FirstSlot(l) + Total(Nums(l)) - Total(left)

FillGoes == step = "fill" => todo # <<>> /\ Going(Head(todo))

\* What is in a slot belongs there, and is one of the buffers taken so far.
Belongs(s, l) ==
  /\ l \in AllLists /\ Begun(l)
  /\ \E i \in Int : s = Slot(l, i) /\ FirstSlot(l) <= i /\ i < End(l)
  /\ \E r \in Reg, j \in Nat : j < Done(l, r) /\ mem[s] = MuAddr(l, r, BufSize(l) * j)

Entries == \A s \in DOMAIN mem : Belongs(s, mem[s].list)
OnceEach == \A s, t \in DOMAIN mem : mem[s] = mem[t] => s = t
NoGaps ==
  \A l \in AllLists : Begun(l) =>
    \A i \in Int : FirstSlot(l) <= i /\ i < End(l) =>
      Slot(l, i) \in DOMAIN mem /\ mem[Slot(l, i)].list = l

DescOf(l) == IF l.kind = "blq" THEN DmaDesc(l, FirstSlot(l)) ELSE RingDesc(l)
Described ==
  \A l \in DOMAIN desc : l \in AllLists /\ FillAccepted(l) /\ desc[l] = DescOf(l)

FillInv == FillType /\ InOrder /\ FillGoes /\ Entries /\ OnceEach /\ NoGaps /\ Described

-----------------------------------------------------------------------------
\* The numbers of a list.
LEMMA ListTypes ==
  ASSUME FillType, NEW l \in AllLists
  PROVE  /\ Nums(l) \in [Reg -> Nat] /\ Size(l) \in Nat /\ BufSize(l) \in Nat \ {0}
         /\ BufSize(l) % Unit = 0 /\ l.blq \in Blqs /\ cfg[l.blq].len \in Nat \ {0}
         /\ l.kind = "blq" => Size(l) = cfg[l.blq].len
<1>1. l.blq \in Blqs /\ l.kind \in {"blq", "emu"}
  BY DEF AllLists
<1>2. cfg[l.blq] \in Setting
  BY <1>1, FillAssumption DEF FillType
<1>3. /\ cfg[l.blq].blq \in [Reg -> Nat] /\ cfg[l.blq].emu \in [Reg -> Nat]
      /\ cfg[l.blq].len \in Nat \ {0} /\ cfg[l.blq].size \in Nat
      /\ cfg[l.blq].bufsize \in Nat \ {0}
  BY <1>2 DEF Setting, Reg
<1>4. Nums(l) \in [Reg -> Nat]
  <2>1. CASE l.kind = "blq"
    BY <1>3, <2>1 DEF Nums
  <2>2. CASE l.kind = "emu"
    BY <1>3, <2>2 DEF Nums
  <2> QED BY <1>1, <2>1, <2>2
<1>5. BufSize(l) % Unit = 0
  BY <1>1 DEF FillType, BufSize
<1> QED BY <1>1, <1>3, <1>4, <1>5 DEF Size, BufSize

LEMMA RegFinite == IsFiniteSet(Reg)
<1>1. IsFiniteSet(1 .. Len(Regions))
  BY FillAssumption, FS_Interval
<1> QED BY <1>1, FillAssumption DEF Reg

\* Sums over the regions.
LEMMA TotalFacts ==
  ASSUME NEW f \in [Reg -> Nat]
  PROVE  /\ Total(f) \in Nat
         /\ Total(f) = 0 => \A r \in Reg : f[r] = 0
         /\ Total(f) > 0 => \E r \in Reg : f[r] > 0
         /\ \A r \in Reg : f[r] > 0 =>
              Total(f) > 0 /\ Total([f EXCEPT ![r] = @ - 1]) = Total(f) - 1
<1>1. Total(f) = SumFunctionOnSet(f, Reg) /\ \A x \in Reg : f[x] \in Nat /\ f[x] \in Int
  BY DEF Total, SumFunction
<1>2. Total(f) \in Nat
  BY <1>1, RegFinite, SumNat
<1>3. \A r \in Reg : f[r] <= Total(f)
  BY <1>1, RegFinite, SumBounds
<1>4. Total(f) > 0 => \E r \in Reg : f[r] > 0
  BY <1>1, RegFinite, SumPositive
<1>5. ASSUME NEW r \in Reg, f[r] > 0
      PROVE  Total([f EXCEPT ![r] = @ - 1]) = Total(f) - 1
  <2> DEFINE g == [f EXCEPT ![r] = @ - 1]
  <2>1. /\ Total(g) = SumFunctionOnSet(g, Reg)
        /\ g[r] = f[r] - 1 /\ g[r] \in Int /\ \A x \in Reg \ {r} : g[x] = f[x]
    BY <1>1, <1>5 DEF Total, SumFunction
  <2> HIDE DEF g
  <2>2. SumFunctionOnSet(g, Reg) = SumFunctionOnSet(f, Reg) - f[r] + g[r]
    BY <1>1, <2>1, RegFinite, SumChange
  <2>3. Total(g) = Total(f) - 1
    BY <1>1, <1>2, <2>1, <2>2
  <2> QED BY <2>3 DEF g
<1>6. \A r \in Reg : f[r] > 0 => Total(f) > 0
  BY <1>1, <1>2, <1>3
<1>7. Total(f) = 0 => \A r \in Reg : f[r] = 0
  BY <1>1, <1>2, <1>3
<1> QED BY <1>2, <1>4, <1>5, <1>6, <1>7

LEMMA TotalOrder ==
  ASSUME NEW f \in [Reg -> Nat], NEW g \in [Reg -> Nat], \A r \in Reg : f[r] <= g[r]
  PROVE  Total(f) <= Total(g)
<1>1. Total(f) = SumFunctionOnSet(f, Reg) /\ Total(g) = SumFunctionOnSet(g, Reg)
  BY DEF Total, SumFunction
<1> QED BY <1>1, RegFinite, SumMonotone

\* A BLQ begins where the one before it ends, or later.
LEMMA OffsAdd ==
  ASSUME FillType, NEW b \in Blqs
  PROVE  /\ BdsramOff(b) \in Nat
         /\ b = 0 => BdsramOff(b) = 0
         /\ b > 0 => BdsramOff(b) = BdsramOff(b - 1) + cfg[b - 1].len
         /\ \A c \in Blqs : b < c => BdsramOff(b) + cfg[b].len <= BdsramOff(c)
<1> DEFINE lens == [c \in Blqs |-> cfg[c].len]
<1>1. \A c \in Blqs : lens[c] \in Nat /\ lens[c] \in Int /\ lens[c] = cfg[c].len
  <2> SUFFICES ASSUME NEW c \in Blqs PROVE cfg[c].len \in Nat
    OBVIOUS
  <2>1. cfg[c] \in Setting
    BY FillAssumption DEF FillType
  <2> QED BY <2>1 DEF Setting
<1>2. \A c \in Blqs : BdsramOff(c) = SumFunctionOnSet(lens, 0 .. c - 1)
  BY DEF BdsramOff
<1>3. \A c \in Blqs : c \in Nat /\ 0 .. c - 1 \subseteq Blqs /\ IsFiniteSet(0 .. c - 1)
                      /\ IsFiniteSet(0 .. c) /\ 0 .. c \subseteq Blqs
  <2> SUFFICES ASSUME NEW c \in Blqs
               PROVE  c \in Nat /\ 0 .. c - 1 \subseteq Blqs /\ IsFiniteSet(0 .. c - 1)
                      /\ IsFiniteSet(0 .. c) /\ 0 .. c \subseteq Blqs
    OBVIOUS
  <2>1. c \in Nat /\ c - 1 \in Int /\ c \in Int /\ 0 \in Int
    BY FillAssumption DEF Blqs
  <2>2. IsFiniteSet(0 .. c - 1) /\ IsFiniteSet(0 .. c)
    BY <2>1, FS_Interval
  <2>3. c <= NBlqs - 1 /\ NBlqs \in Nat
    BY FillAssumption DEF Blqs
  <2>4. 0 .. c - 1 \subseteq Blqs /\ 0 .. c \subseteq Blqs
    BY <2>1, <2>3 DEF Blqs
  <2> QED BY <2>1, <2>2, <2>4
<1> HIDE DEF lens
<1>4. ASSUME NEW c \in Blqs
      PROVE  SumFunctionOnSet(lens, 0 .. c) = lens[c] + SumFunctionOnSet(lens, 0 .. c - 1)
  <2>1. c \in 0 .. c /\ (0 .. c) \ {c} = 0 .. c - 1
    BY <1>3
  <2>2. IsFiniteSet(0 .. c) /\ \A x \in 0 .. c : lens[x] \in Int
    BY <1>1, <1>3
  <2>3. SumFunctionOnSet(lens, 0 .. c)
          = lens[c] + SumFunctionOnSet(lens, (0 .. c) \ {c})
    BY <2>1, <2>2, SumTake
  <2> QED BY <2>1, <2>3
<1>5. BdsramOff(b) \in Nat
  BY <1>1, <1>2, <1>3, SumNat
<1>6. b = 0 => BdsramOff(b) = 0
  <2>1. 0 .. 0 - 1 = {}
    OBVIOUS
  <2> QED BY <1>2, <2>1, SumEmpty
<1>7. ASSUME b > 0 PROVE BdsramOff(b) = BdsramOff(b - 1) + cfg[b - 1].len
  <2>1. b - 1 \in Blqs
    BY <1>7, FillAssumption DEF Blqs
  <2>2. PICK x \in Int, y \in Int :
          x = SumFunctionOnSet(lens, 0 .. (b - 1) - 1) /\ y = lens[b - 1]
    BY <1>1, <1>3, <2>1, SumInt
  <2>3. SumFunctionOnSet(lens, 0 .. b - 1) = y + x
    BY <1>4, <2>1, <2>2
  <2> QED BY <1>1, <1>2, <2>1, <2>2, <2>3
<1>8. ASSUME NEW c \in Blqs, b < c PROVE BdsramOff(b) + cfg[b].len <= BdsramOff(c)
  <2>1. 0 .. b \subseteq 0 .. c - 1
    BY <1>3, <1>8
  <2>2. SumFunctionOnSet(lens, 0 .. b) <= SumFunctionOnSet(lens, 0 .. c - 1)
    BY <1>1, <1>3, <2>1, SumSubset
  <2>3. PICK x \in Int, y \in Int :
          x = SumFunctionOnSet(lens, 0 .. b - 1) /\ y = lens[b]
    BY <1>1, <1>3, SumInt
  <2> QED BY <1>1, <1>2, <1>4, <2>2, <2>3
<1> QED BY <1>5, <1>6, <1>7, <1>8

\* Buffers that are taken one after the other have addresses of their own,
\* and what is between two of them is not less than a buffer.
LEMMA UnitsOf ==
  ASSUME NEW size \in Nat \ {0}, size % Unit = 0
  PROVE  \E k \in Nat \ {0} : size = k * Unit /\ \A j \in Nat : (size * j) \div Unit = k * j
<1>1. Unit \in Nat \ {0}
  BY FillAssumption
<1>2. PICK k \in Int : k = size \div Unit
  BY <1>1
<1>3. size = k * Unit
  BY <1>1, <1>2
<1>4. k > 0
  <2>1. ASSUME k <= 0 PROVE k * Unit <= 0
    BY <1>1, <2>1
  <2> QED BY <1>3, <2>1
<1>5. ASSUME NEW j \in Nat PROVE (size * j) \div Unit = k * j
  <2>1. PICK n \in Nat : n = k * j
    BY <1>4
  <2>2. size * j = n * Unit
    BY <1>1, <1>3, <2>1
  <2>3. (n * Unit) \div Unit = n
    BY <1>1
  <2> QED BY <2>1, <2>2, <2>3
<1> QED BY <1>3, <1>4, <1>5

LEMMA ApartInUnits ==
  ASSUME NEW k \in Nat \ {0}, NEW size \in Nat, size = k * Unit,
         NEW i \in Nat, NEW j \in Nat, i < j
  PROVE  /\ (k * i) * Unit + size <= (k * j) * Unit /\ k * i < k * j
         /\ (k * i) * Unit + size <= size * j
<1>1. Unit \in Nat \ {0}
  BY FillAssumption
<1>2. PICK d \in Nat : j = i + 1 + d
  <2>1. j = i + 1 + (j - i - 1) /\ j - i - 1 \in Nat
    OBVIOUS
  <2> QED BY <2>1
<1>3. PICK a \in Nat, e \in Nat : a = k * i /\ e = k * d
  OBVIOUS
<1>4. k * j = a + k + e
  BY <1>2, <1>3
<1>5. (a + k + e) * Unit = a * Unit + k * Unit + e * Unit
  BY <1>1
<1>6. a * Unit \in Nat /\ e * Unit \in Nat /\ k * Unit \in Nat
  BY <1>1
<1>7. size * j = (k * j) * Unit
  BY <1>1
<1> QED BY <1>3, <1>4, <1>5, <1>6, <1>7

\* Two slots that are the same are of the same kind of list.
LEMMA SameSlot ==
  ASSUME NEW k \in AllLists, NEW l \in AllLists, NEW i, NEW j, Slot(k, i) = Slot(l, j)
  PROVE  i = j /\ k.kind = l.kind /\ (l.kind = "emu" => k = l)
<1>1. k.kind \in {"blq", "emu"} /\ l.kind \in {"blq", "emu"}
      /\ k = [kind |-> k.kind, blq |-> k.blq] /\ l = [kind |-> l.kind, blq |-> l.blq]
  BY DEF AllLists
<1>2. CASE k.kind = "blq" /\ l.kind = "blq"
  BY <1>2 DEF Slot
<1>3. CASE k.kind = "emu" /\ l.kind = "emu"
  BY <1>1, <1>3 DEF Slot
<1>4. CASE k.kind # l.kind
  <2>1. <<"bdsram", i>> # <<"ring", l.blq, j>> /\ <<"ring", k.blq, i>> # <<"bdsram", j>>
    OBVIOUS
  <2> QED BY <1>1, <1>4, <2>1 DEF Slot
<1> QED BY <1>1, <1>2, <1>3, <1>4

\* Nothing a setting says changes.
LEMMA CfgKept ==
  ASSUME cfg' = cfg, NEW l
  PROVE  /\ Nums(l)' = Nums(l) /\ BufSize(l)' = BufSize(l) /\ Size(l)' = Size(l)
         /\ FirstSlot(l)' = FirstSlot(l) /\ FillAccepted(l)' = FillAccepted(l)
         /\ DescOf(l)' = DescOf(l) /\ \A b : BdsramOff(b)' = BdsramOff(b)
BY DEF Nums, BufSize, Size, FirstSlot, FillAccepted, DescOf, BdsramOff, DmaDesc, RingDesc, RingCount

LEMMA OtherList ==
  ASSUME cfg' = cfg, NEW k, ~Filling(k), ~Filling(k)'
  PROVE  End(k)' = End(k) /\ \A r : Done(k, r)' = Done(k, r)
BY CfgKept DEF End, Done

LEMMA BelongsKept ==
  ASSUME cfg' = cfg, NEW s, NEW l, Belongs(s, l), mem'[s] = mem[s], Begun(l)',
         \A i \in Int : i < End(l) => i < End(l)',
         \A r \in Reg, j \in Nat : j < Done(l, r) => j < Done(l, r)'
  PROVE  Belongs(s, l)'
<1>1. FirstSlot(l)' = FirstSlot(l) /\ BufSize(l)' = BufSize(l)
  BY CfgKept
<1>2. PICK i \in Int : s = Slot(l, i) /\ FirstSlot(l) <= i /\ i < End(l)
  BY DEF Belongs
<1>3. PICK r \in Reg, j \in Nat : j < Done(l, r) /\ mem[s] = MuAddr(l, r, BufSize(l) * j)
  BY DEF Belongs
<1>4. i < End(l)' /\ j < Done(l, r)'
  BY <1>2, <1>3
<1> QED BY <1>1, <1>2, <1>3, <1>4 DEF Belongs

\* The list that is being filled.
LEMMA AtHead ==
  ASSUME FillInv, todo # <<>>
  PROVE  /\ Head(todo) = todo[1] /\ Head(todo) \in AllLists /\ Head(todo) \notin DOMAIN desc
         /\ Len(todo) \in Nat \ {0}
BY DEF FillInv, FillType, InOrder

-----------------------------------------------------------------------------
\* All lists are in order before the first is filled.
LEMMA ListsInOrder ==
  ASSUME NEW dma \in BOOLEAN, NEW rings \in BOOLEAN, NEW todos, todos = Lists(dma, rings)
  PROVE  /\ todos \in Seq(AllLists)
         /\ \A i, j \in 1 .. Len(todos) : todos[i] = todos[j] => i = j
         /\ \A i \in 1 .. Len(todos) - 1 : Follows(todos[i], todos[i + 1])
         /\ todos # <<>> => Head(todos).blq = 0
<1> DEFINE each(kind) == [i \in 1 .. NBlqs |-> List(kind, i - 1)]
<1>1. NBlqs \in Nat
  BY FillAssumption
<1>2. ASSUME NEW kind \in {"blq", "emu"}
      PROVE  /\ each(kind) \in Seq(AllLists) /\ Len(each(kind)) = NBlqs
             /\ \A i \in 1 .. NBlqs : each(kind)[i] = [kind |-> kind, blq |-> i - 1]
  <2>1. \A i \in 1 .. NBlqs : List(kind, i - 1) \in AllLists
    BY <1>1 DEF List, AllLists, Blqs
  <2> QED BY <1>1, <2>1 DEF List
<1>3. PICK A \in Seq(AllLists) : A = IF dma THEN each("blq") ELSE <<>>
  <2>1. each("blq") \in Seq(AllLists) /\ <<>> \in Seq(AllLists)
    BY <1>2
  <2> HIDE DEF each
  <2> QED BY <2>1
<1>4. PICK B \in Seq(AllLists) : B = IF rings THEN each("emu") ELSE <<>>
  <2>1. each("emu") \in Seq(AllLists) /\ <<>> \in Seq(AllLists)
    BY <1>2
  <2> HIDE DEF each
  <2> QED BY <2>1
<1>5. todos = A \o B
  BY <1>3, <1>4 DEF Lists
<1>6. /\ Len(A) \in {0, NBlqs} /\ Len(B) \in {0, NBlqs}
      /\ \A i \in 1 .. Len(A) : A[i] = [kind |-> "blq", blq |-> i - 1]
      /\ \A i \in 1 .. Len(B) : B[i] = [kind |-> "emu", blq |-> i - 1]
  BY <1>1, <1>2, <1>3, <1>4
<1> HIDE DEF each
<1>7. /\ todos \in Seq(AllLists) /\ Len(todos) = Len(A) + Len(B) /\ Len(A) \in Nat /\ Len(B) \in Nat
      /\ \A i \in 1 .. Len(todos) : /\ i <= Len(A) => todos[i] = A[i]
                                    /\ ~(i <= Len(A)) => todos[i] = B[i - Len(A)]
  BY <1>5
<1>8. ASSUME NEW i \in 1 .. Len(todos)
      PROVE  /\ i <= Len(A) => todos[i].kind = "blq" /\ todos[i].blq = i - 1
             /\ ~(i <= Len(A)) => todos[i].kind = "emu" /\ todos[i].blq = i - Len(A) - 1
             /\ todos[i] = List(todos[i].kind, todos[i].blq)
  <2>1. CASE i <= Len(A)
    <3>1. i \in 1 .. Len(A)
      BY <1>7, <2>1
    <3>2. todos[i] = [kind |-> "blq", blq |-> i - 1]
      BY <1>6, <1>7, <2>1, <3>1
    <3> QED BY <2>1, <3>2 DEF List
  <2>2. CASE ~(i <= Len(A))
    <3>1. i - Len(A) \in 1 .. Len(B)
      BY <1>7, <2>2
    <3>2. todos[i] = [kind |-> "emu", blq |-> i - Len(A) - 1]
      BY <1>6, <1>7, <2>2, <3>1
    <3> QED BY <2>2, <3>2 DEF List
  <2> QED BY <2>1, <2>2
<1> HIDE DEF List
<1>9. ASSUME NEW i \in 1 .. Len(todos), NEW j \in 1 .. Len(todos), todos[i] = todos[j]
      PROVE  i = j
  <2>1. todos[i].kind = todos[j].kind /\ todos[i].blq = todos[j].blq
    BY <1>9
  <2>2. /\ i <= Len(A) => todos[i].kind = "blq" /\ todos[i].blq = i - 1
        /\ ~(i <= Len(A)) => todos[i].kind = "emu" /\ todos[i].blq = i - Len(A) - 1
        /\ j <= Len(A) => todos[j].kind = "blq" /\ todos[j].blq = j - 1
        /\ ~(j <= Len(A)) => todos[j].kind = "emu" /\ todos[j].blq = j - Len(A) - 1
    BY <1>8
  <2> QED BY <1>7, <2>1, <2>2
<1>10. ASSUME NEW i \in 1 .. Len(todos) - 1 PROVE Follows(todos[i], todos[i + 1])
  <2>1. i \in 1 .. Len(todos) /\ i + 1 \in 1 .. Len(todos)
    BY <1>7
  <2>2. CASE i + 1 <= Len(A)
    <3>1. /\ todos[i].kind = "blq" /\ todos[i].blq = i - 1 /\ todos[i + 1].blq = i + 1 - 1
          /\ todos[i] = List(todos[i].kind, todos[i].blq)
      BY <1>7, <1>8, <2>1, <2>2
    <3>2. todos[i + 1].blq - 1 = i - 1
      BY <3>1
    <3> QED BY <3>1, <3>2 DEF Follows
  <2>3. CASE ~(i + 1 <= Len(A))
    <3>1. todos[i + 1].kind = "emu"
      BY <1>8, <2>1, <2>3
    <3> QED BY <3>1 DEF Follows
  <2> QED BY <2>2, <2>3
<1>11. ASSUME todos # <<>> PROVE Head(todos).blq = 0
  <2>1. Len(todos) >= 1 /\ Head(todos) = todos[1] /\ 1 \in 1 .. Len(todos)
    BY <1>7, <1>11
  <2>2. CASE 1 <= Len(A)
    BY <1>8, <2>1, <2>2
  <2>3. CASE ~(1 <= Len(A))
    <3>1. Len(A) = 0
      BY <1>7, <2>3
    <3> QED BY <1>8, <2>1, <3>1
  <2> QED BY <2>2, <2>3
<1> QED BY <1>7, <1>9, <1>10, <1>11

LEMMA FillInitially == FillInit => FillInv
<1> SUFFICES ASSUME FillInit PROVE FillInv
  OBVIOUS
<1>1. /\ step = "check" /\ region = 1 /\ slot = 0 /\ left = [r \in DOMAIN Regions |-> 0]
      /\ off = left /\ DOMAIN mem = {} /\ DOMAIN desc = {}
      /\ cfg \in [Blqs -> Settings] /\ CfgAccepted
  BY DEF FillInit
<1>2. PICK dma \in BOOLEAN, rings \in BOOLEAN : todo = Lists(dma, rings)
  BY DEF FillInit
<1>3. /\ todo \in Seq(AllLists)
      /\ \A i, j \in 1 .. Len(todo) : todo[i] = todo[j] => i = j
      /\ \A i \in 1 .. Len(todo) - 1 : Follows(todo[i], todo[i + 1])
      /\ todo # <<>> => Head(todo).blq = 0
  BY <1>2, ListsInOrder
<1>4. FillType
  <2>1. 1 \in Reg
    BY FillAssumption DEF Reg
  <2> QED BY <1>1, <1>3, <2>1 DEF FillType, CfgAccepted, Reg
<1>5. InOrder
  BY <1>1, <1>3 DEF InOrder, HeadAt
<1>6. \A l : ~Begun(l)
  BY <1>1 DEF Begun, Filling
<1> QED BY <1>1, <1>4, <1>5, <1>6
    DEF FillInv, FillGoes, Entries, OnceEach, NoGaps, Described

-----------------------------------------------------------------------------
\* A list that is done or is being filled keeps to its own slots.
LEMMA EndInside ==
  ASSUME FillInv, NEW l \in AllLists, Begun(l)
  PROVE  /\ FirstSlot(l) \in Nat /\ Total(Nums(l)) \in Nat /\ Size(l) \in Nat /\ End(l) \in Int
         /\ End(l) <= FirstSlot(l) + Size(l)
         /\ Filling(l) /\ Total(left) > 0 => slot < FirstSlot(l) + Size(l)
<1>1. FillType
  BY DEF FillInv
<1>2. FirstSlot(l) \in Nat
  BY <1>1, OffsAdd, ListTypes DEF FirstSlot
<1>3. Total(Nums(l)) \in Nat /\ Size(l) \in Nat
  BY <1>1, ListTypes, TotalFacts
<1>4. Total(left) \in Nat
  BY <1>1, TotalFacts DEF FillType
<1>5. CASE Filling(l)
  <2>1. Going(l)
    BY <1>5 DEF FillInv, FillGoes, Filling
  <2>2. slot = FirstSlot(l) + Total(Nums(l)) - Total(left) /\ Total(Nums(l)) <= Size(l)
    BY <2>1 DEF Going, FillAccepted
  <2>3. End(l) = slot
    BY <1>5 DEF End
  <2> QED BY <1>2, <1>3, <1>4, <2>2, <2>3
<1>6. CASE ~Filling(l)
  <2>1. Total(Nums(l)) <= Size(l)
    BY <1>6 DEF FillInv, Described, Begun, FillAccepted
  <2>2. End(l) = FirstSlot(l) + Total(Nums(l))
    BY <1>6 DEF End
  <2> QED BY <1>2, <1>3, <1>6, <2>1, <2>2
<1> QED BY <1>5, <1>6

LEMMA SlotFree ==
  ASSUME FillInv, NEW l, Filling(l), Total(left) > 0
  PROVE  Slot(l, slot) \notin DOMAIN mem
<1> SUFFICES ASSUME Slot(l, slot) \in DOMAIN mem PROVE FALSE
  OBVIOUS
<1>1. l \in AllLists /\ Begun(l) /\ l \notin DOMAIN desc
  BY AtHead DEF Filling, Begun
<1>2. PICK k : k \in AllLists /\ Begun(k) /\ \E i \in Int : Slot(l, slot) = Slot(k, i) /\ FirstSlot(k) <= i /\ i < End(k)
  BY DEF FillInv, Entries, Belongs
<1>3. PICK i \in Int : Slot(l, slot) = Slot(k, i) /\ FirstSlot(k) <= i /\ i < End(k)
  BY <1>2
<1>4. i = slot /\ k.kind = l.kind /\ (l.kind = "emu" => k = l)
  BY <1>1, <1>2, <1>3, SameSlot
<1>5. k # l
  <2>1. End(l) = slot
    BY DEF End
  <2>2. slot \in Int
    BY DEF FillInv, FillType
  <2> QED BY <1>3, <1>4, <2>1, <2>2
<1>6. k.kind = "blq" /\ l.kind = "blq" /\ k.blq # l.blq
  <2>1. k = [kind |-> k.kind, blq |-> k.blq] /\ l = [kind |-> l.kind, blq |-> l.blq]
        /\ l.kind \in {"blq", "emu"}
    BY <1>1, <1>2 DEF AllLists
  <2> QED BY <1>4, <1>5, <2>1
<1>7. /\ FirstSlot(k) <= slot /\ slot < End(k) /\ End(k) <= FirstSlot(k) + Size(k)
      /\ slot < FirstSlot(l) + Size(l) /\ End(k) \in Int /\ slot \in Int
      /\ FirstSlot(k) \in Nat /\ FirstSlot(l) \in Nat /\ Size(k) \in Nat /\ Size(l) \in Nat
  BY <1>1, <1>2, <1>3, <1>4, EndInside
<1>8. FirstSlot(l) <= slot
  <2>1. slot = FirstSlot(l) + Total(Nums(l)) - Total(left)
    BY DEF FillInv, FillGoes, Going, Filling
  <2>2. Total(left) <= Total(Nums(l))
    BY TotalOrder, <1>1, ListTypes DEF FillInv, FillGoes, Going, Filling, FillType
  <2>3. Total(left) \in Nat /\ Total(Nums(l)) \in Nat
    BY <1>1, EndInside, TotalFacts DEF FillInv, FillType
  <2> QED BY <1>7, <2>1, <2>2, <2>3
<1>9. /\ FirstSlot(k) = BdsramOff(k.blq) /\ FirstSlot(l) = BdsramOff(l.blq)
      /\ Size(k) = cfg[k.blq].len /\ Size(l) = cfg[l.blq].len
      /\ k.blq \in Blqs /\ l.blq \in Blqs
  BY <1>1, <1>2, <1>6, ListTypes DEF FirstSlot, FillInv
<1>10. k.blq < l.blq \/ l.blq < k.blq
  BY <1>6, <1>9, FillAssumption DEF Blqs
<1>11. FillType
  BY DEF FillInv
<1>12. CASE k.blq < l.blq
  <2>1. BdsramOff(k.blq) + cfg[k.blq].len <= BdsramOff(l.blq)
    BY <1>9, <1>11, <1>12, OffsAdd
  <2>2. FirstSlot(k) + Size(k) <= FirstSlot(l)
    BY <1>9, <2>1
  <2> QED BY <1>7, <1>8, <2>2
<1>13. CASE l.blq < k.blq
  <2>1. BdsramOff(l.blq) + cfg[l.blq].len <= BdsramOff(k.blq)
    BY <1>9, <1>11, <1>13, OffsAdd
  <2>2. FirstSlot(l) + Size(l) <= FirstSlot(k)
    BY <1>9, <2>1
  <2> QED BY <1>7, <2>2
<1> QED BY <1>10, <1>12, <1>13

LEMMA Beginning ==
  ASSUME FillInv, Begin
  PROVE  FillInv'
<1>1. PICK l : l = Head(todo)
  OBVIOUS
<1>2. todo # <<>> /\ step = "check" /\ UNCHANGED <<cfg, todo, mem, blq_head, desc>>
  BY DEF Begin
<1>3. l \in AllLists /\ l \notin DOMAIN desc /\ FillType
  BY <1>1, <1>2, AtHead DEF FillInv
<1>4. \A k : ~Filling(k)
  BY <1>2 DEF Filling
<1>5. cfg' = cfg
  BY <1>2
<1>6. InOrder' /\ Described' /\ OnceEach'
  <2>1. InOrder'
    BY <1>2, <1>5, CfgKept DEF FillInv, InOrder, HeadAt, Follows
  <2>2. Described'
    BY <1>2, <1>5, CfgKept DEF FillInv, Described
  <2> QED BY <1>2, <2>1, <2>2 DEF FillInv, OnceEach
<1>7. ASSUME NEW k, k \in DOMAIN desc, ~Filling(k)'
      PROVE  End(k)' = End(k) /\ (\A r : Done(k, r)' = Done(k, r)) /\ Begun(k) /\ Begun(k)'
  BY <1>2, <1>4, <1>7, OtherList DEF Begun
<1>8. ASSUME \A k \in DOMAIN desc : ~Filling(k)' PROVE Entries'
  <2> SUFFICES ASSUME NEW s \in DOMAIN mem PROVE Belongs(s, mem[s].list)'
    BY <1>2 DEF Entries
  <2>1. PICK k : k = mem[s].list
    OBVIOUS
  <2>2. Belongs(s, k) /\ k \in DOMAIN desc
    BY <1>4, <2>1 DEF FillInv, Entries, Belongs, Begun
  <2>3. Belongs(s, k)'
    BY <1>2, <1>5, <1>7, <1>8, <2>2, BelongsKept
  <2> QED BY <1>2, <2>1, <2>3
<1>9. CASE FillAccepted(l)
  <2>1. /\ step' = "fill" /\ region' = 1 /\ left' = Nums(l)
        /\ off' = [r \in DOMAIN Regions |-> 0] /\ slot' = FirstSlot(l)
    BY <1>1, <1>9 DEF Begin
  <2>2. \A k : Filling(k)' <=> k = l
    BY <1>1, <1>2, <2>1 DEF Filling
  <2>3. Nums(l) \in [Reg -> Nat] /\ FirstSlot(l) \in Nat
    BY <1>3, ListTypes, OffsAdd DEF FirstSlot
  <2>4. FillType'
    <3>1. 1 \in Reg
      BY FillAssumption DEF Reg
    <3> QED BY <1>2, <1>3, <2>1, <2>3, <3>1 DEF FillType, Reg
  <2>5. FillGoes'
    <3>1. BufSize(l) \in Nat /\ Total(Nums(l)) \in Nat
      BY <1>3, <2>3, ListTypes, TotalFacts
    <3>2. /\ Nums(l)' = Nums(l) /\ BufSize(l)' = BufSize(l) /\ FirstSlot(l)' = FirstSlot(l)
          /\ FillAccepted(l)' = FillAccepted(l)
      BY <1>5, CfgKept
    <3>3. ASSUME NEW r \in Reg
          PROVE  left'[r] <= Nums(l)[r] /\ off'[r] = BufSize(l) * (Nums(l)[r] - left'[r])
      <4>1. left'[r] = Nums(l)[r] /\ Nums(l)[r] \in Nat /\ off'[r] = 0
        BY <2>1, <2>3 DEF Reg
      <4>2. BufSize(l) * (Nums(l)[r] - Nums(l)[r]) = 0
        BY <3>1, <4>1
      <4> QED BY <4>1, <4>2
    <3>4. slot' = FirstSlot(l) + Total(Nums(l)) - Total(left')
      BY <2>1, <2>3, <3>1
    <3>5. Going(l)'
      BY <1>9, <3>2, <3>3, <3>4 DEF Going
    <3> QED BY <1>1, <1>2, <3>5 DEF FillGoes
  <2>6. Entries'
    BY <1>3, <1>8, <2>2
  <2>7. NoGaps'
    <3> SUFFICES ASSUME NEW k \in AllLists, Begun(k)', NEW i \in Int,
                        FirstSlot(k)' <= i, i < End(k)'
                 PROVE  Slot(k, i) \in DOMAIN mem' /\ mem'[Slot(k, i)].list = k
      BY DEF NoGaps
    <3>1. FirstSlot(k)' = FirstSlot(k)
      BY <1>5, CfgKept
    <3>2. k # l
      <4>1. CASE k = l
        <5>1. End(k)' = FirstSlot(k)
          BY <2>1, <2>2, <4>1 DEF End
        <5> QED BY <2>3, <3>1, <4>1, <5>1
      <4> QED BY <4>1
    <3>3. k \in DOMAIN desc /\ ~Filling(k)'
      BY <1>2, <2>2, <3>2 DEF Begun
    <3>4. End(k)' = End(k) /\ Begun(k)
      BY <1>7, <3>3
    <3> QED BY <1>2, <3>1, <3>4 DEF FillInv, NoGaps
  <2> QED BY <1>6, <2>4, <2>5, <2>6, <2>7 DEF FillInv
<1>10. CASE ~FillAccepted(l)
  <2>1. step' = "error" /\ UNCHANGED <<region, left, off, slot>>
    BY <1>1, <1>10 DEF Begin
  <2>2. \A k : ~Filling(k)'
    BY <2>1 DEF Filling
  <2>3. FillType' /\ FillGoes'
    BY <1>2, <1>3, <2>1 DEF FillType, FillGoes
  <2>4. Entries'
    BY <1>8, <2>2
  <2>5. NoGaps'
    <3> SUFFICES ASSUME NEW k \in AllLists, Begun(k)', NEW i \in Int,
                        FirstSlot(k)' <= i, i < End(k)'
                 PROVE  Slot(k, i) \in DOMAIN mem' /\ mem'[Slot(k, i)].list = k
      BY DEF NoGaps
    <3>1. k \in DOMAIN desc /\ FirstSlot(k)' = FirstSlot(k)
      BY <1>2, <1>5, <2>2, CfgKept DEF Begun
    <3>2. End(k)' = End(k) /\ Begun(k)
      BY <1>7, <2>2, <3>1
    <3> QED BY <1>2, <3>1, <3>2 DEF FillInv, NoGaps
  <2> QED BY <1>6, <2>3, <2>4, <2>5 DEF FillInv
<1> QED BY <1>9, <1>10

LEMMA Writing ==
  ASSUME FillInv, Write
  PROVE  FillInv'
<1>1. PICK l : l = Head(todo)
  OBVIOUS
<1>2. PICK new : new = Slot(l, slot)
  OBVIOUS
<1>3. PICK a : a = MuAddr(l, region, off[region])
  OBVIOUS
<1>4. /\ step = "fill" /\ left[region] > 0 /\ mem' = Stored(mem, new, a) /\ slot' = slot + 1
      /\ left' = [left EXCEPT ![region] = @ - 1]
      /\ off' = [off EXCEPT ![region] = @ + BufSize(l)]
      /\ UNCHANGED <<cfg, todo, step, region, blq_head, desc>>
  BY <1>1, <1>2, <1>3 DEF Write
<1>5. FillType /\ todo # <<>> /\ Going(l)
  BY <1>1, <1>4 DEF FillInv, FillGoes
<1>6. l \in AllLists /\ l \notin DOMAIN desc
  BY <1>1, <1>5, AtHead
<1>7. \A k : (Filling(k) <=> k = l) /\ (Filling(k)' <=> k = l) /\ (Begun(k)' <=> Begun(k))
  BY <1>1, <1>4, <1>5 DEF Filling, Begun
<1>8. cfg' = cfg
  BY <1>4
<1>9. /\ region \in Reg /\ slot \in Int /\ left \in [Reg -> Nat] /\ off \in [Reg -> Nat]
      /\ Nums(l) \in [Reg -> Nat] /\ BufSize(l) \in Nat \ {0} /\ BufSize(l) % Unit = 0
      /\ FirstSlot(l) \in Nat
  BY <1>5, <1>6, ListTypes, OffsAdd DEF FillType, FirstSlot
<1>10. /\ Total(left) > 0 /\ Total(left') = Total(left) - 1 /\ Total(left) \in Nat
       /\ Total(Nums(l)) \in Nat /\ left' \in [Reg -> Nat]
  <2>1. left' \in [Reg -> Nat]
    BY <1>4, <1>9
  <2> QED BY <1>4, <1>9, <2>1, TotalFacts
<1>11. new \notin DOMAIN mem
  BY <1>2, <1>7, <1>10, SlotFree
<1>12. /\ DOMAIN mem' = DOMAIN mem \cup {new} /\ mem'[new] = a
       /\ \A s \in DOMAIN mem : mem'[s] = mem[s] /\ s # new
  BY <1>4, <1>11 DEF Stored
<1>13. /\ a.list = l
       /\ a = MuAddr(l, region, BufSize(l) * (Nums(l)[region] - left[region]))
       /\ Nums(l)[region] - left[region] \in Nat
  <2>1. off[region] = BufSize(l) * (Nums(l)[region] - left[region])
        /\ left[region] <= Nums(l)[region]
    BY <1>5, <1>9 DEF Going
  <2>2. a = MuAddr(l, region, BufSize(l) * (Nums(l)[region] - left[region]))
    BY <1>3, <2>1
  <2> QED BY <1>3, <1>9, <2>1, <2>2 DEF MuAddr
<1>14. FillType'
  <2>1. off[region] + BufSize(l) \in Nat /\ slot + 1 \in Int
    BY <1>9
  <2>2. off' \in [Reg -> Nat]
    BY <1>4, <1>9, <2>1
  <2> QED BY <1>4, <1>5, <1>10, <2>1, <2>2 DEF FillType
<1>15. InOrder' /\ Described'
  <2>1. InOrder'
    BY <1>4, <1>8, CfgKept DEF FillInv, InOrder, HeadAt, Follows
  <2> QED BY <1>4, <1>8, <2>1, CfgKept DEF FillInv, Described
<1>16. FillGoes'
  <2>1. /\ Nums(l)' = Nums(l) /\ BufSize(l)' = BufSize(l) /\ FirstSlot(l)' = FirstSlot(l)
        /\ FillAccepted(l)' = FillAccepted(l)
    BY <1>8, CfgKept
  <2>2. ASSUME NEW r \in Reg
        PROVE  left'[r] <= Nums(l)[r] /\ off'[r] = BufSize(l) * (Nums(l)[r] - left'[r])
    <3>1. left[r] <= Nums(l)[r] /\ off[r] = BufSize(l) * (Nums(l)[r] - left[r])
      BY <1>5 DEF Going
    <3>2. CASE r = region
      <4>1. left'[r] = left[r] - 1 /\ off'[r] = off[r] + BufSize(l)
        BY <1>4, <1>9, <3>2
      <4>2. PICK n \in Nat, m \in Nat, b \in Nat : n = Nums(l)[r] /\ m = left[r] /\ b = BufSize(l)
        BY <1>9
      <4>3. n - (m - 1) = (n - m) + 1 /\ m <= n
        BY <3>1, <4>2
      <4>4. PICK d \in Nat : d = n - m
        BY <4>2, <4>3
      <4>5. b * (d + 1) = b * d + b
        BY <4>2
      <4>6. off[r] = b * d /\ Nums(l)[r] - (left[r] - 1) = d + 1
        BY <3>1, <4>2, <4>3, <4>4
      <4>7. left'[r] <= Nums(l)[r]
        BY <1>9, <3>1, <4>1
      <4> QED BY <4>1, <4>2, <4>5, <4>6, <4>7
    <3>3. CASE r # region
      BY <1>4, <1>9, <3>1, <3>3
    <3> QED BY <3>2, <3>3
  <2>3. slot' = FirstSlot(l) + Total(Nums(l)) - Total(left')
    <3>1. slot = FirstSlot(l) + Total(Nums(l)) - Total(left)
      BY <1>5 DEF Going
    <3> QED BY <1>4, <1>9, <1>10, <3>1
  <2>4. Going(l)'
    BY <1>5, <2>1, <2>2, <2>3 DEF Going
  <2> QED BY <1>1, <1>4, <1>5, <2>4 DEF FillGoes
<1>17. /\ End(l) = slot /\ End(l)' = slot + 1
       /\ \A r \in Reg : Done(l, r) = Nums(l)[r] - left[r]
                         /\ Done(l, r)' = Nums(l)[r] - left'[r]
  BY <1>4, <1>7, <1>8, CfgKept DEF End, Done
<1>18. ASSUME NEW k
       PROVE  /\ \A i \in Int : i < End(k) => i < End(k)'
              /\ \A r \in Reg, j \in Nat : j < Done(k, r) => j < Done(k, r)'
  <2>1. CASE k = l
    <3>1. ASSUME NEW r \in Reg, NEW j \in Nat, j < Nums(l)[r] - left[r]
          PROVE  j < Nums(l)[r] - left'[r]
      <4>1. left'[r] <= left[r] /\ left'[r] \in Nat /\ left[r] \in Nat /\ Nums(l)[r] \in Nat
        BY <1>4, <1>9, <1>10
      <4> QED BY <3>1, <4>1
    <3>2. \A i \in Int : i < slot => i < slot + 1
      BY <1>9
    <3> QED BY <1>17, <2>1, <3>1, <3>2
  <2>2. CASE k # l
    BY <1>7, <1>8, <2>2, OtherList
  <2> QED BY <2>1, <2>2
<1>19. Entries'
  <2>1. Belongs(new, l)'
    <3>1. FirstSlot(l) <= slot
      <4>1. slot = FirstSlot(l) + Total(Nums(l)) - Total(left)
        BY <1>5 DEF Going
      <4>2. Total(left) <= Total(Nums(l))
        BY <1>5, <1>9, TotalOrder DEF Going
      <4> QED BY <1>9, <1>10, <4>1, <4>2
    <3> PICK q \in Reg, n \in Nat : q = region /\ n = Nums(l)[q] - left[q]
      BY <1>9, <1>13
    <3>2. slot < End(l)' /\ n < Done(l, q)'
      <4>1. left'[q] = left[q] - 1
        BY <1>4, <1>9
      <4>2. left[q] \in Nat /\ Nums(l)[q] \in Nat
        BY <1>9
      <4>3. Done(l, q)' = Nums(l)[q] - left'[q] /\ n = Nums(l)[q] - left[q]
        BY <1>17
      <4>4. n < Done(l, q)'
        BY <4>1, <4>2, <4>3
      <4> QED BY <1>9, <1>17, <4>4
    <3>3. FirstSlot(l)' = FirstSlot(l) /\ BufSize(l)' = BufSize(l)
      BY <1>8, CfgKept
    <3>4. Begun(l)'
      BY <1>7 DEF Begun
    <3>5. \E i \in Int : new = Slot(l, i) /\ FirstSlot(l)' <= i /\ i < End(l)'
      BY <1>2, <1>9, <3>1, <3>2, <3>3
    <3>6. \E r \in Reg, j \in Nat : j < Done(l, r)' /\ mem'[new] = MuAddr(l, r, BufSize(l)' * j)
      <4>1. mem'[new] = MuAddr(l, q, BufSize(l)' * n)
        BY <1>12, <1>13, <3>3
      <4> QED BY <3>2, <4>1
    <3> QED BY <1>6, <3>4, <3>5, <3>6 DEF Belongs
  <2>2. ASSUME NEW s \in DOMAIN mem, NEW k, k = mem[s].list PROVE Belongs(s, k)'
    <3>1. Belongs(s, k) /\ Begun(k)'
      BY <1>7, <2>2 DEF FillInv, Entries, Belongs
    <3> QED BY <1>8, <1>12, <1>18, <3>1, BelongsKept
  <2>3. ASSUME NEW s \in DOMAIN mem', NEW k, k = mem'[s].list PROVE Belongs(s, k)'
    <3>1. CASE s = new
      BY <1>12, <1>13, <2>1, <2>3, <3>1
    <3>2. CASE s \in DOMAIN mem
      BY <1>12, <2>2, <2>3, <3>2
    <3> QED BY <1>12, <2>3, <3>1, <3>2
  <2> QED BY <2>3 DEF Entries
<1>20. OnceEach'
  <2>1. ASSUME NEW s \in DOMAIN mem, mem[s] = a PROVE FALSE
    <3>1. Belongs(s, l)
      BY <1>13, <2>1 DEF FillInv, Entries
    <3>2. PICK r \in Reg, j \in Nat : j < Done(l, r) /\ mem[s] = MuAddr(l, r, BufSize(l) * j)
      BY <3>1 DEF Belongs
    <3>3. PICK n \in Nat : n = Nums(l)[region] - left[region]
      BY <1>13
    <3>4. PICK k \in Nat \ {0} : \A i \in Nat : (BufSize(l) * i) \div Unit = k * i
      BY <1>9, UnitsOf
    <3>5. Regions[r] = Regions[region] /\ k * j = k * n
      <4>1. MuAddr(l, r, BufSize(l) * j) = MuAddr(l, region, BufSize(l) * n)
        BY <1>13, <2>1, <3>2, <3>3
      <4>2. Regions[r] = Regions[region] /\ (BufSize(l) * j) \div Unit = (BufSize(l) * n) \div Unit
        BY <4>1 DEF MuAddr
      <4> QED BY <3>4, <4>2
    <3>6. r = region
      BY <1>9, <3>5, FillAssumption DEF Reg
    <3>7. j < n
      BY <1>17, <3>2, <3>3, <3>6
    <3>8. k * j < k * n
      <4>1. k * Unit \in Nat
        BY FillAssumption
      <4> QED BY <3>7, <4>1, ApartInUnits
    <3>9. k * j \in Nat /\ k * n \in Nat
      OBVIOUS
    <3> QED BY <3>5, <3>8, <3>9
  <2>2. ASSUME NEW s \in DOMAIN mem', NEW t \in DOMAIN mem', mem'[s] = mem'[t] PROVE s = t
    <3>1. CASE s = new
      BY <1>12, <2>1, <2>2, <3>1
    <3>2. CASE t = new
      BY <1>12, <2>1, <2>2, <3>2
    <3>3. CASE s \in DOMAIN mem /\ t \in DOMAIN mem
      BY <1>12, <2>2, <3>3 DEF FillInv, OnceEach
    <3> QED BY <1>12, <3>1, <3>2, <3>3
  <2> QED BY <2>2 DEF OnceEach
<1>21. NoGaps'
  <2> SUFFICES ASSUME NEW k \in AllLists, Begun(k)', NEW i \in Int,
                      FirstSlot(k)' <= i, i < End(k)'
               PROVE  Slot(k, i) \in DOMAIN mem' /\ mem'[Slot(k, i)].list = k
    BY DEF NoGaps
  <2>1. FirstSlot(k)' = FirstSlot(k) /\ Begun(k)
    BY <1>7, <1>8, CfgKept
  <2>2. CASE k = l /\ i = slot
    BY <1>2, <1>12, <1>13, <2>2
  <2>3. CASE ~(k = l /\ i = slot)
    <3>1. i < End(k)
      <4>1. CASE k = l
        BY <1>9, <1>17, <2>3, <4>1
      <4>2. CASE k # l
        BY <1>7, <1>8, <4>2, OtherList
      <4> QED BY <4>1, <4>2
    <3>2. Slot(k, i) \in DOMAIN mem /\ mem[Slot(k, i)].list = k
      BY <2>1, <3>1 DEF FillInv, NoGaps
    <3> QED BY <1>12, <3>2
  <2> QED BY <2>2, <2>3
<1> QED BY <1>14, <1>15, <1>16, <1>19, <1>20, <1>21 DEF FillInv

LEMMA TurningToNextRegion ==
  ASSUME FillInv, NextRegion
  PROVE  FillInv'
<1>1. UNCHANGED <<cfg, todo, step, left, off, slot, mem, blq_head, desc>>
      /\ region' = (region % Len(Regions)) + 1
  BY DEF NextRegion
<1>2. region' \in Reg
  <2>1. region \in Nat /\ Len(Regions) \in Nat \ {0}
    BY FillAssumption DEF FillInv, FillType, Reg
  <2>2. (region % Len(Regions)) + 1 \in 1 .. Len(Regions)
    BY <2>1
  <2> QED BY <1>1, <2>2, FillAssumption DEF Reg
<1>3. \A k : /\ (Filling(k)' <=> Filling(k)) /\ (Begun(k)' <=> Begun(k))
             /\ End(k)' = End(k) /\ \A r : Done(k, r)' = Done(k, r)
  BY <1>1, CfgKept DEF Filling, Begun, End, Done
<1>4. FillType'
  BY <1>1, <1>2 DEF FillInv, FillType
<1>5. InOrder' /\ Described' /\ OnceEach'
  <2>1. InOrder'
    BY <1>1, CfgKept DEF FillInv, InOrder, HeadAt, Follows
  <2> QED BY <1>1, <2>1, CfgKept DEF FillInv, Described, OnceEach
<1>6. FillGoes'
  BY <1>1, CfgKept DEF FillInv, FillGoes, Going
<1>7. Entries'
  BY <1>1, <1>3, BelongsKept DEF FillInv, Entries, Belongs
<1>8. NoGaps'
  BY <1>1, <1>3, CfgKept DEF FillInv, NoGaps
<1> QED BY <1>4, <1>5, <1>6, <1>7, <1>8 DEF FillInv

LEMMA Describing ==
  ASSUME FillInv, Describe
  PROVE  FillInv'
<1>1. PICK l : l = Head(todo)
  OBVIOUS
<1>2. /\ step = "fill" /\ Total(left) = 0 /\ todo' = Tail(todo) /\ step' = "check"
      /\ UNCHANGED <<cfg, region, density, left, off, slot, mem>>
  BY DEF Describe
<1>3. FillType /\ todo # <<>> /\ Going(l)
  BY <1>1, <1>2 DEF FillInv, FillGoes
<1>4. l \in AllLists /\ l \notin DOMAIN desc /\ l = todo[1] /\ Len(todo) \in Nat \ {0}
  BY <1>1, <1>3, AtHead
<1>5. cfg' = cfg
  BY <1>2
<1>6. \A k : (Filling(k) <=> k = l) /\ ~Filling(k)'
  BY <1>1, <1>2, <1>3 DEF Filling
<1>7. /\ l.kind \in {"blq", "emu"} /\ l.blq \in Blqs /\ FirstSlot(l) \in Nat
      /\ Nums(l) \in [Reg -> Nat] /\ left \in [Reg -> Nat] /\ Total(Nums(l)) \in Nat
  BY <1>3, <1>4, ListTypes, OffsAdd, TotalFacts DEF FillType, FirstSlot, AllLists
<1>8. l.kind = "blq" =>
        blq_head' = FirstSlot(l) /\ desc' = Stored(desc, l, DmaDesc(l, FirstSlot(l)))
  <2> SUFFICES ASSUME l.kind = "blq"
               PROVE  blq_head' = FirstSlot(l) /\ desc' = Stored(desc, l, DmaDesc(l, FirstSlot(l)))
    OBVIOUS
  <2>1. blq_head' = BlqHead(l) /\ desc' = Stored(desc, l, DmaDesc(l, blq_head'))
    BY <1>1 DEF Describe
  <2>2. FirstSlot(l) = BdsramOff(l.blq)
    BY DEF FirstSlot
  <2>3. l.blq > 0 => blq_head = BdsramOff(l.blq - 1)
    BY <1>1, <1>3 DEF FillInv, InOrder, HeadAt
  <2>4. /\ l.blq = 0 => BdsramOff(l.blq) = 0
        /\ l.blq > 0 => BdsramOff(l.blq) = BdsramOff(l.blq - 1) + cfg[l.blq - 1].len
    BY <1>3, <1>7, OffsAdd
  <2>5. l.blq = 0 \/ l.blq > 0
    BY <1>7, FillAssumption DEF Blqs
  <2>6. BlqHead(l) = FirstSlot(l)
    BY <2>2, <2>3, <2>4, <2>5 DEF BlqHead
  <2> QED BY <2>1, <2>6
<1>9. l.kind # "blq" => desc' = Stored(desc, l, RingDesc(l)) /\ blq_head' = blq_head
  BY <1>1 DEF Describe
<1>10. desc' = Stored(desc, l, DescOf(l))
  BY <1>8, <1>9 DEF DescOf
<1>11. /\ DOMAIN desc' = DOMAIN desc \cup {l} /\ desc'[l] = DescOf(l)
       /\ \A k \in DOMAIN desc : desc'[k] = desc[k]
  BY <1>4, <1>10 DEF Stored
<1>12. \A k : Begun(k)' <=> Begun(k)
  BY <1>6, <1>11 DEF Begun
<1>13. /\ todo' \in Seq(AllLists) /\ Len(todo') = Len(todo) - 1
       /\ \A i \in 1 .. Len(todo') : todo'[i] = todo[i + 1] /\ i + 1 \in 1 .. Len(todo)
  BY <1>2, <1>3 DEF FillType
<1>14. FillType'
  BY <1>2, <1>3, <1>13 DEF FillType
<1>15. InOrder'
  <2>1. InOrder
    BY DEF FillInv
  <2>2. \A i, j \in 1 .. Len(todo') : todo'[i] = todo'[j] => i = j
    <3> SUFFICES ASSUME NEW i \in 1 .. Len(todo'), NEW j \in 1 .. Len(todo'), todo'[i] = todo'[j]
                 PROVE  i = j
      OBVIOUS
    <3>1. i + 1 = j + 1
      BY <1>13, <2>1 DEF InOrder
    <3> QED BY <3>1, <1>13, <1>4
  <2>3. \A i \in 1 .. Len(todo') : todo'[i] \notin DOMAIN desc'
    <3> SUFFICES ASSUME NEW i \in 1 .. Len(todo') PROVE todo'[i] \notin DOMAIN desc \cup {l}
      BY <1>11
    <3>1. todo'[i] = todo[i + 1] /\ i + 1 \in 1 .. Len(todo) /\ i + 1 # 1 /\ 1 \in 1 .. Len(todo)
      BY <1>4, <1>13
    <3>2. todo[i + 1] # todo[1] /\ todo[i + 1] \notin DOMAIN desc
      BY <2>1, <3>1 DEF InOrder
    <3> QED BY <1>4, <3>1, <3>2
  <2>4. \A i \in 1 .. Len(todo') - 1 : Follows(todo'[i], todo'[i + 1])
    <3> SUFFICES ASSUME NEW i \in 1 .. Len(todo') - 1 PROVE Follows(todo'[i], todo'[i + 1])
      OBVIOUS
    <3>1. i \in 1 .. Len(todo') /\ i + 1 \in 1 .. Len(todo') /\ i + 1 \in 1 .. Len(todo) - 1
      BY <1>4, <1>13
    <3>2. todo'[i] = todo[i + 1] /\ todo'[i + 1] = todo[(i + 1) + 1]
      BY <1>13, <3>1
    <3> QED BY <2>1, <3>1, <3>2 DEF InOrder
  <2>5. ASSUME todo' # <<>>, NEW m, m = Head(todo') PROVE HeadAt(m)'
    <3>1. m = todo'[1] /\ 1 \in 1 .. Len(todo') /\ 1 \in 1 .. Len(todo) - 1
      BY <1>4, <1>13, <2>5
    <3>2. Follows(l, m)
      <4>1. m = todo[1 + 1]
        BY <1>13, <3>1
      <4> QED BY <1>4, <2>1, <3>1, <4>1 DEF InOrder
    <3>3. m \in AllLists
      BY <1>13, <3>1
    <3>4. ASSUME m.kind = "blq", m.blq > 0 PROVE blq_head' = BdsramOff(m.blq - 1)
      <4>1. l.kind = "blq" /\ l.blq = m.blq - 1
        BY <3>2, <3>4 DEF Follows, List
      <4> QED BY <1>8, <4>1 DEF FirstSlot
    <3> QED BY <1>5, <3>4, CfgKept DEF HeadAt
  <2> QED BY <2>2, <2>3, <2>4, <2>5 DEF InOrder, Follows
<1>16. FillGoes'
  BY <1>2 DEF FillGoes
<1>17. \A k : End(k)' = End(k) /\ \A r \in Reg : Done(k, r)' = Done(k, r)
  <2> SUFFICES ASSUME NEW k PROVE End(k)' = End(k) /\ \A r \in Reg : Done(k, r)' = Done(k, r)
    OBVIOUS
  <2>1. CASE k = l
    <3>1. /\ FirstSlot(l)' = FirstSlot(l) /\ Nums(l)' = Nums(l)
          /\ Total(Nums(l))' = Total(Nums(l))
      BY <1>5, CfgKept
    <3>2. slot = FirstSlot(l) + Total(Nums(l))
      <4>1. slot = FirstSlot(l) + Total(Nums(l)) - 0
        BY <1>2, <1>3 DEF Going
      <4> QED BY <1>7, <4>1
    <3>3. End(l)' = FirstSlot(l) + Total(Nums(l)) /\ End(l) = slot
      BY <1>6, <3>1 DEF End
    <3>4. ASSUME NEW r \in Reg PROVE Done(l, r)' = Done(l, r)
      <4>1. left[r] = 0 /\ Nums(l)[r] \in Nat
        BY <1>2, <1>7, TotalFacts
      <4>2. Done(l, r)' = Nums(l)[r] /\ Done(l, r) = Nums(l)[r] - left[r]
        BY <1>6, <3>1 DEF Done
      <4> QED BY <4>1, <4>2
    <3> QED BY <2>1, <3>2, <3>3, <3>4
  <2>2. CASE k # l
    BY <1>5, <1>6, <2>2, OtherList
  <2> QED BY <2>1, <2>2
<1>18. Entries'
  <2> SUFFICES ASSUME NEW s \in DOMAIN mem', NEW k, k = mem'[s].list PROVE Belongs(s, k)'
    BY DEF Entries
  <2>1. s \in DOMAIN mem /\ mem'[s] = mem[s]
    BY <1>2
  <2>2. Belongs(s, k) /\ Begun(k)'
    BY <1>12, <2>1 DEF FillInv, Entries, Belongs
  <2> QED BY <1>5, <1>17, <2>1, <2>2, BelongsKept
<1>19. OnceEach' /\ NoGaps'
  <2>1. NoGaps'
    BY <1>2, <1>5, <1>12, <1>17, CfgKept DEF FillInv, NoGaps
  <2> QED BY <1>2, <2>1 DEF FillInv, OnceEach
<1>20. Described'
  <2> SUFFICES ASSUME NEW k \in DOMAIN desc'
               PROVE  k \in AllLists /\ FillAccepted(k)' /\ desc'[k] = DescOf(k)'
    BY DEF Described
  <2>1. FillAccepted(k)' = FillAccepted(k) /\ DescOf(k)' = DescOf(k)
    BY <1>5, CfgKept
  <2>2. CASE k = l
    BY <1>3, <1>4, <1>11, <2>1, <2>2 DEF Going
  <2>3. CASE k \in DOMAIN desc
    BY <1>11, <2>1, <2>3 DEF FillInv, Described
  <2> QED BY <1>11, <2>2, <2>3
<1> QED BY <1>14, <1>15, <1>16, <1>18, <1>19, <1>20 DEF FillInv

LEMMA FillKept == FillInv /\ [FillNext]_fill_vars => FillInv'
<1> SUFFICES ASSUME FillInv, [FillNext]_fill_vars PROVE FillInv'
  OBVIOUS
<1>1. CASE Begin
  BY <1>1, Beginning
<1>2. CASE Write
  BY <1>2, Writing
<1>3. CASE NextRegion
  BY <1>3, TurningToNextRegion
<1>4. CASE Describe
  BY <1>4, Describing
<1>5. CASE UNCHANGED fill_vars
  <2>1. UNCHANGED <<cfg, todo, step, region, left, off, slot, mem, blq_head, desc>>
    BY <1>5 DEF fill_vars
  <2>2. \A k : /\ (Filling(k)' <=> Filling(k)) /\ (Begun(k)' <=> Begun(k))
               /\ End(k)' = End(k) /\ \A r : Done(k, r)' = Done(k, r)
    BY <2>1, CfgKept DEF Filling, Begun, End, Done
  <2>3. FillType' /\ InOrder'
    BY <2>1, CfgKept DEF FillInv, FillType, InOrder, HeadAt, Follows
  <2>4. FillGoes' /\ Described' /\ OnceEach'
    BY <2>1, CfgKept DEF FillInv, FillGoes, Going, Described, OnceEach
  <2>5. Entries'
    BY <2>1, <2>2, BelongsKept DEF FillInv, Entries, Belongs
  <2>6. NoGaps'
    BY <2>1, <2>2, CfgKept DEF FillInv, NoGaps
  <2> QED BY <2>3, <2>4, <2>5, <2>6 DEF FillInv
<1> QED BY <1>1, <1>2, <1>3, <1>4, <1>5 DEF FillNext

-----------------------------------------------------------------------------
\* Two entries are two buffers, and a buffer is inside what was allocated.
LEMMA BuffersApart ==
  ASSUME FillInv, NEW s \in DOMAIN mem, NEW t \in DOMAIN mem, s # t
  PROVE  ~Overlap(mem[s], mem[t], BufSize(mem[s].list))
<1> SUFFICES ASSUME Overlap(mem[s], mem[t], BufSize(mem[s].list)) PROVE FALSE
  OBVIOUS
<1>1. PICK l : l = mem[s].list /\ l = mem[t].list
  BY DEF Overlap
<1>2. PICK size \in Nat \ {0} : size = BufSize(l) /\ size % Unit = 0
  <2>1. l \in AllLists
    BY <1>1 DEF FillInv, Entries, Belongs
  <2> QED BY <2>1, ListTypes DEF FillInv
<1>3. PICK r \in Reg, i \in Nat : mem[s] = MuAddr(l, r, size * i)
  BY <1>1, <1>2 DEF FillInv, Entries, Belongs
<1>4. PICK q \in Reg, j \in Nat : mem[t] = MuAddr(l, q, size * j)
  BY <1>1, <1>2 DEF FillInv, Entries, Belongs
<1>5. PICK k \in Nat \ {0} : size = k * Unit /\ \A n \in Nat : (size * n) \div Unit = k * n
  BY <1>2, UnitsOf
<1>6. mem[s].addr = k * i /\ mem[t].addr = k * j /\ Regions[r] = Regions[q]
  BY <1>3, <1>4, <1>5 DEF MuAddr, Overlap
<1>7. r = q
  BY <1>6, FillAssumption DEF Reg
<1>8. i # j
  BY <1>3, <1>4, <1>7 DEF FillInv, OnceEach
<1>9. PICK x \in Nat, y \in Nat : x = (k * i) * Unit /\ y = (k * j) * Unit
  <2>1. k * i \in Nat /\ k * j \in Nat
    OBVIOUS
  <2> HIDE <1>5
  <2> QED BY <2>1, FillAssumption
<1>10. x < y + size /\ y < x + size
  BY <1>1, <1>2, <1>6, <1>9 DEF Overlap
<1>11. i < j => x + size <= y
  BY <1>5, <1>9, ApartInUnits
<1>12. j < i => y + size <= x
  BY <1>5, <1>9, ApartInUnits
<1> QED BY <1>8, <1>10, <1>11, <1>12

LEMMA BufferInside ==
  ASSUME FillInv, NEW s \in DOMAIN mem, NEW l \in AllLists, mem[s].list = l, ~Filling(l)
  PROVE  Inside(mem[s])
<1>1. PICK size \in Nat \ {0} : size = BufSize(l) /\ size % Unit = 0
  BY ListTypes DEF FillInv
<1>2. PICK r \in Reg, i \in Nat : i < Nums(l)[r] /\ mem[s] = MuAddr(l, r, size * i)
  BY <1>1 DEF FillInv, Entries, Belongs, Done
<1>3. PICK k \in Nat \ {0} : size = k * Unit /\ \A n \in Nat : (size * n) \div Unit = k * n
  BY <1>1, UnitsOf
<1>4. mem[s].addr = k * i /\ mem[s].region = Regions[r]
  BY <1>2, <1>3 DEF MuAddr
<1>5. PICK n \in Nat : n = Nums(l)[r]
  BY ListTypes DEF FillInv
<1>6. (k * i) * Unit + size <= size * n
  BY <1>2, <1>3, <1>5, ApartInUnits
<1>7. mem[s].addr * Unit + BufSize(mem[s].list) <= Allocated(mem[s].list, r)
  BY <1>1, <1>4, <1>5, <1>6 DEF Allocated
<1> QED BY <1>4, <1>7 DEF Inside, Reg

LEMMA WellFilled == FillInv => ListsWellFilled
<1> SUFFICES ASSUME FillInv PROVE ListsWellFilled
  OBVIOUS
<1>1. \A s, t \in DOMAIN mem : s # t => ~Overlap(mem[s], mem[t], BufSize(mem[s].list))
  BY BuffersApart
<1>2. ASSUME NEW l \in DOMAIN desc, NEW handed, handed = desc[l].tail - desc[l].head
      PROVE  /\ \A s \in Handed(l) : s \in DOMAIN mem /\ mem[s].list = l /\ Inside(mem[s])
             /\ FirstSlot(l) <= desc[l].head /\ desc[l].tail <= FirstSlot(l) + Size(l) - 1
             /\ Total(Nums(l)) - handed \in {0, 1}
             /\ l.kind = "emu" /\ handed < Total(Nums(l)) => Total(Nums(l)) = Size(l)
  <2>1. l \in AllLists /\ FillAccepted(l) /\ desc[l] = DescOf(l)
    BY DEF FillInv, Described
  <2>2. ~Filling(l) /\ Begun(l)
    BY <1>2, AtHead DEF Filling, Begun
  <2>3. PICK f \in Nat, n \in Nat, z \in Nat :
          f = FirstSlot(l) /\ n = Total(Nums(l)) /\ z = Size(l)
    BY <2>1, <2>2, EndInside
  <2>4. n <= z /\ End(l) = f + n
    BY <2>1, <2>2, <2>3 DEF FillAccepted, End
  <2>5. /\ l.kind \in {"blq", "emu"} /\ (l.kind = "emu" => f = 0) /\ (l.kind = "blq" => z > 0)
    BY <2>1, <2>3, ListTypes DEF FillInv, AllLists, FirstSlot
  <2>6. PICK h \in Int, t \in Int : h = desc[l].head /\ t = desc[l].tail /\ h = f
          /\ (l.kind = "blq" => t = IF n > 0 THEN f + n - 1 ELSE f)
          /\ (l.kind = "emu" => t = IF n = z THEN z - 1 ELSE n)
    <3>1. CASE l.kind = "blq"
      <4>1. desc[l] = DmaDesc(l, f)
        BY <2>1, <2>3, <3>1 DEF DescOf
      <4>2. desc[l].head = f /\ desc[l].tail = IF f + n > f THEN f + n - 1 ELSE f + n
        BY <2>3, <4>1 DEF DmaDesc
      <4> QED BY <3>1, <4>2
    <3>2. CASE l.kind = "emu"
      <4>1. desc[l] = RingDesc(l)
        BY <2>1, <3>2 DEF DescOf
      <4>2. desc[l].head = 0 /\ desc[l].tail = IF n = z THEN z - 1 ELSE n
        BY <2>3, <4>1 DEF RingDesc, RingCount
      <4> QED BY <2>5, <3>2, <4>2
    <3> QED BY <2>5, <3>1, <3>2
  <2>7. /\ t <= f + z - 1 /\ n - (t - h) \in {0, 1} /\ t <= f + n
        /\ (l.kind = "emu" /\ t - h < n => n = z)
    <3>1. CASE l.kind = "blq" /\ n > 0
      <4>1. t = f + n - 1 /\ h = f /\ l.kind # "emu"
        BY <2>6, <3>1
      <4> QED BY <2>4, <4>1
    <3>2. CASE l.kind = "blq" /\ ~(n > 0)
      <4>1. t = f /\ h = f /\ n = 0 /\ z > 0 /\ l.kind # "emu"
        BY <2>5, <2>6, <3>2
      <4> QED BY <4>1
    <3>3. CASE l.kind = "emu" /\ n = z
      <4>1. t = z - 1 /\ h = 0 /\ f = 0
        BY <2>5, <2>6, <3>3
      <4> QED BY <3>3, <4>1
    <3>4. CASE l.kind = "emu" /\ n # z
      <4>1. t = n /\ h = 0 /\ f = 0
        BY <2>5, <2>6, <3>4
      <4> QED BY <2>4, <3>4, <4>1
    <3> QED BY <2>5, <3>1, <3>2, <3>3, <3>4
  <2>8. ASSUME NEW s \in Handed(l)
        PROVE  s \in DOMAIN mem /\ mem[s].list = l /\ Inside(mem[s])
    <3>1. PICK i \in h .. t - 1 : s = Slot(l, i)
      BY <2>6 DEF Handed
    <3>2. i \in Int /\ f <= i /\ i < f + n
      BY <2>6, <2>7, <3>1
    <3>3. s \in DOMAIN mem /\ mem[s].list = l
      BY <2>1, <2>2, <2>3, <2>4, <3>1, <3>2 DEF FillInv, NoGaps
    <3> QED BY <2>1, <2>2, <3>3, BufferInside
  <2> QED BY <1>2, <2>3, <2>6, <2>7, <2>8
<1>3. ASSUME step = "fill", Total(left) > 0
      PROVE  \E r \in DOMAIN Regions : left[r] > 0 /\ cfg[Head(todo).blq].density[r] > 0
  <2>1. PICK l : l = Head(todo) /\ todo # <<>> /\ Going(l)
    BY <1>3 DEF FillInv, FillGoes
  <2>2. PICK r \in Reg : left[r] > 0 /\ left[r] \in Nat
    BY <1>3, TotalFacts DEF FillInv, FillType
  <2>3. Nums(l) \in [Reg -> Nat] /\ left[r] <= Nums(l)[r]
    BY <2>1, ListTypes, AtHead DEF FillInv, Going
  <2>4. Nums(l)[r] > 0
    BY <2>2, <2>3
  <2>5. cfg[l.blq].density[r] > 0
    BY <2>1, <2>3, <2>4 DEF Going, FillAccepted, Reg
  <2> QED BY <2>1, <2>2, <2>5 DEF Reg
<1> QED BY <1>1, <1>2, <1>3 DEF ListsWellFilled

(***************************************************************************)
(* Whatever blm_cfg.h says of the BLQs, as long as the macros accept it:   *)
(* no byte is in two entries, what a descriptor hands out are buffers of   *)
(* its list inside their allocation, and no list runs into the next.       *)
(* (blm_ring_fill, blm_blq_ring_init and blm_emu_ring_init, blm_main.uc)   *)
(***************************************************************************)
THEOREM ListsFilled == FillSpec => []ListsWellFilled
<1>1. FillInit => FillInv
  BY FillInitially
<1>2. FillInv /\ [FillNext]_fill_vars => FillInv'
  BY FillKept
<1>3. FillInv => ListsWellFilled
  BY WellFilled
<1> QED BY <1>1, <1>2, <1>3, PTL DEF FillSpec
=============================================================================
