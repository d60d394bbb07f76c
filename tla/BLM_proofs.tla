------------------------------ MODULE BLM_proofs ------------------------------
(***************************************************************************)
(* Proofs about the Buffer List Manager of one BLQ, for every value of the *)
(* constants that the assumptions of BLM allow: first what holds of both   *)
(* of its contexts, then the DMA side (nothing is owed to the DMA engine   *)
(* twice and its list is never overfed, as long as the TM holds no more    *)
(* than MaxPending + 1 batches back), and the pool of buffers it is.       *)
(***************************************************************************)
EXTENDS BLMInvariant, BLMRefinement, TLAPS

(***************************************************************************)
(* Arithmetic of the counts.                                               *)
(***************************************************************************)

\* The constants the arithmetic is about are numbers of the right size.
LEMMA Sizes ==
  /\ Threshold \in Nat \ {0} /\ CountMod \in Nat \ {0} /\ Threshold <= CountMod
  /\ CountMod % Threshold = 0
<1>1. CountMod \in Nat \ {0} /\ CountMod < Threshold => CountMod % Threshold = CountMod
  BY ThresholdAssumption
<1> QED
  BY <1>1, ThresholdAssumption, CountAssumption

\* A whole number of batches is a multiple of Threshold.
LEMMA WholeMultiple == \A x \in Int : Whole(x) <=> \E k \in Int : x = k * Threshold
<1> SUFFICES ASSUME NEW x \in Int PROVE Whole(x) <=> \E k \in Int : x = k * Threshold
  OBVIOUS
<1>1. Threshold \in Nat \ {0}
  BY Sizes
<1>2. ASSUME Whole(x) PROVE \E k \in Int : x = k * Threshold
  <2>1. x = Threshold * (x \div Threshold) + (x % Threshold) /\ x \div Threshold \in Int
    BY <1>1
  <2>2. x = (x \div Threshold) * Threshold
    BY <1>1, <1>2, <2>1 DEF Whole
  <2> QED
    BY <2>1, <2>2
<1>3. ASSUME NEW k \in Int, x = k * Threshold PROVE Whole(x)
  BY <1>1, <1>3 DEF Whole
<1> QED
  BY <1>2, <1>3

\* Sums and differences of whole numbers of batches are whole.
LEMMA WholeSum == \A x, y \in Int : Whole(x) /\ Whole(y) => Whole(x + y) /\ Whole(x - y)
<1> SUFFICES ASSUME NEW x \in Int, NEW y \in Int, Whole(x), Whole(y)
             PROVE  Whole(x + y) /\ Whole(x - y)
  OBVIOUS
<1>1. PICK k \in Int : x = k * Threshold
  BY WholeMultiple
<1>2. PICK l \in Int : y = l * Threshold
  BY WholeMultiple
<1>3. x + y = (k + l) * Threshold /\ x - y = (k - l) * Threshold
  BY <1>1, <1>2, Sizes
<1>4. x + y \in Int /\ x - y \in Int /\ k + l \in Int /\ k - l \in Int
  OBVIOUS
<1> QED
  BY <1>3, <1>4, WholeMultiple

\* Less than one batch, and whole: nothing.
LEMMA WholeSmall == \A x \in Int : Whole(x) /\ 0 <= x /\ x < Threshold => x = 0
<1> SUFFICES ASSUME NEW x \in Int, Whole(x), 0 <= x, x < Threshold PROVE x = 0
  OBVIOUS
<1>1. PICK k \in Int : x = k * Threshold
  BY WholeMultiple
<1>2. (k >= 1 => k * Threshold >= Threshold) /\ (k <= -1 => k * Threshold < 0)
  BY Sizes
<1> QED
  BY <1>1, <1>2, Sizes

\* The constants that are whole numbers of batches.
LEMMA WholeConstants == Whole(0) /\ Whole(Threshold) /\ Whole(CountMod)
  BY Sizes DEF Whole

\* The deficit between two counts, with the wrap made explicit.
LEMMA DeficitCases ==
  \A a, b \in 0 .. CountMod - 1 :
    Deficit(a, b) = IF a >= b THEN a - b ELSE a - b + CountMod
<1>1. \A x \in 0 .. CountMod - 1 : x % CountMod = x
  BY Sizes
<1>2. \A x \in Int : -CountMod < x /\ x < 0 => x % CountMod = x + CountMod
  BY Sizes
<1>3. ASSUME NEW a \in 0 .. CountMod - 1, NEW b \in 0 .. CountMod - 1
      PROVE  (a - b) % CountMod = IF a >= b THEN a - b ELSE a - b + CountMod
  BY <1>1, <1>2, Sizes
<1> QED
  BY <1>3 DEF Deficit

\* A deficit is smaller than the period of the counts.
LEMMA DeficitRange == \A a, b \in Int : Deficit(a, b) \in 0 .. CountMod - 1
  BY Sizes DEF Deficit

\* A count is a number, and so is its distance to another.
LEMMA CountRange ==
  \A a, b : IsCount(a) /\ IsCount(b) =>
    a \in Int /\ Deficit(a, b) \in 0 .. CountMod - 1 /\ Deficit(a, b) \in Nat
<1> SUFFICES ASSUME NEW a, NEW b, IsCount(a), IsCount(b)
             PROVE  a \in Int /\ Deficit(a, b) \in 0 .. CountMod - 1 /\ Deficit(a, b) \in Nat
  OBVIOUS
<1>1. a \in Int /\ b \in Int /\ CountMod \in Nat
  BY Sizes DEF IsCount
<1> QED
  BY <1>1, DeficitRange

\* The deficit between two counts is a whole number of batches.
LEMMA DeficitWhole == \A a, b : IsCount(a) /\ IsCount(b) => Whole(Deficit(a, b))
<1> SUFFICES ASSUME NEW a, NEW b, IsCount(a), IsCount(b) PROVE Whole(Deficit(a, b))
  OBVIOUS
<1>1. a \in 0 .. CountMod - 1 /\ b \in 0 .. CountMod - 1 /\ Whole(a) /\ Whole(b)
  BY DEF IsCount
<1>2. a \in Int /\ b \in Int /\ a - b \in Int /\ CountMod \in Int
  BY <1>1, Sizes
<1>3. Whole(a - b)
  BY <1>1, <1>2, WholeSum
<1>4. Whole(a - b + CountMod)
  BY <1>2, <1>3, WholeSum, WholeConstants
<1> QED
  BY <1>1, <1>3, <1>4, DeficitCases

\* One more event: the count stays a count, and both distances grow by
\* Threshold as long as the longer one does not wrap.
LEMMA NextCount ==
  ASSUME NEW cur, NEW data, NEW count, NEW next,
         IsCount(cur), IsCount(data), IsCount(count),
         next = (count + Threshold) % CountMod,
         Deficit(count, cur) = Deficit(data, cur) + Deficit(count, data),
         Deficit(count, cur) + Threshold < CountMod
  PROVE  /\ IsCount(next)
         /\ Deficit(next, cur) = Deficit(count, cur) + Threshold
         /\ Deficit(next, data) = Deficit(count, data) + Threshold
<1>1. /\ Threshold \in Nat \ {0} /\ CountMod \in Nat \ {0} /\ Threshold <= CountMod
      /\ cur \in 0 .. CountMod - 1 /\ data \in 0 .. CountMod - 1
      /\ count \in 0 .. CountMod - 1
  BY Sizes DEF IsCount
<1>2. next = IF count + Threshold < CountMod THEN count + Threshold
             ELSE count + Threshold - CountMod
  <2>1. \A x \in 0 .. CountMod - 1 : x % CountMod = x
    BY <1>1
  <2>2. \A x \in Int : CountMod <= x /\ x < 2 * CountMod => x % CountMod = x - CountMod
    BY <1>1
  <2> QED
    BY <1>1, <2>1, <2>2
<1>3. next \in 0 .. CountMod - 1
  BY <1>1, <1>2
<1>4. Whole(next)
  <2>1. count \in Int /\ Threshold \in Int /\ CountMod \in Int /\ count + Threshold \in Int
    BY <1>1
  <2>2. Whole(count + Threshold)
    BY <2>1, WholeSum, WholeConstants DEF IsCount
  <2>3. Whole(count + Threshold - CountMod)
    BY <2>1, <2>2, WholeSum, WholeConstants
  <2> QED
    BY <1>2, <2>2, <2>3
<1>5. /\ Deficit(next, cur) = IF next >= cur THEN next - cur ELSE next - cur + CountMod
      /\ Deficit(next, data) = IF next >= data THEN next - data ELSE next - data + CountMod
      /\ Deficit(count, cur) = IF count >= cur THEN count - cur ELSE count - cur + CountMod
      /\ Deficit(count, data) = IF count >= data THEN count - data ELSE count - data + CountMod
      /\ Deficit(data, cur) = IF data >= cur THEN data - cur ELSE data - cur + CountMod
  BY <1>1, <1>3, DeficitCases
<1>6. Deficit(next, cur) = Deficit(count, cur) + Threshold
  BY <1>1, <1>2, <1>5
<1>7. Deficit(next, data) = Deficit(count, data) + Threshold
  BY <1>1, <1>2, <1>5
<1> QED
  BY <1>3, <1>4, <1>6, <1>7 DEF IsCount


(***************************************************************************)
(* The event bus.                                                          *)
(***************************************************************************)
EvType == ev \in [Sides -> EventState]

\* Nothing the NBI has counted or pushed on side s changes.
SideKept(s) ==
  /\ ev'[s].part = ev[s].part /\ ev'[s].count = ev[s].count
  /\ ev'[s].data = ev[s].data

\* Engaging a monitor moves no count.
LEMMA EngagedFacts ==
  ASSUME EvType, NEW s \in Sides, ev' = Engaged(s)
  PROVE  EvType' /\ \A t \in Sides : SideKept(t)
  BY DEF EvType, Engaged, EventState, SideKept

\* Consuming a signal moves no count.
LEMMA ConsumedFacts ==
  ASSUME EvType, NEW s \in Sides, ev' = Consumed(s)
  PROVE  EvType' /\ \A t \in Sides : SideKept(t)
  BY DEF EvType, Consumed, EventState, SideKept

\* The push of an event copies the NBI's count of that side only.
LEMMA PushFacts ==
  ASSUME EvType, NEW s \in Sides, AutoPush(s)
  PROVE  /\ EvType' /\ \A t \in Sides \ {s} : SideKept(t)
         /\ ev'[s].part = ev[s].part /\ ev'[s].count = ev[s].count
         /\ ev'[s].data = ev[s].count
  BY DEF EvType, AutoPush, EventState, SideKept

\* What counting n buffers does to the side they move on, and to the other.
LEMMA CountFacts ==
  ASSUME EvType, NEW s \in Sides, NEW n \in Nat, Count(s, n)
  PROVE  /\ EvType' /\ \A t \in Sides \ {s} : SideKept(t)
         /\ ev'[s].data = ev[s].data
         /\ IF ev[s].part + n < Threshold
            THEN ev'[s].part = ev[s].part + n /\ ev'[s].count = ev[s].count
            ELSE /\ ev'[s].part = ev[s].part + n - Threshold
                 /\ ev'[s].count = (ev[s].count + Threshold) % CountMod
<1>1. (ev[s].count + Threshold) % CountMod \in Nat /\ Threshold \in Nat
  BY Sizes DEF EvType, EventState
<1>2. CASE ev[s].part + n < Threshold
  <2>1. ev' = [ev EXCEPT ![s].part = @ + n]
    BY <1>2 DEF Count
  <2> QED
    BY <1>2, <2>1 DEF EvType, EventState, SideKept
<1>3. CASE ~(ev[s].part + n < Threshold)
  <2> DEFINE next == (ev[s].count + Threshold) % CountMod
  <2>1. ev' = [ev EXCEPT ![s].part = @ + n - Threshold, ![s].count = next, ![s].fresh = Heard(s)]
    BY <1>3 DEF Count
  <2>2. ev[s].part + n - Threshold \in Nat /\ next \in Nat
    BY <1>1, <1>3 DEF EvType, EventState
  <2>4. Heard(s) \in BOOLEAN
    BY DEF Heard
  <2> HIDE DEF next
  <2>3. /\ EvType' /\ \A t \in Sides \ {s} : SideKept(t)
        /\ ev'[s].data = ev[s].data
        /\ ev'[s].part = ev[s].part + n - Threshold /\ ev'[s].count = next
    BY <2>1, <2>2, <2>4 DEF EvType, EventState, SideKept
  <2> QED
    BY <1>3, <2>3 DEF next
<1> QED
  BY <1>2, <1>3

(***************************************************************************)
(* Type correctness.                                                       *)
(***************************************************************************)

\* Every step keeps the types.
LEMMA TypeStep == TypeOK /\ [Next]_vars => TypeOK'
<1> SUFFICES ASSUME TypeOK, [Next]_vars PROVE TypeOK'
  OBVIOUS
<1> USE ThresholdAssumption DEF TypeOK, Fill, Contexts, EgressLabels, IngressLabels, descr, egress, ingress
<1>a. EvType /\ ev \in [Sides -> EventState] /\ "tm" \in Sides /\ "dma" \in Sides
  BY DEF EvType, Sides
<1>b. \A s \in Sides : ev' = Engaged(s) \/ ev' = Consumed(s) => ev' \in [Sides -> EventState]
  BY <1>a, EngagedFacts, ConsumedFacts DEF EvType
<1>c. \A s \in Sides : ev[s].data \in Nat
  BY <1>a DEF EventState
<1>d. \A x, y \in Nat : Deficit(x, y) \in Int
  BY DeficitRange
<1>1. CASE EgressStart
  BY <1>1, <1>a, <1>b DEF EgressStart, SwapOut, Ready, Other
<1>2. CASE EgressWake
  BY <1>2, <1>a, <1>b, <1>c, <1>d DEF EgressWake
<1>3. CASE EgressNullRecycle
  BY <1>3 DEF EgressNullRecycle, InEgressLoop
<1>4. CASE EgressRecycle
  BY <1>4 DEF EgressRecycle, InEgressLoop
<1>5. CASE EgressNeedCache
  BY <1>5 DEF EgressNeedCache, InEgressLoop
<1>6. CASE EgressSpin
  BY <1>6 DEF EgressSpin, SwapOut, Ready, Other
<1>7. CASE EgressPullToRing
  BY <1>7 DEF EgressPullToRing
<1>8. CASE EgressPullToCache
  BY <1>8 DEF EgressPullToCache, SwapOut, Ready, Other
<1>9. CASE EgressPulled
  <2>1. cacheBusy' \in BOOLEAN
    BY <1>9, Zenon DEF EgressPulled
  <2> QED
    BY <1>9, <2>1 DEF EgressPulled
<1>10. CASE EgressDone
  BY <1>10, <1>a, <1>b DEF EgressDone, SwapOut, Ready, Other
<1>0. CASE IngressStart
  BY <1>0 DEF IngressStart, ingressRest
<1>11. CASE IngressInitFill
  BY <1>11 DEF IngressInitFill, PopRing, SwapOut, Ready, Other, ingressRest
<1>12. CASE IngressInitFull
  BY <1>12, <1>a, <1>b DEF IngressInitFull, SwapOut, Ready, Other, ingressRest
<1>13. CASE IngressPopped
  BY <1>13 DEF IngressPopped, ingressRest
<1>14. CASE IngressUnderflow
  BY <1>14, <1>a, <1>b DEF IngressUnderflow, SwapOut, Ready, Other, ingressRest
<1>15. CASE IngressFillWrite
  BY <1>15 DEF IngressFillWrite, SwapOut, Ready, Other, ingressRest
<1>16. CASE IngressFilled
  <2>1. cacheBusy' \in BOOLEAN
    BY <1>16, Zenon DEF IngressFilled
  <2> QED
    BY <1>16, <2>1 DEF IngressFilled, ingressRest
<1>17. CASE IngressEvent
  BY <1>17, <1>a, <1>b, <1>c, <1>d DEF IngressEvent
<1>18. CASE IngressAlarm
  BY <1>18, <1>a, <1>b, <1>c, <1>d DEF IngressAlarm
<1>19. CASE IngressNullRecycle
  BY <1>19 DEF IngressNullRecycle
<1>20. CASE IngressCountEvent
  BY <1>20 DEF IngressCountEvent
<1>21. CASE IngressCounted
  BY <1>21 DEF IngressCounted, ingressRest
<1>22. CASE IngressFeed
  BY <1>22 DEF IngressFeed, ingressRest
<1>23. CASE IngressPush
  BY <1>23 DEF IngressPush, ingressRest
<1>24. CASE IngressCacheLow
  BY <1>24 DEF IngressCacheLow, ingressRest
<1>25. CASE IngressRefill
  BY <1>25 DEF IngressRefill, PopRing, SwapOut, Ready, Other, ingressRest
<1>26. CASE IngressRefilled
  BY <1>26 DEF IngressRefilled, ingressRest
<1>27. CASE IngressSpin
  BY <1>27 DEF IngressSpin, SwapOut, Ready, Other
<1>28. CASE IngressWait
  BY <1>28, <1>a, <1>b DEF IngressWait, SwapOut, Ready, Other
<1>29. ASSUME NEW s \in Sides, AutoPush(s) PROVE TypeOK'
  <2>1. ev' \in [Sides -> EventState]
    BY <1>a, <1>29, PushFacts DEF EvType
  <2> QED
    BY <1>29, <2>1 DEF AutoPush
<1>30. ASSUME NEW n \in NbiBatch, DmaTake(n) PROVE TypeOK'
  <2>1. n \in Nat /\ ev' \in [Sides -> EventState]
    BY <1>a, <1>30, CountFacts, InputAssumption DEF DmaTake, EvType
  <2> QED
    BY <1>30, <2>1 DEF DmaTake
<1>31. ASSUME NEW n \in NbiBatch, TmFree(n) PROVE TypeOK'
  <2>1. n \in Nat /\ ev' \in [Sides -> EventState]
    BY <1>a, <1>31, CountFacts, InputAssumption DEF TmFree, EvType
  <2> QED
    BY <1>31, <2>1 DEF TmFree
<1>32. ASSUME NEW n \in AppBatch, AppAlloc(n) PROVE TypeOK'
  BY <1>32, InputAssumption DEF AppAlloc
<1>33. ASSUME NEW n \in AppBatch, AppFree(n) PROVE TypeOK'
  BY <1>33, InputAssumption DEF AppFree
<1>34. ASSUME NEW n \in AppBatch, AppSend(n) PROVE TypeOK'
  BY <1>34, InputAssumption DEF AppSend
<1>35. CASE UNCHANGED vars
  BY <1>35 DEF vars
<1> QED
  BY <1>0, <1>1, <1>2, <1>3, <1>4, <1>5, <1>6, <1>7, <1>8, <1>9, <1>10, <1>11, <1>12, <1>13,
     <1>14, <1>15, <1>16, <1>17, <1>18, <1>19, <1>20, <1>21, <1>22, <1>23, <1>24, <1>25,
     <1>26, <1>27, <1>28, <1>29, <1>30, <1>31, <1>32, <1>33, <1>34, <1>35
     DEF Next, EgressNext, EgressNormal, IngressNext, IngressNormal, NbiNext, AppNext

\* The first state is well typed.
LEMMA TypeInit == Init => TypeOK
<1> SUFFICES ASSUME Init PROVE TypeOK
  OBVIOUS
<1>1. cacheBusy \in BOOLEAN /\ isAps \in BOOLEAN /\ filled \in BOOLEAN
  BY Zenon DEF Init
<1>2. ev \in [Sides -> EventState]
  BY DEF Init, EventState
<1>3. cacheCnt \in Int /\ dmaPend \in Int /\ ring \in Nat /\ dma \in Nat
  BY RingAssumption, CountAssumption DEF Init
<1> QED
  BY <1>1, <1>2, <1>3 DEF Init, TypeOK, Contexts, EgressLabels, IngressLabels, Fill

\* The registers, counters and labels stay in their types.
THEOREM TypeCorrect == Spec => []TypeOK
  BY TypeInit, TypeStep, PTL DEF Spec

(***************************************************************************)
(* The lock and the cache.                                                 *)
(***************************************************************************)

\* The flag goes up and down with the write it stands for: blm_acquire_lock,
\* blm_release_lock and the swaps between them.
LEMMA LockStep == TypeOK /\ LockHeld /\ [Next]_vars => LockHeld'
<1> SUFFICES ASSUME TypeOK, LockHeld, [Next]_vars PROVE LockHeld'
  OBVIOUS
<1> USE DEF TypeOK, LockHeld, EgressLabels, IngressLabels, descr, egress, ingress
<1>1. CASE EgressStart
  BY <1>1 DEF EgressStart, SwapOut, Ready, Other
<1>2. CASE EgressWake
  BY <1>2 DEF EgressWake, Deficit
<1>3. CASE EgressNullRecycle
  BY <1>3 DEF EgressNullRecycle, InEgressLoop
<1>4. CASE EgressRecycle
  BY <1>4 DEF EgressRecycle, InEgressLoop
<1>5. CASE EgressNeedCache
  BY <1>5 DEF EgressNeedCache, InEgressLoop
<1>6. CASE EgressSpin
  BY <1>6 DEF EgressSpin, SwapOut, Ready, Other
<1>7. CASE EgressPullToRing
  BY <1>7 DEF EgressPullToRing
<1>8. CASE EgressPullToCache
  BY <1>8 DEF EgressPullToCache, SwapOut, Ready, Other
<1>9. CASE EgressPulled
  BY <1>9 DEF EgressPulled
<1>10. CASE EgressDone
  BY <1>10 DEF EgressDone, SwapOut, Ready, Other
<1>0. CASE IngressStart
  BY <1>0 DEF IngressStart, ingressRest
<1>11. CASE IngressInitFill
  BY <1>11 DEF IngressInitFill, PopRing, SwapOut, Ready, Other, ingressRest
<1>12. CASE IngressInitFull
  BY <1>12 DEF IngressInitFull, SwapOut, Ready, Other, ingressRest
<1>13. CASE IngressPopped
  BY <1>13 DEF IngressPopped, ingressRest
<1>14. CASE IngressUnderflow
  BY <1>14 DEF IngressUnderflow, SwapOut, Ready, Other, ingressRest
<1>15. CASE IngressFillWrite
  BY <1>15 DEF IngressFillWrite, SwapOut, Ready, Other, ingressRest
<1>16. CASE IngressFilled
  BY <1>16 DEF IngressFilled, ingressRest
<1>17. CASE IngressEvent
  BY <1>17 DEF IngressEvent, Deficit
<1>18. CASE IngressAlarm
  BY <1>18 DEF IngressAlarm, Deficit
<1>19. CASE IngressNullRecycle
  BY <1>19 DEF IngressNullRecycle
<1>20. CASE IngressCountEvent
  BY <1>20 DEF IngressCountEvent
<1>21. CASE IngressCounted
  BY <1>21 DEF IngressCounted, ingressRest
<1>22. CASE IngressFeed
  BY <1>22 DEF IngressFeed, ingressRest
<1>23. CASE IngressPush
  BY <1>23 DEF IngressPush, ingressRest
<1>24. CASE IngressCacheLow
  BY <1>24 DEF IngressCacheLow, ingressRest
<1>25. CASE IngressRefill
  BY <1>25 DEF IngressRefill, PopRing, SwapOut, Ready, Other, ingressRest
<1>26. CASE IngressRefilled
  BY <1>26 DEF IngressRefilled, ingressRest
<1>27. CASE IngressSpin
  BY <1>27 DEF IngressSpin, SwapOut, Ready, Other
<1>28. CASE IngressWait
  BY <1>28 DEF IngressWait, SwapOut, Ready, Other
<1>29. ASSUME NEW s \in Sides, AutoPush(s) PROVE LockHeld'
  BY <1>29 DEF AutoPush
<1>30. ASSUME NEW n \in NbiBatch, DmaTake(n) PROVE LockHeld'
  BY <1>30 DEF DmaTake
<1>31. ASSUME NEW n \in NbiBatch, TmFree(n) PROVE LockHeld'
  BY <1>31 DEF TmFree
<1>32. ASSUME NEW n \in AppBatch, AppAlloc(n) PROVE LockHeld'
  BY <1>32 DEF AppAlloc
<1>33. ASSUME NEW n \in AppBatch, AppFree(n) PROVE LockHeld'
  BY <1>33 DEF AppFree
<1>34. ASSUME NEW n \in AppBatch, AppSend(n) PROVE LockHeld'
  BY <1>34 DEF AppSend
<1>35. CASE UNCHANGED vars
  BY <1>35 DEF vars
<1> QED
  BY <1>0, <1>1, <1>2, <1>3, <1>4, <1>5, <1>6, <1>7, <1>8, <1>9, <1>10, <1>11, <1>12, <1>13,
     <1>14, <1>15, <1>16, <1>17, <1>18, <1>19, <1>20, <1>21, <1>22, <1>23, <1>24, <1>25,
     <1>26, <1>27, <1>28, <1>29, <1>30, <1>31, <1>32, <1>33, <1>34, <1>35
     DEF Next, EgressNext, EgressNormal, IngressNext, IngressNormal, NbiNext, AppNext

\* The transfer registers are loaded by the pop and emptied by the write.
LEMMA RegistersStep == TypeOK /\ RegistersHeld /\ [Next]_vars => RegistersHeld'
<1> SUFFICES ASSUME TypeOK, RegistersHeld, [Next]_vars PROVE RegistersHeld'
  OBVIOUS
<1> USE DEF TypeOK, RegistersHeld, Fill, IngressLabels, descr, egress, ingress
<1>1. CASE EgressStart
  BY <1>1 DEF EgressStart, SwapOut, Ready, Other
<1>2. CASE EgressWake
  BY <1>2 DEF EgressWake, Deficit
<1>3. CASE EgressNullRecycle
  BY <1>3 DEF EgressNullRecycle, InEgressLoop
<1>4. CASE EgressRecycle
  BY <1>4 DEF EgressRecycle, InEgressLoop
<1>5. CASE EgressNeedCache
  BY <1>5 DEF EgressNeedCache, InEgressLoop
<1>6. CASE EgressSpin
  BY <1>6 DEF EgressSpin, SwapOut, Ready, Other
<1>7. CASE EgressPullToRing
  BY <1>7 DEF EgressPullToRing
<1>8. CASE EgressPullToCache
  BY <1>8 DEF EgressPullToCache, SwapOut, Ready, Other
<1>9. CASE EgressPulled
  BY <1>9 DEF EgressPulled
<1>10. CASE EgressDone
  BY <1>10 DEF EgressDone, SwapOut, Ready, Other
<1>0. CASE IngressStart
  BY <1>0 DEF IngressStart, ingressRest
<1>11. CASE IngressInitFill
  BY <1>11 DEF IngressInitFill, PopRing, SwapOut, Ready, Other, ingressRest
<1>12. CASE IngressInitFull
  BY <1>12 DEF IngressInitFull, SwapOut, Ready, Other, ingressRest
<1>13. CASE IngressPopped
  BY <1>13 DEF IngressPopped, ingressRest
<1>14. CASE IngressUnderflow
  BY <1>14 DEF IngressUnderflow, SwapOut, Ready, Other, ingressRest
<1>15. CASE IngressFillWrite
  BY <1>15 DEF IngressFillWrite, SwapOut, Ready, Other, ingressRest
<1>16. CASE IngressFilled
  BY <1>16 DEF IngressFilled, ingressRest
<1>17. CASE IngressEvent
  BY <1>17 DEF IngressEvent, Deficit
<1>18. CASE IngressAlarm
  BY <1>18 DEF IngressAlarm, Deficit
<1>19. CASE IngressNullRecycle
  BY <1>19 DEF IngressNullRecycle
<1>20. CASE IngressCountEvent
  BY <1>20 DEF IngressCountEvent
<1>21. CASE IngressCounted
  BY <1>21 DEF IngressCounted, ingressRest
<1>22. CASE IngressFeed
  BY <1>22 DEF IngressFeed, ingressRest
<1>23. CASE IngressPush
  BY <1>23 DEF IngressPush, ingressRest
<1>24. CASE IngressCacheLow
  BY <1>24 DEF IngressCacheLow, ingressRest
<1>25. CASE IngressRefill
  BY <1>25 DEF IngressRefill, PopRing, SwapOut, Ready, Other, ingressRest
<1>26. CASE IngressRefilled
  BY <1>26 DEF IngressRefilled, ingressRest
<1>27. CASE IngressSpin
  BY <1>27 DEF IngressSpin, SwapOut, Ready, Other
<1>28. CASE IngressWait
  BY <1>28 DEF IngressWait, SwapOut, Ready, Other
<1>29. ASSUME NEW s \in Sides, AutoPush(s) PROVE RegistersHeld'
  BY <1>29 DEF AutoPush
<1>30. ASSUME NEW n \in NbiBatch, DmaTake(n) PROVE RegistersHeld'
  BY <1>30 DEF DmaTake
<1>31. ASSUME NEW n \in NbiBatch, TmFree(n) PROVE RegistersHeld'
  BY <1>31 DEF TmFree
<1>32. ASSUME NEW n \in AppBatch, AppAlloc(n) PROVE RegistersHeld'
  BY <1>32 DEF AppAlloc
<1>33. ASSUME NEW n \in AppBatch, AppFree(n) PROVE RegistersHeld'
  BY <1>33 DEF AppFree
<1>34. ASSUME NEW n \in AppBatch, AppSend(n) PROVE RegistersHeld'
  BY <1>34 DEF AppSend
<1>35. CASE UNCHANGED vars
  BY <1>35 DEF vars
<1> QED
  BY <1>0, <1>1, <1>2, <1>3, <1>4, <1>5, <1>6, <1>7, <1>8, <1>9, <1>10, <1>11, <1>12, <1>13,
     <1>14, <1>15, <1>16, <1>17, <1>18, <1>19, <1>20, <1>21, <1>22, <1>23, <1>24, <1>25,
     <1>26, <1>27, <1>28, <1>29, <1>30, <1>31, <1>32, <1>33, <1>34, <1>35
     DEF Next, EgressNext, EgressNormal, IngressNext, IngressNormal, NbiNext, AppNext

\* A block or a batch is only brought to the cache when there is room for it,
\* and the room cannot go away while the context waits.
LEMMA CacheStep == TypeOK /\ RegistersHeld /\ CacheRoom /\ [Next]_vars => CacheRoom'
<1> SUFFICES ASSUME TypeOK, RegistersHeld, CacheRoom, [Next]_vars PROVE CacheRoom'
  OBVIOUS
<1> USE CacheAssumption, ThresholdAssumption DEF TypeOK, RegistersHeld, CacheRoom, HighWaterMark, Fill, descr, egress, ingress
<1>1. CASE EgressStart
  BY <1>1 DEF EgressStart, SwapOut, Ready, Other
<1>2. CASE EgressWake
  BY <1>2 DEF EgressWake, Deficit
<1>3. CASE EgressNullRecycle
  BY <1>3 DEF EgressNullRecycle, InEgressLoop
<1>4. CASE EgressRecycle
  BY <1>4 DEF EgressRecycle, InEgressLoop
<1>5. CASE EgressNeedCache
  BY <1>5 DEF EgressNeedCache, InEgressLoop
<1>6. CASE EgressSpin
  BY <1>6 DEF EgressSpin, SwapOut, Ready, Other
<1>7. CASE EgressPullToRing
  BY <1>7 DEF EgressPullToRing
<1>8. CASE EgressPullToCache
  BY <1>8 DEF EgressPullToCache, SwapOut, Ready, Other
<1>9. CASE EgressPulled
  BY <1>9 DEF EgressPulled
<1>10. CASE EgressDone
  BY <1>10 DEF EgressDone, SwapOut, Ready, Other
<1>0. CASE IngressStart
  BY <1>0 DEF IngressStart, ingressRest
<1>11. CASE IngressInitFill
  BY <1>11 DEF IngressInitFill, PopRing, SwapOut, Ready, Other, ingressRest
<1>12. CASE IngressInitFull
  BY <1>12 DEF IngressInitFull, SwapOut, Ready, Other, ingressRest
<1>13. CASE IngressPopped
  BY <1>13 DEF IngressPopped, ingressRest
<1>14. CASE IngressUnderflow
  BY <1>14 DEF IngressUnderflow, SwapOut, Ready, Other, ingressRest
<1>15. CASE IngressFillWrite
  BY <1>15 DEF IngressFillWrite, SwapOut, Ready, Other, ingressRest
<1>16. CASE IngressFilled
  BY <1>16 DEF IngressFilled, ingressRest
<1>17. CASE IngressEvent
  BY <1>17 DEF IngressEvent, Deficit
<1>18. CASE IngressAlarm
  BY <1>18 DEF IngressAlarm, Deficit
<1>19. CASE IngressNullRecycle
  BY <1>19 DEF IngressNullRecycle
<1>20. CASE IngressCountEvent
  BY <1>20 DEF IngressCountEvent
<1>21. CASE IngressCounted
  BY <1>21 DEF IngressCounted, ingressRest
<1>22. CASE IngressFeed
  BY <1>22 DEF IngressFeed, ingressRest
<1>23. CASE IngressPush
  BY <1>23 DEF IngressPush, ingressRest
<1>24. CASE IngressCacheLow
  BY <1>24 DEF IngressCacheLow, ingressRest
<1>25. CASE IngressRefill
  BY <1>25 DEF IngressRefill, PopRing, SwapOut, Ready, Other, ingressRest
<1>26. CASE IngressRefilled
  BY <1>26 DEF IngressRefilled, ingressRest
<1>27. CASE IngressSpin
  BY <1>27 DEF IngressSpin, SwapOut, Ready, Other
<1>28. CASE IngressWait
  BY <1>28 DEF IngressWait, SwapOut, Ready, Other
<1>29. ASSUME NEW s \in Sides, AutoPush(s) PROVE CacheRoom'
  BY <1>29 DEF AutoPush
<1>30. ASSUME NEW n \in NbiBatch, DmaTake(n) PROVE CacheRoom'
  BY <1>30 DEF DmaTake
<1>31. ASSUME NEW n \in NbiBatch, TmFree(n) PROVE CacheRoom'
  BY <1>31 DEF TmFree
<1>32. ASSUME NEW n \in AppBatch, AppAlloc(n) PROVE CacheRoom'
  BY <1>32 DEF AppAlloc
<1>33. ASSUME NEW n \in AppBatch, AppFree(n) PROVE CacheRoom'
  BY <1>33 DEF AppFree
<1>34. ASSUME NEW n \in AppBatch, AppSend(n) PROVE CacheRoom'
  BY <1>34 DEF AppSend
<1>35. CASE UNCHANGED vars
  BY <1>35 DEF vars
<1> QED
  BY <1>0, <1>1, <1>2, <1>3, <1>4, <1>5, <1>6, <1>7, <1>8, <1>9, <1>10, <1>11, <1>12, <1>13,
     <1>14, <1>15, <1>16, <1>17, <1>18, <1>19, <1>20, <1>21, <1>22, <1>23, <1>24, <1>25,
     <1>26, <1>27, <1>28, <1>29, <1>30, <1>31, <1>32, <1>33, <1>34, <1>35
     DEF Next, EgressNext, EgressNormal, IngressNext, IngressNormal, NbiNext, AppNext

\* No step loses a buffer or hands one out twice.
LEMMA ConservedStep == TypeOK /\ RegistersHeld /\ BuffersConserved /\ [Next]_vars => BuffersConserved'
<1> SUFFICES ASSUME TypeOK, RegistersHeld, BuffersConserved, [Next]_vars PROVE BuffersConserved'
  OBVIOUS
<1> USE ThresholdAssumption, InputAssumption DEF TypeOK, RegistersHeld, BuffersConserved, Fill, descr, egress, ingress
<1>1. CASE EgressStart
  BY <1>1 DEF EgressStart, SwapOut, Ready, Other
<1>2. CASE EgressWake
  BY <1>2 DEF EgressWake, Deficit
<1>3. CASE EgressNullRecycle
  BY <1>3 DEF EgressNullRecycle, InEgressLoop
<1>4. CASE EgressRecycle
  BY <1>4 DEF EgressRecycle, InEgressLoop
<1>5. CASE EgressNeedCache
  BY <1>5 DEF EgressNeedCache, InEgressLoop
<1>6. CASE EgressSpin
  BY <1>6 DEF EgressSpin, SwapOut, Ready, Other
<1>7. CASE EgressPullToRing
  BY <1>7 DEF EgressPullToRing
<1>8. CASE EgressPullToCache
  BY <1>8 DEF EgressPullToCache, SwapOut, Ready, Other
<1>9. CASE EgressPulled
  BY <1>9 DEF EgressPulled
<1>10. CASE EgressDone
  BY <1>10 DEF EgressDone, SwapOut, Ready, Other
<1>0. CASE IngressStart
  BY <1>0 DEF IngressStart, ingressRest
<1>11. CASE IngressInitFill
  BY <1>11 DEF IngressInitFill, PopRing, SwapOut, Ready, Other, ingressRest
<1>12. CASE IngressInitFull
  BY <1>12 DEF IngressInitFull, SwapOut, Ready, Other, ingressRest
<1>13. CASE IngressPopped
  BY <1>13 DEF IngressPopped, ingressRest
<1>14. CASE IngressUnderflow
  BY <1>14 DEF IngressUnderflow, SwapOut, Ready, Other, ingressRest
<1>15. CASE IngressFillWrite
  BY <1>15 DEF IngressFillWrite, SwapOut, Ready, Other, ingressRest
<1>16. CASE IngressFilled
  BY <1>16 DEF IngressFilled, ingressRest
<1>17. CASE IngressEvent
  BY <1>17 DEF IngressEvent, Deficit
<1>18. CASE IngressAlarm
  BY <1>18 DEF IngressAlarm, Deficit
<1>19. CASE IngressNullRecycle
  BY <1>19 DEF IngressNullRecycle
<1>20. CASE IngressCountEvent
  BY <1>20 DEF IngressCountEvent
<1>21. CASE IngressCounted
  BY <1>21 DEF IngressCounted, ingressRest
<1>22. CASE IngressFeed
  BY <1>22 DEF IngressFeed, ingressRest
<1>23. CASE IngressPush
  BY <1>23 DEF IngressPush, ingressRest
<1>24. CASE IngressCacheLow
  BY <1>24 DEF IngressCacheLow, ingressRest
<1>25. CASE IngressRefill
  BY <1>25 DEF IngressRefill, PopRing, SwapOut, Ready, Other, ingressRest
<1>26. CASE IngressRefilled
  BY <1>26 DEF IngressRefilled, ingressRest
<1>27. CASE IngressSpin
  BY <1>27 DEF IngressSpin, SwapOut, Ready, Other
<1>28. CASE IngressWait
  BY <1>28 DEF IngressWait, SwapOut, Ready, Other
<1>29. ASSUME NEW s \in Sides, AutoPush(s) PROVE BuffersConserved'
  BY <1>29 DEF AutoPush
<1>30. ASSUME NEW n \in NbiBatch, DmaTake(n) PROVE BuffersConserved'
  BY <1>30 DEF DmaTake
<1>31. ASSUME NEW n \in NbiBatch, TmFree(n) PROVE BuffersConserved'
  BY <1>31 DEF TmFree
<1>32. ASSUME NEW n \in AppBatch, AppAlloc(n) PROVE BuffersConserved'
  BY <1>32 DEF AppAlloc
<1>33. ASSUME NEW n \in AppBatch, AppFree(n) PROVE BuffersConserved'
  BY <1>33 DEF AppFree
<1>34. ASSUME NEW n \in AppBatch, AppSend(n) PROVE BuffersConserved'
  BY <1>34 DEF AppSend
<1>35. CASE UNCHANGED vars
  BY <1>35 DEF vars
<1> QED
  BY <1>0, <1>1, <1>2, <1>3, <1>4, <1>5, <1>6, <1>7, <1>8, <1>9, <1>10, <1>11, <1>12, <1>13,
     <1>14, <1>15, <1>16, <1>17, <1>18, <1>19, <1>20, <1>21, <1>22, <1>23, <1>24, <1>25,
     <1>26, <1>27, <1>28, <1>29, <1>30, <1>31, <1>32, <1>33, <1>34, <1>35
     DEF Next, EgressNext, EgressNormal, IngressNext, IngressNormal, NbiNext, AppNext

(***************************************************************************)
(* The books of one side: what the steps of the event bus do to them.      *)
(***************************************************************************)

\* The books of a side whose counts and buffers do not move stay in order.
LEMMA SideKeptOK ==
  ASSUME NEW s \in Sides, NEW cur, SideOK(s, cur), SideKept(s)
  PROVE  /\ IsCount(ev'[s].count) /\ IsCount(ev'[s].data)
         /\ ev'[s].part = ev[s].part /\ ev'[s].part \in 0 .. Threshold - 1
         /\ Deficit(ev'[s].count, cur) = Unread(s, cur)
         /\ Unread(s, cur) = Deficit(ev'[s].data, cur) + Deficit(ev'[s].count, ev'[s].data)
  BY DEF SideOK, SideKept, Unread, InOrder

\* The push of an event makes the last count the one pushed.
LEMMA SidePushOK ==
  ASSUME EvType, NEW s \in Sides, NEW cur, SideOK(s, cur), AutoPush(s)
  PROVE  /\ IsCount(ev'[s].count) /\ IsCount(ev'[s].data)
         /\ ev'[s].part = ev[s].part /\ ev'[s].part \in 0 .. Threshold - 1
         /\ Deficit(ev'[s].count, cur) = Unread(s, cur)
         /\ Unread(s, cur) = Deficit(ev'[s].data, cur) + Deficit(ev'[s].count, ev'[s].data)
<1>1. IsCount(ev[s].count) /\ ev[s].part \in 0 .. Threshold - 1 /\ IsCount(cur)
  BY DEF SideOK
<1>2. ev'[s].part = ev[s].part /\ ev'[s].count = ev[s].count /\ ev'[s].data = ev[s].count
  BY PushFacts
<1>3. Deficit(ev[s].count, ev[s].count) = 0
  BY <1>1, DeficitCases, Sizes DEF IsCount
<1>4. Deficit(ev[s].count, cur) \in Int
  BY <1>1, CountRange
<1> QED
  BY <1>1, <1>2, <1>3, <1>4 DEF Unread

\* The NBI moves n buffers: the event bus owes n more, if the count does
\* not run into the count last read.
LEMMA SideCountOK ==
  ASSUME EvType, NEW s \in Sides, NEW cur, SideOK(s, cur), NEW n \in 1 .. Threshold,
         Count(s, n), Unseen(s, cur) + n < CountMod
  PROVE  /\ IsCount(ev'[s].count) /\ IsCount(ev'[s].data)
         /\ ev'[s].part \in 0 .. Threshold - 1
         /\ Deficit(ev'[s].count, cur) + ev'[s].part = Unseen(s, cur) + n
         /\ Deficit(ev'[s].count, cur)
              = Deficit(ev'[s].data, cur) + Deficit(ev'[s].count, ev'[s].data)
<1>1. /\ IsCount(cur) /\ IsCount(ev[s].count) /\ IsCount(ev[s].data)
      /\ ev[s].part \in 0 .. Threshold - 1 /\ n \in Nat /\ Threshold \in Nat
      /\ Unread(s, cur) = Deficit(ev[s].count, cur)
      /\ Unread(s, cur) = Deficit(ev[s].data, cur) + Deficit(ev[s].count, ev[s].data)
      /\ Unseen(s, cur) = Unread(s, cur) + ev[s].part
  BY Sizes DEF SideOK, Unread, Unseen, InOrder
<1>2. ev'[s].data = ev[s].data
  BY <1>1, CountFacts
<1>3. Unread(s, cur) \in Int /\ Deficit(ev[s].data, cur) \in Int
      /\ Deficit(ev[s].count, ev[s].data) \in Int
  BY <1>1, CountRange
<1>4. CASE ev[s].part + n < Threshold
  <2>1. ev'[s].part = ev[s].part + n /\ ev'[s].count = ev[s].count
    BY <1>1, <1>4, CountFacts
  <2>2. ev'[s].part \in 0 .. Threshold - 1
    BY <1>1, <1>4, <2>1
  <2>3. Deficit(ev'[s].count, cur) = Unread(s, cur) /\ IsCount(ev'[s].count)
        /\ Deficit(ev'[s].count, cur)
             = Deficit(ev'[s].data, cur) + Deficit(ev'[s].count, ev'[s].data)
    BY <1>1, <1>2, <2>1
  <2> QED
    BY <1>1, <1>2, <1>3, <2>1, <2>2, <2>3
<1>5. CASE ~(ev[s].part + n < Threshold)
  <2>1. /\ ev'[s].part = ev[s].part + n - Threshold
        /\ ev'[s].count = (ev[s].count + Threshold) % CountMod
    BY <1>1, <1>5, CountFacts
  <2>2. ev'[s].part \in 0 .. Threshold - 1
    BY <1>1, <1>5, <2>1
  <2>3. Deficit(ev[s].count, cur) + Threshold < CountMod
    BY <1>1, <1>3, <1>5, Sizes
  <2>a. Deficit(ev[s].count, cur) = Deficit(ev[s].data, cur) + Deficit(ev[s].count, ev[s].data)
    BY <1>1
  <2>4. /\ IsCount(ev'[s].count)
        /\ Deficit(ev'[s].count, cur) = Deficit(ev[s].count, cur) + Threshold
        /\ Deficit(ev'[s].count, ev[s].data) = Deficit(ev[s].count, ev[s].data) + Threshold
    BY <1>1, <2>1, <2>3, <2>a, NextCount
  <2> QED
    BY <1>1, <1>2, <1>3, <2>1, <2>2, <2>4
<1> QED
  BY <1>4, <1>5

\* A context reads the count last pushed.
LEMMA SideReadOK ==
  ASSUME NEW s \in Sides, NEW cur, SideOK(s, cur)
  PROVE  /\ IsCount(ev[s].data)
         /\ Deficit(ev[s].data, cur) >= 0 /\ Whole(Deficit(ev[s].data, cur))
         /\ Unseen(s, cur) = Deficit(ev[s].data, cur) + Unseen(s, ev[s].data)
         /\ SideOK(s, ev[s].data)
<1>1. IsCount(cur) /\ IsCount(ev[s].data) /\ IsCount(ev[s].count)
  BY DEF SideOK
<1>2. Deficit(ev[s].data, ev[s].data) = 0
  BY <1>1, DeficitCases, Sizes DEF IsCount
<1>3. Deficit(ev[s].data, cur) \in 0 .. CountMod - 1 /\ Deficit(ev[s].count, ev[s].data) \in Int
  BY <1>1, CountRange
<1>4. Unread(s, cur) = Deficit(ev[s].data, cur) + Unread(s, ev[s].data)
      /\ Unread(s, ev[s].data) \in Int /\ ev[s].part \in Int
  BY <1>3, Sizes DEF SideOK, InOrder, Unread
<1>5. Unseen(s, cur) = Deficit(ev[s].data, cur) + Unseen(s, ev[s].data)
  BY <1>3, <1>4 DEF Unseen
<1> QED
  BY <1>1, <1>2, <1>3, <1>5, DeficitWhole, Sizes DEF SideOK, InOrder, Unread

\* The quantities of the books are integers.
LEMMA SideInt ==
  ASSUME NEW s \in Sides, NEW cur, SideOK(s, cur)
  PROVE  /\ cur \in Int /\ Unread(s, cur) \in Nat /\ Unseen(s, cur) \in Nat
         /\ ev[s].part \in Nat /\ ev[s].part < Threshold
<1>1. /\ cur \in Int /\ Deficit(ev[s].count, cur) \in Nat
      /\ ev[s].part \in Nat /\ ev[s].part < Threshold
  BY CountRange, Sizes DEF SideOK
<1> QED
  BY <1>1 DEF Unread, Unseen

(***************************************************************************)
(* The TM side of the books.                                               *)
(***************************************************************************)
\* The ingress context leaves the TM side alone.
LEMMA IngressFrame == EvType /\ IngressNext => UNCHANGED <<egress, tm>> /\ SideKept("tm")
<1> SUFFICES ASSUME EvType, IngressNext PROVE UNCHANGED <<egress, tm>> /\ SideKept("tm")
  OBVIOUS
<1> USE DEF egress, Sides, SideKept
<1>0. CASE IngressStart
  BY <1>0 DEF IngressStart, ingressRest
<1>1. CASE IngressInitFill
  BY <1>1 DEF IngressInitFill, ingressRest, PopRing
<1>2. CASE IngressInitFull
  BY <1>2, EngagedFacts, ConsumedFacts DEF IngressInitFull, ingressRest
<1>3. CASE IngressPopped
  BY <1>3 DEF IngressPopped, ingressRest
<1>4. CASE IngressUnderflow
  BY <1>4, EngagedFacts, ConsumedFacts DEF IngressUnderflow, ingressRest
<1>5. CASE IngressFillWrite
  BY <1>5 DEF IngressFillWrite, ingressRest
<1>6. CASE IngressFilled
  BY <1>6 DEF IngressFilled, ingressRest
<1>7. CASE IngressEvent
  BY <1>7, EngagedFacts, ConsumedFacts DEF IngressEvent
<1>8. CASE IngressAlarm
  BY <1>8 DEF IngressAlarm
<1>9. CASE IngressNullRecycle
  BY <1>9 DEF IngressNullRecycle
<1>10. CASE IngressCountEvent
  BY <1>10 DEF IngressCountEvent
<1>11. CASE IngressCounted
  BY <1>11 DEF IngressCounted, ingressRest
<1>12. CASE IngressFeed
  BY <1>12 DEF IngressFeed, ingressRest
<1>13. CASE IngressPush
  BY <1>13 DEF IngressPush, ingressRest
<1>14. CASE IngressCacheLow
  BY <1>14 DEF IngressCacheLow, ingressRest
<1>15. CASE IngressRefill
  BY <1>15 DEF IngressRefill, ingressRest, PopRing
<1>16. CASE IngressRefilled
  BY <1>16 DEF IngressRefilled, ingressRest
<1>17. CASE IngressSpin
  BY <1>17 DEF IngressSpin
<1>18. CASE IngressWait
  BY <1>18, EngagedFacts, ConsumedFacts DEF IngressWait
<1> QED
  BY <1>0, <1>1, <1>2, <1>3, <1>4, <1>5, <1>6, <1>7, <1>8, <1>9, <1>10, <1>11, <1>12, <1>13,
     <1>14, <1>15, <1>16, <1>17, <1>18
     DEF IngressNext, IngressNormal

\* A step that leaves the TM side alone keeps its books.
LEMMA TmFrame ==
  ASSUME TmInv, UNCHANGED <<epc, ecur, eprev, edef, tm>>, SideKept("tm")
  PROVE  TmInv'
<1>1. "tm" \in Sides /\ SideOK("tm", ecur)
  BY DEF Sides, TmInv
<1>2. SideOK("tm", ecur)' /\ Unseen("tm", ecur)' = Unseen("tm", ecur)
  BY <1>1, SideKeptOK DEF SideOK, Unread, Unseen, InOrder
<1> QED
  BY <1>2 DEF TmInv, EgressDeficit, TmLedger

\* Every step keeps the books of the TM side: what the event reports is what
\* the egress context pops, whichever way the buffers go.
LEMMA TmStep == TypeOK /\ TmInv /\ [Next]_vars => TmInv'
<1> SUFFICES ASSUME TypeOK, TmInv, [Next]_vars PROVE TmInv'
  OBVIOUS
<1>a. EvType /\ "tm" \in Sides /\ "dma" \in Sides /\ SideOK("tm", ecur)
  BY DEF TypeOK, EvType, Sides, TmInv
<1>b. /\ Unseen("tm", ecur) \in Nat
      /\ ecur \in Int /\ edef \in Int /\ tm \in Int /\ Threshold \in Nat /\ TmBacklog \in Nat
  BY <1>a, SideInt, Sizes, CountAssumption DEF TypeOK
<1>c. ASSUME SideKept("tm"), ecur' = ecur
      PROVE  SideOK("tm", ecur)' /\ Unseen("tm", ecur)' = Unseen("tm", ecur)
  BY <1>a, <1>c, SideKeptOK DEF SideOK, Unread, Unseen, InOrder
<1>d. ev' = ev => SideKept("tm")
  BY DEF SideKept
<1>e. Whole(edef) /\ edef >= Threshold /\ edef <= TmBacklog =>
        /\ Whole(edef - Threshold) /\ edef - Threshold \in Int
        /\ edef - Threshold >= 0 /\ edef - Threshold <= TmBacklog
  BY <1>b, WholeSum, WholeConstants
<1>1. CASE EgressStart
  <2>1. SideKept("tm")
    BY <1>1, <1>a, EngagedFacts DEF EgressStart
  <2> QED
    BY <1>1, <1>c, <2>1 DEF EgressStart, TmInv, EgressDeficit, TmLedger
<1>2. CASE EgressWake
  <2> DEFINE data == ev["tm"].data
  <2>1. /\ SideKept("tm") /\ ecur' = data /\ eprev' = eprev /\ epc' = "loop" /\ tm' = tm
        /\ edef' = Deficit(data, ecur)
    BY <1>2, <1>a, ConsumedFacts DEF EgressWake, TmInv, EgressDeficit
  <2>2. /\ IsCount(data) /\ SideOK("tm", data)
        /\ Deficit(data, ecur) >= 0 /\ Whole(Deficit(data, ecur))
        /\ Unseen("tm", ecur) = Deficit(data, ecur) + Unseen("tm", data)
    BY <1>a, SideReadOK
  <2>3. SideOK("tm", ecur)' /\ Unseen("tm", ecur)' = Unseen("tm", data)
    BY <1>a, <2>1, <2>2, SideKeptOK DEF SideOK, Unread, Unseen, InOrder
  <2>4. Unseen("tm", data) \in Nat /\ Deficit(data, ecur) \in Int
    BY <1>a, <2>2, SideInt, CountRange DEF SideOK
  <2>5. edef = 0 /\ tm = Unseen("tm", ecur) /\ tm <= TmBacklog
    BY <1>2, <1>b DEF EgressWake, TmInv, EgressDeficit, TmLedger
  <2>6. Deficit(data, ecur) <= TmBacklog
    BY <1>b, <2>2, <2>4, <2>5
  <2>7. EgressDeficit'
    BY <2>1, <2>2, <2>6 DEF EgressDeficit
  <2>8. TmLedger' /\ tm' <= TmBacklog
    BY <1>b, <2>1, <2>2, <2>3, <2>4, <2>5 DEF TmLedger
  <2> QED
    BY <2>3, <2>7, <2>8 DEF TmInv
<1>3. CASE EgressNullRecycle
  <2>1. SideKept("tm") /\ ecur' = ecur
    BY <1>3, <1>d DEF EgressNullRecycle
  <2> QED
    BY <1>3, <1>b, <1>c, <1>e, <2>1
       DEF EgressNullRecycle, InEgressLoop, TmInv, EgressDeficit, TmLedger
<1>4. CASE EgressRecycle
  <2>1. SideKept("tm") /\ ecur' = ecur
    BY <1>4, <1>d DEF EgressRecycle
  <2> QED
    BY <1>4, <1>b, <1>c, <1>e, <2>1
       DEF EgressRecycle, InEgressLoop, TmInv, EgressDeficit, TmLedger
<1>5. CASE EgressNeedCache
  <2>1. SideKept("tm") /\ ecur' = ecur
    BY <1>5, <1>d DEF EgressNeedCache
  <2> QED
    BY <1>5, <1>b, <1>c, <1>e, <2>1
       DEF EgressNeedCache, InEgressLoop, TmInv, EgressDeficit, TmLedger
<1>6. CASE EgressSpin
  <2>1. SideKept("tm") /\ ecur' = ecur
    BY <1>6, <1>d DEF EgressSpin, egress
  <2> QED
    BY <1>6, <1>b, <1>c, <1>e, <2>1 DEF EgressSpin, egress, TmInv, EgressDeficit, TmLedger
<1>7. CASE EgressPullToRing
  <2>1. SideKept("tm") /\ ecur' = ecur
    BY <1>7, <1>d DEF EgressPullToRing
  <2> QED
    BY <1>7, <1>b, <1>c, <1>e, <2>1 DEF EgressPullToRing, TmInv, EgressDeficit, TmLedger
<1>8. CASE EgressPullToCache
  <2>1. SideKept("tm") /\ ecur' = ecur
    BY <1>8, <1>d DEF EgressPullToCache
  <2> QED
    BY <1>8, <1>b, <1>c, <1>e, <2>1 DEF EgressPullToCache, TmInv, EgressDeficit, TmLedger
<1>9. CASE EgressPulled
  <2>1. /\ SideKept("tm") /\ ecur' = ecur /\ tm' = tm /\ epc = "pull" /\ epc' = "loop"
        /\ edef' = edef - Threshold
    BY <1>9, <1>d DEF EgressPulled
  <2>2. EgressDeficit'
    BY <1>e, <2>1 DEF TmInv, EgressDeficit
  <2>3. SideOK("tm", ecur)' /\ Unseen("tm", ecur)' = Unseen("tm", ecur)
    BY <1>c, <2>1
  <2>4. tm + Threshold = edef + Unseen("tm", ecur)
    BY <2>1 DEF TmInv, TmLedger
  <2>5. tm = (edef - Threshold) + Unseen("tm", ecur)
    BY <1>b, <2>4
  <2>6. TmLedger'
    BY <1>b, <2>1, <2>3, <2>5 DEF TmLedger
  <2> QED
    BY <2>1, <2>2, <2>3, <2>6 DEF TmInv
<1>10. CASE EgressDone
  <2>1. SideKept("tm") /\ ecur' = ecur
    BY <1>10, <1>a, EngagedFacts DEF EgressDone
  <2>2. edef = 0
    BY <1>10, <1>b, WholeSmall DEF EgressDone, TmInv, EgressDeficit
  <2> QED
    BY <1>10, <1>b, <1>c, <2>1, <2>2 DEF EgressDone, TmInv, EgressDeficit, TmLedger
<1>11. CASE IngressNext
  BY <1>11, <1>a, IngressFrame, TmFrame DEF egress
<1>12. ASSUME NEW s \in Sides, AutoPush(s) PROVE TmInv'
  <2>1. CASE s = "tm"
    <3>1. UNCHANGED <<egress, tm>> /\ IsCount(ecur)
      BY <1>12, <1>a DEF AutoPush, SideOK
    <3>2. SideOK("tm", ecur)' /\ Unread("tm", ecur)' = Unread("tm", ecur)
      BY <1>12, <1>a, <2>1, <3>1, SidePushOK DEF SideOK, Unread, InOrder, egress
    <3>3. ev'["tm"].part = ev["tm"].part
      BY <1>12, <1>a, <2>1, PushFacts
    <3>4. Unseen("tm", ecur)' = Unseen("tm", ecur)
      BY <3>2, <3>3 DEF Unseen
    <3> QED
      BY <3>1, <3>2, <3>4 DEF TmInv, EgressDeficit, TmLedger, egress
  <2>2. CASE s = "dma"
    BY <1>12, <1>a, <2>2, PushFacts, TmFrame DEF AutoPush, egress
  <2> QED
    BY <2>1, <2>2 DEF Sides
<1>13. ASSUME NEW n \in NbiBatch, DmaTake(n) PROVE TmInv'
  <2>1. n \in Nat /\ SideKept("tm")
    BY <1>13, <1>a, CountFacts, InputAssumption DEF DmaTake
  <2> QED
    BY <1>13, <2>1, TmFrame DEF DmaTake, egress
<1>14. ASSUME NEW n \in NbiBatch, TmFree(n) PROVE TmInv'
  <2>1. n \in 1 .. Threshold /\ tm' = tm + n /\ tm' <= TmBacklog /\ UNCHANGED egress
        /\ Count("tm", n)
    BY <1>14, InputAssumption DEF TmFree
  <2>2. Unseen("tm", ecur) + n < CountMod
    BY <1>b, <2>1, CountAssumption DEF TmInv, TmLedger, EgressDeficit
  <2>3. /\ SideOK("tm", ecur)'
        /\ Unseen("tm", ecur)' = Unseen("tm", ecur) + n
    BY <1>a, <2>1, <2>2, SideCountOK DEF SideOK, Unread, Unseen, InOrder, egress
  <2>4. Unseen("tm", ecur)' \in Int
    BY <1>b, <2>1, <2>3
  <2>5. n \in Int
    BY <2>1
  <2>6. TmLedger'
    BY <1>b, <2>1, <2>3, <2>4, <2>5 DEF TmInv, TmLedger, egress
  <2>7. EgressDeficit'
    BY <2>1 DEF TmInv, EgressDeficit, egress
  <2> QED
    BY <2>1, <2>3, <2>6, <2>7 DEF TmInv
<1>15. ASSUME NEW n \in AppBatch, AppAlloc(n) \/ AppFree(n) \/ AppSend(n) PROVE TmInv'
  BY <1>15, <1>d, TmFrame DEF AppAlloc, AppFree, AppSend, egress
<1>16. CASE UNCHANGED vars
  BY <1>16, <1>d, TmFrame DEF vars, egress
<1> QED
  BY <1>1, <1>2, <1>3, <1>4, <1>5, <1>6, <1>7, <1>8, <1>9, <1>10, <1>11, <1>12, <1>13,
     <1>14, <1>15, <1>16
     DEF Next, EgressNext, EgressNormal, NbiNext, AppNext

(***************************************************************************)
(* The inductive invariant, and what follows from it.                      *)
(***************************************************************************)

\* Nothing has been counted in the first state.
LEMMA SideInit == Init => \A s \in Sides : SideOK(s, 0) /\ Unseen(s, 0) = 0
<1> SUFFICES ASSUME Init, NEW s \in Sides PROVE SideOK(s, 0) /\ Unseen(s, 0) = 0
  OBVIOUS
<1>1. ev[s].part = 0 /\ ev[s].count = 0 /\ ev[s].data = 0
  BY DEF Init
<1>2. IsCount(0) /\ Deficit(0, 0) = 0 /\ 0 \in 0 .. Threshold - 1
  BY DeficitCases, WholeConstants, Sizes DEF IsCount
<1> QED
  BY <1>1, <1>2 DEF SideOK, InOrder, Unread, Unseen

\* The inductive invariant holds in the first state.
LEMMA IInvInit == Init => IInv
<1> SUFFICES ASSUME Init PROVE IInv
  OBVIOUS
<1>1. TypeOK /\ "tm" \in Sides
  BY TypeInit DEF Sides
<1>2. LockHeld /\ RegistersHeld
  BY DEF Init, LockHeld, RegistersHeld, Fill
<1>3. CacheRoom
  BY CacheAssumption, ThresholdAssumption DEF Init, CacheRoom, Fill
<1>4. BuffersConserved
  BY CountAssumption, RingAssumption DEF Init, BuffersConserved, TotalBuffers
<1>5. SideOK("tm", ecur) /\ Unseen("tm", ecur) = 0
  BY <1>1, SideInit DEF Init
<1>6. EgressDeficit /\ TmLedger /\ tm <= TmBacklog
  BY <1>5, WholeConstants, CountAssumption DEF Init, EgressDeficit, TmLedger
<1> QED
  BY <1>1, <1>2, <1>3, <1>4, <1>5, <1>6 DEF IInv, TmInv

\* Every step keeps the inductive invariant.
LEMMA IInvStep == IInv /\ [Next]_vars => IInv'
  BY TypeStep, LockStep, RegistersStep, CacheStep, TmStep, ConservedStep DEF IInv

\* The inductive invariant always holds.
LEMMA IInvCorrect == Spec => []IInv
  BY IInvInit, IInvStep, PTL DEF Spec

\* The cache never holds more than its memory.
THEOREM CacheSafe == Spec => []CacheNeverOverflows
<1>1. IInv => CacheNeverOverflows
  BY CacheAssumption DEF IInv, CacheRoom, RegistersHeld, CacheNeverOverflows, TypeOK, Fill
<1> QED
  BY <1>1, IInvCorrect, PTL

\* Every buffer is in exactly one place.
THEOREM Conservation == Spec => []BuffersConserved
<1>1. IInv => BuffersConserved
  BY DEF IInv
<1> QED
  BY <1>1, IInvCorrect, PTL

\* The egress context recycles exactly what the TM has freed.
THEOREM TmBooks == Spec => []TmLedger
<1>1. IInv => TmLedger
  BY DEF IInv, TmInv
<1> QED
  BY <1>1, IInvCorrect, PTL

\* While one context waits for its write, the other does not move the top.
LockedStep ==
  (epc = "pull" /\ epc' = "pull") \/ (ipc = "write" /\ ipc' = "write")
    => cacheCnt' = cacheCnt

\* What the lock protects, as a fact about one step.
LEMMA LockedStepHolds == TypeOK /\ LockHeld /\ [Next]_vars => LockedStep
<1> SUFFICES ASSUME TypeOK, LockHeld, [Next]_vars PROVE LockedStep
  OBVIOUS
<1> USE DEF TypeOK, LockHeld, LockedStep, descr, egress, ingress
<1>1. CASE EgressStart
  BY <1>1 DEF EgressStart, SwapOut, Ready, Other
<1>2. CASE EgressWake
  BY <1>2 DEF EgressWake, Deficit
<1>3. CASE EgressNullRecycle
  BY <1>3 DEF EgressNullRecycle, InEgressLoop
<1>4. CASE EgressRecycle
  BY <1>4 DEF EgressRecycle, InEgressLoop
<1>5. CASE EgressNeedCache
  BY <1>5 DEF EgressNeedCache, InEgressLoop
<1>6. CASE EgressSpin
  BY <1>6 DEF EgressSpin, SwapOut, Ready, Other
<1>7. CASE EgressPullToRing
  BY <1>7 DEF EgressPullToRing
<1>8. CASE EgressPullToCache
  BY <1>8 DEF EgressPullToCache, SwapOut, Ready, Other
<1>9. CASE EgressPulled
  BY <1>9 DEF EgressPulled
<1>10. CASE EgressDone
  BY <1>10 DEF EgressDone, SwapOut, Ready, Other
<1>0. CASE IngressStart
  BY <1>0 DEF IngressStart, ingressRest
<1>11. CASE IngressInitFill
  BY <1>11 DEF IngressInitFill, PopRing, SwapOut, Ready, Other, ingressRest
<1>12. CASE IngressInitFull
  BY <1>12 DEF IngressInitFull, SwapOut, Ready, Other, ingressRest
<1>13. CASE IngressPopped
  BY <1>13 DEF IngressPopped, ingressRest
<1>14. CASE IngressUnderflow
  BY <1>14 DEF IngressUnderflow, SwapOut, Ready, Other, ingressRest
<1>15. CASE IngressFillWrite
  BY <1>15 DEF IngressFillWrite, SwapOut, Ready, Other, ingressRest
<1>16. CASE IngressFilled
  BY <1>16 DEF IngressFilled, ingressRest
<1>17. CASE IngressEvent
  BY <1>17 DEF IngressEvent, Deficit
<1>18. CASE IngressAlarm
  BY <1>18 DEF IngressAlarm, Deficit
<1>19. CASE IngressNullRecycle
  BY <1>19 DEF IngressNullRecycle
<1>20. CASE IngressCountEvent
  BY <1>20 DEF IngressCountEvent
<1>21. CASE IngressCounted
  BY <1>21 DEF IngressCounted, ingressRest
<1>22. CASE IngressFeed
  BY <1>22 DEF IngressFeed, ingressRest
<1>23. CASE IngressPush
  BY <1>23 DEF IngressPush, ingressRest
<1>24. CASE IngressCacheLow
  BY <1>24 DEF IngressCacheLow, ingressRest
<1>25. CASE IngressRefill
  BY <1>25 DEF IngressRefill, PopRing, SwapOut, Ready, Other, ingressRest
<1>26. CASE IngressRefilled
  BY <1>26 DEF IngressRefilled, ingressRest
<1>27. CASE IngressSpin
  BY <1>27 DEF IngressSpin, SwapOut, Ready, Other
<1>28. CASE IngressWait
  BY <1>28 DEF IngressWait, SwapOut, Ready, Other
<1>29. ASSUME NEW s \in Sides, AutoPush(s) PROVE LockedStep
  BY <1>29 DEF AutoPush
<1>30. ASSUME NEW n \in NbiBatch, DmaTake(n) PROVE LockedStep
  BY <1>30 DEF DmaTake
<1>31. ASSUME NEW n \in NbiBatch, TmFree(n) PROVE LockedStep
  BY <1>31 DEF TmFree
<1>32. ASSUME NEW n \in AppBatch, AppAlloc(n) PROVE LockedStep
  BY <1>32 DEF AppAlloc
<1>33. ASSUME NEW n \in AppBatch, AppFree(n) PROVE LockedStep
  BY <1>33 DEF AppFree
<1>34. ASSUME NEW n \in AppBatch, AppSend(n) PROVE LockedStep
  BY <1>34 DEF AppSend
<1>35. CASE UNCHANGED vars
  BY <1>35 DEF vars
<1> QED
  BY <1>0, <1>1, <1>2, <1>3, <1>4, <1>5, <1>6, <1>7, <1>8, <1>9, <1>10, <1>11, <1>12, <1>13,
     <1>14, <1>15, <1>16, <1>17, <1>18, <1>19, <1>20, <1>21, <1>22, <1>23, <1>24, <1>25,
     <1>26, <1>27, <1>28, <1>29, <1>30, <1>31, <1>32, <1>33, <1>34, <1>35
     DEF Next, EgressNext, EgressNormal, IngressNext, IngressNormal, NbiNext, AppNext

\* While a context waits for its write at the top of the cache, no step of the
\* other moves the top.
THEOREM CacheLocked == Spec => LockedCacheStable
<1>1. IInv /\ [Next]_vars => [LockedStep]_vars
  BY LockedStepHolds DEF IInv
<1>2. Spec => [][LockedStep]_vars
  BY <1>1, IInvCorrect, PTL DEF Spec
<1> QED
  BY <1>2 DEF LockedCacheStable, LockedStep

(***************************************************************************)
(* The EMU ring has room for what comes back to it, as long as no null     *)
(* buffers are handed out: what is in the ring, held or with applications  *)
(* is at most all there is but the high water mark when buffers are pulled *)
(* to the ring, and does not grow otherwise.                               *)
(***************************************************************************)

\* The TM never owes buffers.
LEMMA TmNonNegative == IInv => tm >= 0
<1> SUFFICES ASSUME IInv PROVE tm >= 0
  OBVIOUS
<1>1. SideOK("tm", ecur) /\ "tm" \in Sides /\ EgressDeficit /\ TmLedger
  BY DEF IInv, TmInv, Sides
<1>2. Unseen("tm", ecur) \in Nat /\ edef \in Int /\ tm \in Int /\ Threshold \in Nat
  BY <1>1, SideInt, Sizes DEF IInv, TypeOK
<1>3. CASE epc = "pull"
  BY <1>1, <1>2, <1>3 DEF EgressDeficit, TmLedger
<1>4. CASE epc # "pull"
  BY <1>1, <1>2, <1>4 DEF EgressDeficit, TmLedger
<1> QED
  BY <1>3, <1>4

\* Without null recycling no null buffer comes up.
LEMMA NoNullsStep == NullRecycle = {} /\ nulled = 0 /\ [Next]_vars => nulled' = 0
<1> SUFFICES ASSUME NullRecycle = {}, nulled = 0, [Next]_vars PROVE nulled' = 0
  OBVIOUS
<1> USE DEF descr, egress, ingress
<1>1. CASE EgressStart
  BY <1>1 DEF EgressStart, SwapOut, Ready, Other
<1>2. CASE EgressWake
  BY <1>2 DEF EgressWake, Deficit
<1>3. CASE EgressNullRecycle
  BY <1>3 DEF EgressNullRecycle, InEgressLoop
<1>4. CASE EgressRecycle
  BY <1>4 DEF EgressRecycle, InEgressLoop
<1>5. CASE EgressNeedCache
  BY <1>5 DEF EgressNeedCache, InEgressLoop
<1>6. CASE EgressSpin
  BY <1>6 DEF EgressSpin, SwapOut, Ready, Other
<1>7. CASE EgressPullToRing
  BY <1>7 DEF EgressPullToRing
<1>8. CASE EgressPullToCache
  BY <1>8 DEF EgressPullToCache, SwapOut, Ready, Other
<1>9. CASE EgressPulled
  BY <1>9 DEF EgressPulled
<1>10. CASE EgressDone
  BY <1>10 DEF EgressDone, SwapOut, Ready, Other
<1>0. CASE IngressStart
  BY <1>0 DEF IngressStart, ingressRest
<1>11. CASE IngressInitFill
  BY <1>11 DEF IngressInitFill, PopRing, SwapOut, Ready, Other, ingressRest
<1>12. CASE IngressInitFull
  BY <1>12 DEF IngressInitFull, SwapOut, Ready, Other, ingressRest
<1>13. CASE IngressPopped
  BY <1>13 DEF IngressPopped, ingressRest
<1>14. CASE IngressUnderflow
  BY <1>14 DEF IngressUnderflow, SwapOut, Ready, Other, ingressRest
<1>15. CASE IngressFillWrite
  BY <1>15 DEF IngressFillWrite, SwapOut, Ready, Other, ingressRest
<1>16. CASE IngressFilled
  BY <1>16 DEF IngressFilled, ingressRest
<1>17. CASE IngressEvent
  BY <1>17 DEF IngressEvent, Deficit
<1>18. CASE IngressAlarm
  BY <1>18 DEF IngressAlarm, Deficit
<1>19. CASE IngressNullRecycle
  BY <1>19 DEF IngressNullRecycle
<1>20. CASE IngressCountEvent
  BY <1>20 DEF IngressCountEvent
<1>21. CASE IngressCounted
  BY <1>21 DEF IngressCounted, ingressRest
<1>22. CASE IngressFeed
  BY <1>22 DEF IngressFeed, ingressRest
<1>23. CASE IngressPush
  BY <1>23 DEF IngressPush, ingressRest
<1>24. CASE IngressCacheLow
  BY <1>24 DEF IngressCacheLow, ingressRest
<1>25. CASE IngressRefill
  BY <1>25 DEF IngressRefill, PopRing, SwapOut, Ready, Other, ingressRest
<1>26. CASE IngressRefilled
  BY <1>26 DEF IngressRefilled, ingressRest
<1>27. CASE IngressSpin
  BY <1>27 DEF IngressSpin, SwapOut, Ready, Other
<1>28. CASE IngressWait
  BY <1>28 DEF IngressWait, SwapOut, Ready, Other
<1>29. ASSUME NEW s \in Sides, AutoPush(s) PROVE nulled' = 0
  BY <1>29 DEF AutoPush
<1>30. ASSUME NEW n \in NbiBatch, DmaTake(n) PROVE nulled' = 0
  BY <1>30 DEF DmaTake
<1>31. ASSUME NEW n \in NbiBatch, TmFree(n) PROVE nulled' = 0
  BY <1>31 DEF TmFree
<1>32. ASSUME NEW n \in AppBatch, AppAlloc(n) PROVE nulled' = 0
  BY <1>32 DEF AppAlloc
<1>33. ASSUME NEW n \in AppBatch, AppFree(n) PROVE nulled' = 0
  BY <1>33 DEF AppFree
<1>34. ASSUME NEW n \in AppBatch, AppSend(n) PROVE nulled' = 0
  BY <1>34 DEF AppSend
<1>35. CASE UNCHANGED vars
  BY <1>35 DEF vars
<1> QED
  BY <1>0, <1>1, <1>2, <1>3, <1>4, <1>5, <1>6, <1>7, <1>8, <1>9, <1>10, <1>11, <1>12, <1>13,
     <1>14, <1>15, <1>16, <1>17, <1>18, <1>19, <1>20, <1>21, <1>22, <1>23, <1>24, <1>25,
     <1>26, <1>27, <1>28, <1>29, <1>30, <1>31, <1>32, <1>33, <1>34, <1>35
     DEF Next, EgressNext, EgressNormal, IngressNext, IngressNormal, NbiNext, AppNext

\* A cache filled to the high water mark leaves room in the ring for all the
\* other buffers.
LEMMA RingBound == IInv /\ nulled = 0 /\ cacheCnt >= HighWaterMark => RingNeverOverflows
<1> SUFFICES ASSUME IInv, nulled = 0, cacheCnt >= HighWaterMark PROVE RingNeverOverflows
  OBVIOUS
<1>1. /\ dma \in Nat /\ flight \in Nat /\ tm \in Nat /\ ring + app + held \in Int
      /\ cacheCnt \in Int
  BY TmNonNegative DEF IInv, TypeOK, Fill
<1>2. HighWaterMark \in Int /\ TotalBuffers \in Int /\ TotalBuffers - HighWaterMark <= RingCap
      /\ RingCap \in Int
  BY RingAssumption, CacheAssumption, CountAssumption DEF HighWaterMark, TotalBuffers
<1>3. (dma + flight + tm) + (ring + app + held) + (cacheCnt + nulled) = TotalBuffers
  BY DEF IInv, BuffersConserved
<1> DEFINE nbi == dma + flight + tm
           out == ring + app + held
           kept == cacheCnt + nulled
<1>4. nbi \in Nat /\ kept = cacheCnt /\ out \in Int
  BY <1>1
<1>5. nbi + out + kept = TotalBuffers
  BY <1>3
<1> HIDE DEF nbi, out, kept
<1>6. out <= RingCap
  BY <1>1, <1>2, <1>4, <1>5
<1> QED
  BY <1>6 DEF out, RingNeverOverflows

\* Every step keeps what may come back to the ring within its size.
LEMMA RingStep == IInv /\ NullRecycle = {} /\ nulled = 0 /\ RingNeverOverflows /\ [Next]_vars => RingNeverOverflows'
<1> SUFFICES ASSUME IInv, NullRecycle = {}, nulled = 0, RingNeverOverflows, [Next]_vars PROVE RingNeverOverflows'
  OBVIOUS
<1> USE DEF RingNeverOverflows, Fill, descr, egress, ingress
<1>a. /\ TypeOK /\ RegistersHeld /\ ring \in Int /\ app \in Int /\ held \in {0, 16}
      /\ ipc = "write" => held = 16
      /\ RingCap \in Int /\ ring + app + held <= RingCap
  BY RingAssumption DEF IInv, TypeOK, RegistersHeld
<1>1. CASE EgressStart
  BY <1>1, <1>a DEF EgressStart
<1>2. CASE EgressWake
  BY <1>2, <1>a DEF EgressWake
<1>3. CASE EgressNullRecycle
  BY <1>3, <1>a DEF EgressNullRecycle
<1>4. CASE EgressRecycle
  BY <1>4, <1>a DEF EgressRecycle
<1>5. CASE EgressNeedCache
  BY <1>5, <1>a DEF EgressNeedCache
<1>6. CASE EgressSpin
  BY <1>6, <1>a DEF EgressSpin
<1>7. CASE EgressPullToRing
  <2>1. nulled' = 0 /\ cacheCnt' >= HighWaterMark /\ HighWaterMark' = HighWaterMark
    BY <1>7, NoNullsStep DEF EgressPullToRing, descr, HighWaterMark
  <2>2. IInv'
    BY IInvStep
  <2>3. (IInv /\ nulled = 0 /\ cacheCnt >= HighWaterMark => RingNeverOverflows)'
    BY RingBound, PTL
  <2> QED
    BY <2>1, <2>2, <2>3, Zenon
<1>8. CASE EgressPullToCache
  BY <1>8, <1>a DEF EgressPullToCache
<1>9. CASE EgressPulled
  BY <1>9, <1>a DEF EgressPulled
<1>10. CASE EgressDone
  BY <1>10, <1>a DEF EgressDone
<1>0. CASE IngressStart
  BY <1>0, <1>a DEF IngressStart, ingressRest
<1>11. CASE IngressInitFill
  BY <1>11, <1>a DEF IngressInitFill, PopRing, ingressRest
<1>12. CASE IngressInitFull
  BY <1>12, <1>a DEF IngressInitFull, ingressRest
<1>13. CASE IngressPopped
  BY <1>13, <1>a DEF IngressPopped, ingressRest
<1>14. CASE IngressUnderflow
  BY <1>14, <1>a DEF IngressUnderflow, ingressRest
<1>15. CASE IngressFillWrite
  BY <1>15, <1>a DEF IngressFillWrite, ingressRest
<1>16. CASE IngressFilled
  BY <1>16, <1>a DEF IngressFilled, ingressRest
<1>17. CASE IngressEvent
  BY <1>17, <1>a DEF IngressEvent
<1>18. CASE IngressAlarm
  BY <1>18, <1>a DEF IngressAlarm
<1>19. CASE IngressNullRecycle
  BY <1>19, <1>a DEF IngressNullRecycle
<1>20. CASE IngressCountEvent
  BY <1>20, <1>a DEF IngressCountEvent
<1>21. CASE IngressCounted
  BY <1>21, <1>a DEF IngressCounted, ingressRest
<1>22. CASE IngressFeed
  BY <1>22, <1>a DEF IngressFeed, ingressRest
<1>23. CASE IngressPush
  BY <1>23, <1>a DEF IngressPush, ingressRest
<1>24. CASE IngressCacheLow
  BY <1>24, <1>a DEF IngressCacheLow, ingressRest
<1>25. CASE IngressRefill
  BY <1>25, <1>a DEF IngressRefill, PopRing, ingressRest
<1>26. CASE IngressRefilled
  BY <1>26, <1>a DEF IngressRefilled, ingressRest
<1>27. CASE IngressSpin
  BY <1>27, <1>a DEF IngressSpin
<1>28. CASE IngressWait
  BY <1>28, <1>a DEF IngressWait
<1>29. ASSUME NEW s \in Sides, AutoPush(s) PROVE RingNeverOverflows'
  BY <1>29, <1>a DEF AutoPush
<1>30. ASSUME NEW n \in NbiBatch, DmaTake(n) PROVE RingNeverOverflows'
  BY <1>30, <1>a DEF DmaTake
<1>31. ASSUME NEW n \in NbiBatch, TmFree(n) PROVE RingNeverOverflows'
  BY <1>31, <1>a DEF TmFree
<1>32. ASSUME NEW n \in AppBatch, AppAlloc(n) PROVE RingNeverOverflows'
  BY <1>32, <1>a, InputAssumption DEF AppAlloc, Fill
<1>33. ASSUME NEW n \in AppBatch, AppFree(n) PROVE RingNeverOverflows'
  BY <1>33, <1>a, InputAssumption DEF AppFree, Fill
<1>34. ASSUME NEW n \in AppBatch, AppSend(n) PROVE RingNeverOverflows'
  BY <1>34, <1>a, InputAssumption DEF AppSend, Fill
<1>35. CASE UNCHANGED vars
  BY <1>35, <1>a DEF vars
<1> QED
  BY <1>0, <1>1, <1>2, <1>3, <1>4, <1>5, <1>6, <1>7, <1>8, <1>9, <1>10, <1>11, <1>12, <1>13,
     <1>14, <1>15, <1>16, <1>17, <1>18, <1>19, <1>20, <1>21, <1>22, <1>23, <1>24, <1>25,
     <1>26, <1>27, <1>28, <1>29, <1>30, <1>31, <1>32, <1>33, <1>34, <1>35
     DEF Next, EgressNext, EgressNormal, IngressNext, IngressNormal, NbiNext, AppNext

\* Without null recycling the EMU ring has room for whatever comes back to it,
\* although nothing that puts a buffer there checks.
THEOREM RingSafe ==
  ASSUME NullRecycle = {}
  PROVE  Spec => []RingNeverOverflows
<1> DEFINE RInv == nulled = 0 /\ RingNeverOverflows
<1>1. Init => RInv
  BY RingAssumption DEF Init, RingNeverOverflows
<1>2. IInv /\ RInv /\ [Next]_vars => RInv'
  BY NoNullsStep, RingStep
<1> QED
  BY <1>1, <1>2, IInvCorrect, PTL DEF Spec

-----------------------------------------------------------------------------
(***************************************************************************)
(* The DMA side of the books, as long as the TM holds no more than         *)
(* MaxPending + 1 batches.                                                 *)
(***************************************************************************)

\* Multiplying by Threshold keeps the order of event counts.
LEMMA Batches ==
  \A p \in Int : /\ Threshold * p \in Int
                 /\ Threshold * (p + 1) = Threshold * p + Threshold
                 /\ Threshold * (p - 1) = Threshold * p - Threshold
                 /\ p >= 0 => Threshold * p >= 0
                 /\ Threshold * p > 0 => p > 0
                 /\ \A q \in Int : p >= q => Threshold * p >= Threshold * q
<1> SUFFICES ASSUME NEW p \in Int
    PROVE  /\ Threshold * p \in Int
           /\ Threshold * (p + 1) = Threshold * p + Threshold
           /\ Threshold * (p - 1) = Threshold * p - Threshold
           /\ p >= 0 => Threshold * p >= 0
           /\ Threshold * p > 0 => p > 0
           /\ \A q \in Int : p >= q => Threshold * p >= Threshold * q
  OBVIOUS
<1>1. Threshold \in Nat \ {0}
  BY Sizes
<1>2. ASSUME NEW q \in Int, p >= q PROVE Threshold * p >= Threshold * q
  <2>1. Threshold * (p - q) >= 0
    BY <1>1, <1>2
  <2> QED
    BY <1>1, <2>1
<1>3. Threshold * p > 0 => p > 0
  BY <1>1
<1> QED
  BY <1>1, <1>2, <1>3

\* The egress context leaves the ingress context and its events alone.
LEMMA EgressFrame == EvType /\ EgressNext => UNCHANGED ingress /\ SideKept("dma")
<1> SUFFICES ASSUME EvType, EgressNext PROVE UNCHANGED ingress /\ SideKept("dma")
  OBVIOUS
<1> USE DEF egress, ingress, Sides, SideKept
<1>1. CASE EgressStart
  BY <1>1, EngagedFacts, ConsumedFacts DEF EgressStart
<1>2. CASE EgressWake
  BY <1>2, EngagedFacts, ConsumedFacts DEF EgressWake
<1>3. CASE EgressNullRecycle
  BY <1>3 DEF EgressNullRecycle, InEgressLoop
<1>4. CASE EgressRecycle
  BY <1>4 DEF EgressRecycle, InEgressLoop
<1>5. CASE EgressNeedCache
  BY <1>5 DEF EgressNeedCache, InEgressLoop
<1>6. CASE EgressSpin
  BY <1>6 DEF EgressSpin
<1>7. CASE EgressPullToRing
  BY <1>7 DEF EgressPullToRing
<1>8. CASE EgressPullToCache
  BY <1>8 DEF EgressPullToCache
<1>9. CASE EgressPulled
  BY <1>9 DEF EgressPulled
<1>10. CASE EgressDone
  BY <1>10, EngagedFacts, ConsumedFacts DEF EgressDone
<1> QED
  BY <1>1, <1>2, <1>3, <1>4, <1>5, <1>6, <1>7, <1>8, <1>9, <1>10 DEF EgressNext, EgressNormal

\* A whole event's worth is owed before the ingress context feeds the list.
LEMMA FeedStep ==
  ASSUME BoundedBacklog, DInv, [Next]_vars
  PROVE  FeedOwed' /\ dmaPend' >= 0
<1>a. /\ TypeOK /\ LockHeld /\ EgressDeficit /\ FeedOwed /\ dmaPend >= 0
      /\ dmaPend \in Int /\ edef \in Int /\ Threshold \in Nat \ {0}
      /\ MaxPending \in Nat /\ TmBacklog \in Nat
  BY Sizes, CountAssumption DEF DInv, IInv, DmaInv, TmInv, TypeOK
<1>b. CASE UNCHANGED <<me, dmaPend, cacheBusy, epc, edef, ipc>>
  BY <1>a, <1>b DEF FeedOwed
<1> USE DEF FeedOwed, LockHeld, EgressDeficit
<1>1. CASE EgressStart
  BY <1>1, <1>a DEF EgressStart, SwapOut, Ready, Other, egress, ingress, descr
<1>2. CASE EgressWake
  BY <1>2, <1>a DEF EgressWake, egress, ingress, descr
<1>3. CASE EgressNullRecycle
  <2>1. edef' = edef - Threshold /\ epc = "loop" /\ me = "egress"
        /\ UNCHANGED <<me, epc, ipc, cacheBusy, dmaPend>>
    BY <1>3 DEF EgressNullRecycle, InEgressLoop, ingress, descr
  <2>2. Threshold * dmaPend \in Int
    BY <1>a, Batches
  <2>3. Threshold * dmaPend >= edef + Threshold => Threshold * dmaPend >= edef' + Threshold
    BY <1>a, <2>1, <2>2
  <2> QED
    BY <1>a, <2>1, <2>3
<1>4. CASE EgressRecycle
  <2>1. dmaPend' = dmaPend - 1 /\ edef' = edef - Threshold /\ edef >= Threshold /\ dmaPend # 0
        /\ epc = "loop" /\ me = "egress" /\ UNCHANGED <<me, epc, ipc, cacheBusy>>
    BY <1>4 DEF EgressRecycle, InEgressLoop, ingress
  <2>2. dmaPend' >= 0
    BY <1>a, <2>1
  <2>3. ASSUME ipc = "feedacq" PROVE Threshold * dmaPend' >= edef' + Threshold
    <3>1. Threshold * dmaPend >= edef + Threshold
      BY <1>a, <2>1, <2>3
    <3>2. Threshold * (dmaPend - 1) = Threshold * dmaPend - Threshold /\ Threshold * dmaPend \in Int
      BY <1>a, Batches
    <3> QED
      BY <1>a, <2>1, <3>1, <3>2
  <2> QED
    BY <2>1, <2>2, <2>3
<1>5. CASE EgressNeedCache
  <2>1. dmaPend = 0 /\ epc = "loop" /\ me = "egress" /\ UNCHANGED <<ipc, dmaPend>>
    BY <1>5 DEF EgressNeedCache, InEgressLoop, ingress, descr
  <2>2. Threshold * dmaPend = 0
    BY <1>a, <2>1
  <2>3. ipc # "feedacq"
    BY <1>a, <2>1, <2>2
  <2> QED
    BY <1>a, <2>1, <2>3
<1>6. CASE EgressSpin
  BY <1>6, <1>a DEF EgressSpin, SwapOut, Ready, Other, egress, ingress, descr
<1>7. CASE EgressPullToRing
  BY <1>7, <1>a DEF EgressPullToRing, egress, ingress, descr
<1>8. CASE EgressPullToCache
  BY <1>8, <1>a DEF EgressPullToCache, SwapOut, Ready, Other, egress, ingress, descr
<1>9. CASE EgressPulled
  <2>1. /\ me = "none" /\ epc = "pull" /\ me' = "egress" /\ epc' = "loop"
        /\ edef' = edef - Threshold /\ UNCHANGED <<ipc, dmaPend>>
    BY <1>9 DEF EgressPulled, ingress
  <2>2. ASSUME ipc = "feedacq" PROVE Threshold * dmaPend' >= edef' + Threshold
    <3>1. dmaPend >= MaxPending + 1
      BY <1>a, <2>1, <2>2
    <3>2. Threshold * dmaPend >= Threshold * (MaxPending + 1)
      BY <1>a, <3>1, Batches
    <3>3. Threshold * (MaxPending + 1) = (MaxPending + 1) * Threshold
      BY <1>a
    <3>4. edef <= (MaxPending + 1) * Threshold
      BY <1>a DEF BoundedBacklog
    <3>5. Threshold * dmaPend \in Int /\ edef' + Threshold = edef
      BY <1>a, <2>1, Batches
    <3> QED
      BY <1>a, <2>1, <3>2, <3>3, <3>4, <3>5
  <2> QED
    BY <1>a, <2>1, <2>2
<1>10. CASE EgressDone
  <2>1. me = "egress" /\ epc = "loop" /\ epc' = "wait" /\ UNCHANGED <<ipc, dmaPend, cacheBusy>>
    BY <1>10 DEF EgressDone, ingress, descr
  <2>2. ASSUME ipc = "feedacq" PROVE dmaPend > 0 /\ ~cacheBusy /\ me' = "ingress"
    <3>1. Threshold * dmaPend >= edef + Threshold /\ Threshold * dmaPend \in Int
      BY <1>a, <2>1, <2>2, Batches
    <3>2. dmaPend > 0
      BY <1>a, <3>1, Batches
    <3>3. ~cacheBusy
      BY <1>a, <2>1, <2>2
    <3>4. me' = "ingress"
      BY <1>10, <2>2 DEF EgressDone, SwapOut, Ready, Other
    <3> QED
      BY <3>2, <3>3, <3>4
  <2> QED
    BY <1>a, <2>1, <2>2
<1>0. CASE IngressStart
  BY <1>0, <1>a DEF IngressStart, ingressRest, egress, ingress, descr
<1>11. CASE IngressInitFill
  BY <1>11, <1>a
     DEF IngressInitFill, PopRing, SwapOut, Ready, Other, ingressRest, egress, ingress,
         descr
<1>12. CASE IngressInitFull
  BY <1>12, <1>a DEF IngressInitFull, SwapOut, Ready, Other, ingressRest, egress, ingress, descr
<1>13. CASE IngressPopped
  BY <1>13, <1>a DEF IngressPopped, ingressRest, egress, ingress, descr
<1>14. CASE IngressUnderflow
  BY <1>14, <1>a
     DEF IngressUnderflow, SwapOut, Ready, Other, ingressRest, egress, ingress, descr
<1>15. CASE IngressFillWrite
  BY <1>15, <1>a
     DEF IngressFillWrite, SwapOut, Ready, Other, ingressRest, egress, ingress, descr
<1>16. CASE IngressFilled
  BY <1>16, <1>a DEF IngressFilled, ingressRest, egress, ingress, descr
<1>17. CASE IngressEvent
  BY <1>17, <1>a DEF IngressEvent, egress, ingress, descr
<1>18. CASE IngressAlarm
  BY <1>18, <1>a DEF IngressAlarm, egress, ingress, descr
<1>19. CASE IngressNullRecycle
  BY <1>19, <1>a DEF IngressNullRecycle, egress, ingress, descr
<1>20. CASE IngressCountEvent
  BY <1>20, <1>a DEF IngressCountEvent, egress, ingress, descr
<1>21. CASE IngressCounted
  BY <1>21, <1>a DEF IngressCounted, ingressRest, egress, ingress, descr
<1>22. CASE IngressFeed
  BY <1>22, <1>a DEF IngressFeed, ingressRest, egress, ingress, descr
<1>23. CASE IngressPush
  BY <1>23, <1>a DEF IngressPush, ingressRest, egress, ingress, descr
<1>24. CASE IngressCacheLow
  BY <1>24, <1>a DEF IngressCacheLow, ingressRest, egress, ingress, descr
<1>25. CASE IngressRefill
  BY <1>25, <1>a
     DEF IngressRefill, PopRing, SwapOut, Ready, Other, ingressRest, egress, ingress,
         descr
<1>26. CASE IngressRefilled
  BY <1>26, <1>a DEF IngressRefilled, ingressRest, egress, ingress, descr
<1>27. CASE IngressSpin
  BY <1>27, <1>a DEF IngressSpin, SwapOut, Ready, Other, egress, ingress, descr
<1>28. CASE IngressWait
  BY <1>28, <1>a DEF IngressWait, SwapOut, Ready, Other, egress, ingress, descr
<1>29. ASSUME NEW s \in Sides, AutoPush(s) PROVE FeedOwed' /\ dmaPend' >= 0
  BY <1>29, <1>a, <1>b DEF AutoPush, descr, egress, ingress
<1>30. ASSUME NEW n \in NbiBatch, DmaTake(n) \/ TmFree(n) PROVE FeedOwed' /\ dmaPend' >= 0
  BY <1>30, <1>a, <1>b DEF DmaTake, TmFree, descr, egress, ingress
<1>31. ASSUME NEW n \in AppBatch, AppAlloc(n) \/ AppFree(n) \/ AppSend(n)
       PROVE  FeedOwed' /\ dmaPend' >= 0
  BY <1>31, <1>a, <1>b DEF AppAlloc, AppFree, AppSend, descr, egress, ingress
<1>32. CASE UNCHANGED vars
  BY <1>32, <1>a, <1>b DEF vars, descr, egress, ingress
<1> QED
  BY <1>0, <1>1, <1>2, <1>3, <1>4, <1>5, <1>6, <1>7, <1>8, <1>9, <1>10, <1>11, <1>12, <1>13,
     <1>14, <1>15, <1>16, <1>17, <1>18, <1>19, <1>20, <1>21, <1>22, <1>23, <1>24, <1>25,
     <1>26, <1>27, <1>28, <1>29, <1>30, <1>31, <1>32
     DEF Next, EgressNext, EgressNormal, IngressNext, IngressNormal, NbiNext, AppNext

\* A step that leaves the DMA side's variables and events alone.
LEMMA DmaFrame ==
  ASSUME SideOK("dma", icur), IngressDeficit, DmaLedger, SideKept("dma"),
         UNCHANGED <<ipc, icur, iprev, idef, filled, dma, dmaPend>>
  PROVE  SideOK("dma", icur)' /\ IngressDeficit' /\ DmaLedger'
<1>1. "dma" \in Sides
  BY DEF Sides
<1>2. SideOK("dma", icur)' /\ Unseen("dma", icur)' = Unseen("dma", icur)
  BY <1>1, SideKeptOK DEF SideOK, Unread, Unseen, InOrder
<1> QED
  BY <1>2 DEF IngressDeficit, DmaLedger

\* Every step keeps the books of the DMA side: a batch leaves the list when
\* an event reports it, and comes back when a pending event is served.
LEMMA DmaBooksStep ==
  ASSUME DInv, [Next]_vars
  PROVE  SideOK("dma", icur)' /\ IngressDeficit' /\ DmaLedger'
<1> DEFINE Books == SideOK("dma", icur) /\ IngressDeficit /\ DmaLedger
<1> SUFFICES Books'
  OBVIOUS
<1>a. /\ EvType /\ "tm" \in Sides /\ "dma" \in Sides /\ SideOK("dma", icur)
      /\ IngressDeficit /\ DmaLedger /\ LockHeld /\ Books
  BY DEF DInv, IInv, DmaInv, TypeOK, EvType, Sides
<1>b. /\ Unseen("dma", icur) \in Nat /\ Threshold * dmaPend \in Nat
      /\ icur \in Int /\ iprev \in Int /\ idef \in Nat /\ dma \in Nat
      /\ dmaPend \in Nat /\ Threshold \in Nat
  BY <1>a, SideInt, Sizes, Batches DEF DInv, IInv, DmaInv, TypeOK, IngressDeficit
<1>c. ASSUME SideKept("dma"), icur' = icur
      PROVE  SideOK("dma", icur)' /\ Unseen("dma", icur)' = Unseen("dma", icur)
  BY <1>a, <1>c, SideKeptOK DEF SideOK, Unread, Unseen, InOrder
<1>d. ev' = ev => SideKept("dma")
  BY DEF SideKept
<1>e. ASSUME SideKept("dma"), UNCHANGED <<icur, idef, dma, dmaPend>>
      PROVE  SideOK("dma", icur)' /\ DmaLedger'
  BY <1>a, <1>c, <1>e DEF DmaLedger
<1>f. ASSUME SideKept("dma"), UNCHANGED <<ipc, icur, iprev, idef, filled, dma, dmaPend>>
      PROVE  Books'
  BY <1>a, <1>f, DmaFrame
<1>g. Threshold * (dmaPend + 1) = Threshold * dmaPend + Threshold
      /\ Threshold * (dmaPend - 1) = Threshold * dmaPend - Threshold
  BY <1>b, Batches
<1>1. CASE EgressRecycle
  <2>1. /\ SideKept("dma") /\ dma' = dma + Threshold /\ dmaPend' = dmaPend - 1
        /\ UNCHANGED <<ipc, icur, iprev, idef, filled>>
    BY <1>1, <1>d DEF EgressRecycle, ingress
  <2>2. SideOK("dma", icur)' /\ Unseen("dma", icur)' = Unseen("dma", icur)
    BY <1>c, <2>1
  <2>3. (dma + Threshold) + (Threshold * (dmaPend - 1) + idef)
          = dma + (Threshold * dmaPend + idef)
    BY <1>b, <1>g
  <2>4. DmaLedger'
    BY <1>a, <2>1, <2>2, <2>3 DEF DmaLedger
  <2> QED
    BY <1>a, <2>1, <2>2, <2>4 DEF IngressDeficit
<1>2. CASE EgressNext /\ ~EgressRecycle
  <2>1. UNCHANGED <<ipc, icur, iprev, idef, filled>> /\ SideKept("dma")
    BY <1>2, <1>a, EgressFrame DEF ingress
  <2>2. UNCHANGED <<dma, dmaPend>>
    BY <1>2 DEF EgressNext, EgressNormal, EgressStart, EgressWake, EgressNullRecycle, EgressNeedCache,
                EgressSpin, EgressPullToRing, EgressPullToCache,
                EgressPulled, EgressDone, descr
  <2> QED
    BY <1>f, <2>1, <2>2
<1>0. CASE IngressStart
  BY <1>0, <1>a, <1>d, <1>e DEF IngressStart, ingressRest, descr, IngressDeficit
<1>3. CASE IngressInitFill
  BY <1>3, <1>a, <1>d, <1>e DEF IngressInitFill, PopRing, ingressRest, descr, IngressDeficit
<1>4. CASE IngressInitFull
  <2>1. SideKept("dma") /\ ipc' = "first" /\ filled' = TRUE
        /\ UNCHANGED <<icur, iprev, idef, dma, dmaPend>>
    BY <1>4, <1>a, EngagedFacts DEF IngressInitFull, ingressRest, descr
  <2>2. idef = 0 /\ iprev = icur
    BY <1>4, <1>a DEF IngressInitFull, IngressDeficit
  <2> QED
    BY <1>a, <1>e, <2>1, <2>2 DEF IngressDeficit
<1>5. CASE IngressPopped
  BY <1>5, <1>a, <1>d, <1>e DEF IngressPopped, ingressRest, descr, IngressDeficit
<1>6. CASE IngressUnderflow
  <2>1. CASE filled
    <3>1. SideKept("dma") /\ ipc' = "done" /\ UNCHANGED <<icur, iprev, idef, dma, dmaPend, filled>>
      BY <1>6, <1>d, <2>1 DEF IngressUnderflow, ingressRest, descr
    <3> QED
      BY <1>6, <1>a, <1>e, <2>1, <3>1 DEF IngressDeficit, IngressUnderflow
  <2>2. CASE ~filled
    <3>1. SideKept("dma") /\ ipc' = "first" /\ filled' = TRUE
          /\ UNCHANGED <<icur, iprev, idef, dma, dmaPend>>
      BY <1>6, <1>a, <2>2, EngagedFacts DEF IngressUnderflow, ingressRest, descr
    <3> QED
      BY <1>6, <1>a, <1>e, <2>2, <3>1 DEF IngressDeficit, IngressUnderflow
  <2> QED
    BY <2>1, <2>2
<1>7. CASE IngressFillWrite
  BY <1>7, <1>a, <1>d, <1>e DEF IngressFillWrite, ingressRest, descr, IngressDeficit
<1>8. CASE IngressFilled
  BY <1>8, <1>a, <1>d, <1>e DEF IngressFilled, ingressRest, descr, IngressDeficit
<1>9. CASE IngressEvent
  <2> DEFINE data == ev["dma"].data
  <2>1. /\ SideKept("dma") /\ icur' = data /\ ipc' = "serve" /\ dma' = dma
        /\ dmaPend' = dmaPend /\ filled' = filled
        /\ idef' = Deficit(data, icur) /\ ipc \in {"first", "wait", "done"} /\ filled
    BY <1>9, <1>a, ConsumedFacts DEF IngressEvent, IngressDeficit, descr
  <2>2. /\ IsCount(data) /\ SideOK("dma", data)
        /\ Deficit(data, icur) >= 0 /\ Whole(Deficit(data, icur))
        /\ Unseen("dma", icur) = Deficit(data, icur) + Unseen("dma", data)
    BY <1>a, SideReadOK
  <2>3. SideOK("dma", icur)' /\ Unseen("dma", icur)' = Unseen("dma", data)
    BY <1>a, <2>1, <2>2, SideKeptOK DEF SideOK, Unread, Unseen, InOrder
  <2>4. Unseen("dma", data) \in Nat /\ Deficit(data, icur) \in Int
    BY <1>a, <2>2, SideInt, CountRange DEF SideOK
  <2>5. idef = 0
    BY <1>a, <2>1 DEF IngressDeficit
  <2>6. dma + (Threshold * dmaPend + Deficit(data, icur)) + Unseen("dma", data) = DmaInit
    BY <1>a, <1>b, <2>2, <2>4, <2>5 DEF DmaLedger
  <2>7. DmaLedger'
    BY <2>1, <2>3, <2>6 DEF DmaLedger
  <2>8. IngressDeficit'
    BY <2>1, <2>2 DEF IngressDeficit
  <2> QED
    BY <2>3, <2>7, <2>8
<1>10. CASE IngressAlarm
  <2>1. /\ SideKept("dma") /\ ipc' = "serve" /\ idef' = Deficit(icur, iprev) /\ ipc = "wait"
        /\ UNCHANGED <<icur, iprev, filled, dma, dmaPend>>
    BY <1>10, <1>d DEF IngressAlarm, descr
  <2>2. iprev = icur /\ idef = 0 /\ IsCount(icur) /\ filled
    BY <1>a, <2>1 DEF IngressDeficit, SideOK
  <2>3. Deficit(icur, icur) = 0
    BY <2>2, DeficitCases, Sizes DEF IsCount
  <2>4. idef' = idef
    BY <2>1, <2>2, <2>3
  <2> QED
    BY <1>a, <1>e, <2>1, <2>2, <2>4 DEF IngressDeficit
<1>11. CASE IngressNullRecycle
  <2>1. /\ SideKept("dma") /\ dma' = dma + Threshold /\ idef' = idef - Threshold
        /\ idef >= Threshold /\ ipc = "serve" /\ UNCHANGED <<ipc, icur, iprev, filled, dmaPend>>
    BY <1>11, <1>d DEF IngressNullRecycle, descr
  <2>2. SideOK("dma", icur)' /\ Unseen("dma", icur)' = Unseen("dma", icur)
    BY <1>c, <2>1
  <2>3. Whole(idef - Threshold)
    BY <1>a, <1>b, WholeSum, WholeConstants DEF IngressDeficit
  <2>4. IngressDeficit'
    BY <1>a, <1>b, <2>1, <2>3 DEF IngressDeficit
  <2>5. (dma + Threshold) + (Threshold * dmaPend + (idef - Threshold))
          = dma + (Threshold * dmaPend + idef)
    BY <1>b
  <2>6. DmaLedger'
    BY <1>a, <2>1, <2>2, <2>5 DEF DmaLedger
  <2> QED
    BY <2>2, <2>4, <2>6
<1>12. CASE IngressCountEvent
  <2>1. /\ SideKept("dma") /\ dma' = dma /\ dmaPend' = dmaPend + 1 /\ idef' = idef - Threshold
        /\ idef >= Threshold /\ ipc = "serve" /\ UNCHANGED <<ipc, icur, iprev, filled>>
    BY <1>12, <1>d DEF IngressCountEvent
  <2>2. SideOK("dma", icur)' /\ Unseen("dma", icur)' = Unseen("dma", icur)
    BY <1>c, <2>1
  <2>3. Whole(idef - Threshold)
    BY <1>a, <1>b, WholeSum, WholeConstants DEF IngressDeficit
  <2>4. IngressDeficit'
    BY <1>a, <1>b, <2>1, <2>3 DEF IngressDeficit
  <2>5. dma + (Threshold * (dmaPend + 1) + (idef - Threshold))
          = dma + (Threshold * dmaPend + idef)
    BY <1>b, <1>g
  <2>6. DmaLedger'
    BY <1>a, <2>1, <2>2, <2>5 DEF DmaLedger
  <2> QED
    BY <2>2, <2>4, <2>6
<1>13. CASE IngressCounted
  <2>1. idef = 0 /\ filled
    BY <1>13, <1>a, <1>b, WholeSmall DEF IngressCounted, IngressDeficit
  <2> QED
    BY <1>13, <1>a, <1>d, <1>e, <2>1 DEF IngressCounted, ingressRest, descr, IngressDeficit
<1>14. CASE IngressFeed
  BY <1>14, <1>a, <1>d, <1>e DEF IngressFeed, ingressRest, descr, IngressDeficit
<1>15. CASE IngressPush
  <2>1. /\ SideKept("dma") /\ dma' = dma + Threshold /\ dmaPend' = dmaPend - 1
        /\ ipc = "feedacq" /\ ipc' = "feed" /\ UNCHANGED <<icur, iprev, idef, filled>>
    BY <1>15, <1>d DEF IngressPush, ingressRest
  <2>2. SideOK("dma", icur)' /\ Unseen("dma", icur)' = Unseen("dma", icur)
    BY <1>c, <2>1
  <2>3. (dma + Threshold) + (Threshold * (dmaPend - 1) + idef)
          = dma + (Threshold * dmaPend + idef)
    BY <1>b, <1>g
  <2>4. DmaLedger'
    BY <1>a, <2>1, <2>2, <2>3 DEF DmaLedger
  <2> QED
    BY <1>a, <2>1, <2>2, <2>4 DEF IngressDeficit
<1>16. CASE IngressCacheLow
  BY <1>16, <1>a, <1>d, <1>e DEF IngressCacheLow, ingressRest, descr, IngressDeficit
<1>17. CASE IngressRefill
  BY <1>17, <1>a, <1>d, <1>e DEF IngressRefill, PopRing, ingressRest, descr, IngressDeficit
<1>18. CASE IngressRefilled
  BY <1>18, <1>a, <1>d, <1>e DEF IngressRefilled, ingressRest, descr, IngressDeficit
<1>19. CASE IngressSpin
  BY <1>19, <1>d, <1>f DEF IngressSpin, ingress, descr
<1>20. CASE IngressWait
  <2>1. SideKept("dma") /\ ipc = "done" /\ ipc' = "wait" /\ iprev' = icur
        /\ UNCHANGED <<icur, idef, filled, dma, dmaPend>>
    BY <1>20, <1>a, EngagedFacts DEF IngressWait, descr
  <2> QED
    BY <1>a, <1>e, <2>1 DEF IngressDeficit
<1>21. ASSUME NEW s \in Sides, AutoPush(s) PROVE Books'
  <2>1. UNCHANGED <<ipc, icur, iprev, idef, filled, dma, dmaPend>>
    BY <1>21 DEF AutoPush, ingress, descr
  <2>2. CASE s = "dma"
    <3>1. IsCount(icur)
      BY <1>a DEF SideOK
    <3>2. SideOK("dma", icur)' /\ Unread("dma", icur)' = Unread("dma", icur)
      BY <1>21, <1>a, <2>1, <2>2, <3>1, SidePushOK DEF SideOK, Unread, InOrder
    <3>3. ev'["dma"].part = ev["dma"].part
      BY <1>21, <1>a, <2>2, PushFacts
    <3>4. Unseen("dma", icur)' = Unseen("dma", icur)
      BY <3>2, <3>3 DEF Unseen
    <3> QED
      BY <1>a, <2>1, <3>2, <3>4 DEF IngressDeficit, DmaLedger
  <2>3. CASE s = "tm"
    BY <1>21, <1>a, <1>f, <2>1, <2>3, PushFacts
  <2> QED
    BY <2>2, <2>3 DEF Sides
<1>22. ASSUME NEW n \in NbiBatch, DmaTake(n) PROVE Books'
  <2>1. n \in 1 .. Threshold /\ n \in Int /\ dma >= n /\ dma' = dma - n /\ Count("dma", n)
        /\ UNCHANGED <<ipc, icur, iprev, idef, filled, dmaPend>>
    BY <1>22, InputAssumption, Sizes DEF DmaTake, ingress, descr
  <2>2. Unseen("dma", icur) + n < CountMod
    <3> DEFINE owed == Threshold * dmaPend
    <3>1. dma + (owed + idef) + Unseen("dma", icur) = DmaInit /\ owed \in Nat
      BY <1>a, <1>b DEF DmaLedger
    <3> HIDE DEF owed
    <3> QED
      BY <1>b, <2>1, <3>1, CountAssumption
  <2>3. SideOK("dma", icur)' /\ Unseen("dma", icur)' = Unseen("dma", icur) + n
    BY <1>a, <2>1, <2>2, SideCountOK DEF SideOK, Unread, Unseen, InOrder
  <2>4. (dma - n) + (Threshold * dmaPend + idef) + (Unseen("dma", icur) + n) = DmaInit
    <3> DEFINE owed == Threshold * dmaPend + idef
    <3>1. dma + owed + Unseen("dma", icur) = DmaInit /\ owed \in Nat
      BY <1>a, <1>b DEF DmaLedger
    <3> HIDE DEF owed
    <3>2. (dma - n) + owed + (Unseen("dma", icur) + n) = DmaInit
      BY <1>b, <2>1, <3>1
    <3> QED
      BY <3>2 DEF owed
  <2>5. DmaLedger'
    BY <2>1, <2>3, <2>4 DEF DmaLedger
  <2> QED
    BY <1>a, <2>1, <2>3, <2>5 DEF IngressDeficit
<1>23. ASSUME NEW n \in NbiBatch, TmFree(n) PROVE Books'
  <2>1. n \in Nat /\ SideKept("dma")
    BY <1>23, <1>a, CountFacts, InputAssumption DEF TmFree
  <2> QED
    BY <1>23, <1>f, <2>1 DEF TmFree, ingress, descr
<1>24. ASSUME NEW n \in AppBatch, AppAlloc(n) \/ AppFree(n) \/ AppSend(n) PROVE Books'
  BY <1>24, <1>d, <1>f DEF AppAlloc, AppFree, AppSend, ingress, descr
<1>25. CASE UNCHANGED vars
  BY <1>25, <1>d, <1>f DEF vars, ingress, descr
<1> HIDE DEF Books
<1> QED
  BY <1>0, <1>1, <1>2, <1>3, <1>4, <1>5, <1>6, <1>7, <1>8, <1>9, <1>10, <1>11, <1>12, <1>13,
     <1>14, <1>15, <1>16, <1>17, <1>18, <1>19, <1>20, <1>21, <1>22, <1>23, <1>24,
     <1>25
     DEF Next, IngressNext, IngressNormal, NbiNext, AppNext

\* The invariant of the DMA side holds in the first state.
LEMMA DInvInit == Init => DInv
<1> SUFFICES ASSUME Init PROVE DInv
  OBVIOUS
<1>1. "dma" \in Sides
  BY DEF Sides
<1>2. SideOK("dma", icur) /\ Unseen("dma", icur) = 0
  BY <1>1, SideInit DEF Init
<1>3. IngressDeficit /\ FeedOwed /\ dmaPend >= 0
  BY WholeConstants DEF Init, IngressDeficit, FeedOwed
<1>4. DmaLedger
  BY <1>2, Sizes, CountAssumption DEF Init, DmaLedger
<1> QED
  BY <1>2, <1>3, <1>4, IInvInit DEF DInv, DmaInv

\* With a bounded backlog the invariant of the DMA side always holds.
LEMMA DInvCorrect ==
  ASSUME BoundedBacklog
  PROVE  Spec => []DInv
<1>1. DInv /\ [Next]_vars => DInv'
  BY IInvStep, FeedStep, DmaBooksStep DEF DInv, DmaInv
<1> QED
  BY <1>1, DInvInit, PTL DEF Spec

(* As long as the TM holds no more than MaxPending + 1 batches back, what  *)
(* the DMA engine has, what is owed to it and what no event has reported   *)
(* add up, however the events were merged and whoever served them.         *)
THEOREM DmaBooks ==
  ASSUME BoundedBacklog
  PROVE  Spec => []DmaLedger
<1>1. DInv => DmaLedger
  BY DEF DInv, DmaInv
<1> QED
  BY <1>1, DInvCorrect, PTL

(* As long as the TM holds no more than MaxPending + 1 batches back, the   *)
(* DMA engine's list never gets more buffers than were taken from it.      *)
THEOREM DmaSafe ==
  ASSUME BoundedBacklog
  PROVE  Spec => []DmaNeverOverfed
<1>1. ASSUME DInv PROVE DmaNeverOverfed
  <2> DEFINE owed == Threshold * dmaPend + idef
  <2>1. owed \in Nat /\ dma \in Nat /\ Unseen("dma", icur) \in Nat
    BY <1>1, SideInt, Sizes, Batches DEF DInv, IInv, DmaInv, TypeOK, IngressDeficit, Sides
  <2>2. dma + owed + Unseen("dma", icur) = DmaInit
    BY <1>1 DEF DInv, DmaInv, DmaLedger
  <2> HIDE DEF owed
  <2> QED
    BY <2>1, <2>2 DEF DmaNeverOverfed
<1> QED
  BY <1>1, DInvCorrect, PTL

-----------------------------------------------------------------------------
(***************************************************************************)
(* The Buffer List Manager implements BufferPool: each of its steps is one *)
(* move of the pool, or moves nothing.                                     *)
(***************************************************************************)
\* What the pool's moves need: a pending event is room in the list.
LEMMA PoolFacts ==
  ASSUME DInv
  PROVE  /\ dma \in Nat /\ flight \in Nat /\ app \in Nat /\ tm \in Nat /\ ring \in Nat
         /\ held \in Nat /\ cacheCnt \in Nat /\ Threshold \in Nat \ {0}
         /\ dmaPend > 0 => dma + Threshold <= DmaInit
         /\ (epc \in {"loop", "acquire"} /\ edef >= Threshold) => tm >= Threshold
<1>1. /\ TypeOK /\ CacheRoom /\ "dma" \in Sides /\ "tm" \in Sides
      /\ SideOK("dma", icur) /\ SideOK("tm", ecur) /\ tm >= 0
  BY TmNonNegative DEF DInv, IInv, DmaInv, TmInv, Sides
<1>2. /\ dma \in Nat /\ flight \in Nat /\ app \in Nat /\ tm \in Nat /\ ring \in Nat
      /\ held \in Nat /\ cacheCnt \in Nat /\ Threshold \in Nat \ {0} /\ edef \in Int
      /\ dmaPend \in Int /\ idef \in Nat
      /\ Unseen("dma", icur) \in Nat /\ Unseen("tm", ecur) \in Nat
  BY <1>1, SideInt, Sizes DEF TypeOK, CacheRoom, Fill, DInv, DmaInv, IngressDeficit
<1>3. ASSUME dmaPend > 0 PROVE dma + Threshold <= DmaInit
  <2> DEFINE owed == Threshold * dmaPend
  <2>1. owed >= Threshold * 1 /\ owed \in Int
    BY <1>2, <1>3, Batches
  <2>2. dma + (owed + idef) + Unseen("dma", icur) = DmaInit
    BY DEF DInv, DmaInv, DmaLedger
  <2> HIDE DEF owed
  <2> QED
    BY <1>2, <2>1, <2>2, CountAssumption
<1>4. ASSUME epc \in {"loop", "acquire"}, edef >= Threshold PROVE tm >= Threshold
  <2>1. tm = edef + Unseen("tm", ecur)
    BY <1>2, <1>4 DEF DInv, IInv, TmInv, TmLedger
  <2> QED
    BY <1>2, <1>4, <2>1
<1> QED
  BY <1>2, <1>3, <1>4

\* The manager starts in a state of the pool's Init.
LEMMA PoolInit == Init => Pool!Init
  BY RingAssumption, CountAssumption DEF Init, Pool!Init

\* Every step of the manager is a step of the pool, or a stutter.
LEMMA PoolStep ==
  ASSUME NullRecycle = {}, DInv, [Next]_vars
  PROVE  [Pool!Next]_(Pool!vars)
<1> DEFINE list == dma
           out  == flight + tm + app
           pool == ring + held + cacheCnt
           Moves == NbiBatch \cup AppBatch
<1> USE DEF descr, egress, ingress
<1>a. /\ dma \in Nat /\ flight \in Nat /\ app \in Nat /\ tm \in Nat /\ ring \in Nat
      /\ held \in Nat /\ cacheCnt \in Nat /\ Threshold \in Nat \ {0}
      /\ dmaPend > 0 => dma + Threshold <= DmaInit
      /\ (epc \in {"loop", "acquire"} /\ edef >= Threshold) => tm >= Threshold
  BY PoolFacts
<1>b. /\ dmaPend \in Int /\ dmaPend >= 0 /\ FeedOwed /\ RegistersHeld /\ EgressDeficit
      /\ NbiBatch \subseteq Nat /\ AppBatch \subseteq Nat
  BY InputAssumption DEF DInv, DmaInv, IInv, TmInv, TypeOK, Fill
<1>c. UNCHANGED <<dma, flight, tm, app, ring, held, cacheCnt>> => UNCHANGED Pool!vars
  BY DEF Pool!vars
<1>d. (dma' = dma /\ out' = out /\ pool' = pool) => UNCHANGED Pool!vars
  BY DEF Pool!vars
<1>1. CASE EgressRecycle
  <2>1. Pool!Owed /\ tm >= Threshold
    BY <1>1, <1>a, <1>b DEF EgressRecycle, InEgressLoop, Pool!Owed
  <2>2. Pool!Recycle
    BY <1>1, <1>a, <2>1 DEF EgressRecycle, Pool!Recycle
  <2> QED
    BY <2>2 DEF Pool!Next
<1>2. CASE EgressPullToRing \/ EgressPullToCache
  <2>1. tm >= Threshold
    BY <1>2, <1>a, <1>b DEF EgressPullToRing, EgressPullToCache, EgressDeficit
  <2>2. Pool!Store(Threshold)
    BY <1>2, <1>a, <2>1 DEF EgressPullToRing, EgressPullToCache, Pool!Store
  <2> QED
    BY <2>2 DEF Pool!Next
<1>3. CASE IngressPush
  <2>1. dmaPend > 0
    BY <1>3, <1>b DEF IngressPush, FeedOwed
  <2>2. Pool!Supply
    BY <1>3, <1>a, <2>1 DEF IngressPush, ingressRest, Pool!Supply, Pool!Owed
  <2> QED
    BY <2>2 DEF Pool!Next
<1>4. CASE IngressInitFill \/ IngressRefill
  <2>1. UNCHANGED <<dma, flight, tm, app, cacheCnt>> /\ PopRing /\ held = 0
    BY <1>4, <1>b DEF IngressInitFill, IngressRefill, RegistersHeld
  <2>2. ring' + held' = ring + held
    BY <1>a, <2>1 DEF PopRing, Fill
  <2> QED
    BY <1>a, <1>d, <2>1, <2>2
<1>5. CASE IngressFilled
  <2>1. UNCHANGED <<dma, flight, tm, app, ring>> /\ cacheCnt' = cacheCnt + Fill
        /\ held' = 0 /\ held = Fill
    BY <1>5, <1>b DEF IngressFilled, ingressRest, RegistersHeld
  <2> QED
    BY <1>a, <1>d, <2>1 DEF Fill
<1>6. CASE EgressNext /\ ~EgressRecycle /\ ~EgressPullToRing /\ ~EgressPullToCache
  BY <1>6, <1>c
  DEF EgressNext, EgressNormal, EgressStart, EgressWake, EgressNullRecycle, EgressNeedCache,
      EgressSpin, EgressPulled, EgressDone
<1>7. CASE \/ IngressStart \/ IngressInitFull \/ IngressPopped \/ IngressUnderflow
           \/ IngressFillWrite \/ IngressEvent \/ IngressAlarm \/ IngressNullRecycle \/ IngressCountEvent
           \/ IngressCounted \/ IngressFeed \/ IngressCacheLow \/ IngressRefilled
           \/ IngressSpin \/ IngressWait
  BY <1>7, <1>c
  DEF IngressStart, IngressInitFull, IngressPopped, IngressUnderflow, IngressFillWrite, IngressEvent,
      IngressAlarm, IngressNullRecycle, IngressCountEvent, IngressCounted, IngressFeed,
      IngressCacheLow, IngressRefilled, IngressSpin, IngressWait,
      ingressRest
<1>8. ASSUME NEW s \in Sides, AutoPush(s) PROVE UNCHANGED Pool!vars
  BY <1>8, <1>c DEF AutoPush
<1>9. ASSUME NEW n \in NbiBatch, DmaTake(n) PROVE Pool!Next
  <2>1. Pool!Take(n)
    BY <1>9, <1>a, <1>b DEF DmaTake, Pool!Take
  <2> QED
    BY <2>1 DEF Pool!Next
<1>10. ASSUME NEW n \in NbiBatch, TmFree(n) PROVE UNCHANGED Pool!vars
  BY <1>10, <1>a, <1>b, <1>d DEF TmFree
<1>11. ASSUME NEW n \in AppBatch, AppAlloc(n) PROVE Pool!Next
  <2>1. Pool!Draw(n)
    BY <1>11, <1>a, <1>b DEF AppAlloc, Pool!Draw
  <2> QED
    BY <2>1 DEF Pool!Next
<1>12. ASSUME NEW n \in AppBatch, AppFree(n) PROVE Pool!Next
  <2>1. Pool!Store(n)
    BY <1>12, <1>a, <1>b DEF AppFree, Pool!Store
  <2> QED
    BY <2>1 DEF Pool!Next
<1>13. ASSUME NEW n \in AppBatch, AppSend(n) PROVE UNCHANGED Pool!vars
  BY <1>13, <1>a, <1>b, <1>d DEF AppSend
<1>14. CASE UNCHANGED vars
  BY <1>14, <1>c DEF vars
<1> QED
  BY <1>1, <1>2, <1>3, <1>4, <1>5, <1>6, <1>7, <1>8, <1>9, <1>10, <1>11, <1>12, <1>13,
     <1>14
     DEF Next, IngressNext, IngressNormal, NbiNext, AppNext

(* With buffers recycled and not nulled, and the TM holding no more than   *)
(* MaxPending + 1 batches back, the manager implements the abstract pool:  *)
(* the interleavings of its two contexts show nowhere.                     *)
THEOREM PoolImplemented ==
  ASSUME NullRecycle = {}, BoundedBacklog
  PROVE  Spec => ImplementsPool
<1>1. DInv /\ [Next]_vars => [Pool!Next]_(Pool!vars)
  BY PoolStep
<1> QED
  BY <1>1, PoolInit, DInvCorrect, PTL DEF Spec, ImplementsPool, Pool!Spec
=============================================================================
