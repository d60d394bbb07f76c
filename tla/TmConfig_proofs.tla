-------------------------- MODULE TmConfig_proofs --------------------------
(***************************************************************************)
(* For every size of the traffic manager and every content of the clusters *)
(* the queues that one call configures get regions of their own, what was  *)
(* configured reads back, and nothing else changes.  The invariant for the *)
(* regions: while queues are served, everything placed so far ends at or   *)
(* below head_tail_sram.  The one for the registers is Written, below.     *)
(***************************************************************************)
EXTENDS TmConfig, TLAPS

\* The next multiple is one, and not below.
LEMMA RoundUpIsMultiple ==
  ASSUME NEW n \in Nat, NEW size \in Nat \ {0}
  PROVE  /\ RoundUp(n, size) \in Nat
         /\ n <= RoundUp(n, size)
         /\ \E k \in Nat : RoundUp(n, size) = k * size
<1> DEFINE d == n \div size
           k == d + (IF n % size # 0 THEN 1 ELSE 0)
<1>1. d \in Nat /\ n % size \in 0 .. size - 1 /\ n = size * d + (n % size)
  OBVIOUS
<1>2. k \in Nat
  BY <1>1
<1>3. k * size \in Nat
  BY <1>2
<1>4. n <= k * size
  <2>1. CASE n % size = 0
    BY <2>1, <1>1
  <2>2. CASE n % size # 0
    <3>1. k * size = size * d + size
      BY <2>2, <1>1
    <3> QED BY <3>1, <1>1
  <2> QED BY <2>1, <2>2
<1> QED BY <1>2, <1>3, <1>4 DEF RoundUp

USE DEF Functions

\* The labels of the inner loops are three, and none is that of a function.
LEMMA Labels ==
  /\ LoopOf["schedulers"] = "sched" /\ LoopOf["shapers"] = "shaper"
  /\ LoopOf["queues"] = "qnum"
  /\ ClustersOf["schedulers"] = SchedClusters /\ ClustersOf["shapers"] = ShaperClusters
  /\ ClustersOf["queues"] = QueueClusters
  /\ \A f \in Functions : LoopOf[f] \in {"sched", "shaper", "qnum"}
  /\ \A f, g \in Functions : LoopOf[f] = LoopOf[g] => f = g
BY DEF LoopOf, ClustersOf

\* A range begins at a natural number.
LEMMA StartIsNat ==
  ASSUME NEW f \in Functions, NEW c \in ClustersOf[f]
  PROVE  c.start \in Nat
<1>1. c \in SchedClusters \cup ShaperClusters \cup QueueClusters
  BY Labels
<1>2. c.start \in UInt
  BY <1>1, ClustersAssumption DEF ClusterAssumption
<1> QED BY <1>2, TmAssumption DEF UInt

LEMMA SizeIsPositive ==
  ASSUME NEW c \in QueueClusters
  PROVE  c.queuesize \in SizeCodes /\ Entries[c.queuesize] \in Nat \ {0}
BY TmAssumption, ClustersAssumption DEF QueueAssumption

-----------------------------------------------------------------------------
THEOREM TmTypes == Spec => []TypeOK
<1>1. Init => TypeOK
  BY Labels DEF Init, TypeOK, NoQueue
<1>2. TypeOK /\ [Next]_vars => TypeOK'
  <2> SUFFICES ASSUME TypeOK, [Next]_vars PROVE TypeOK'
    OBVIOUS
  <2>1. ASSUME NEW f \in Functions, Call(f) PROVE TypeOK'
    BY <2>1, Labels DEF Call, TypeOK, regs, sched_regs
  <2>2. CASE CallL0
    BY <2>2, Labels, TmAssumption DEF CallL0, TypeOK, regs, sched_regs, Return
  <2>3. CASE ConfigTm
    BY <2>3, Labels DEF ConfigTm, TypeOK, sched_regs, Return
  <2>4. ASSUME NEW f \in Functions, ReadCluster(f) PROVE TypeOK'
    <3>1. PICK c \in ClustersOf[f] :
            /\ cluster' = c /\ num' = c.start
            /\ \/ ~c.in_use /\ NextCluster(f, c)
               \/ c.in_use /\ TooSmall(f, c) /\ Return(-1) /\ i' = i
               \/ c.in_use /\ ~TooSmall(f, c) /\ pc' = LoopOf[f] /\ UNCHANGED <<i, ret>>
      BY <2>4 DEF ReadCluster
    <3>2. num' \in Nat
      BY <3>1, StartIsNat
    <3>3. UNCHANGED <<queue_config, head_tail_sram, placed>>
      BY <2>4 DEF ReadCluster, regs
    <3>4. ret' \in {0, -1}
      BY <3>1 DEF TypeOK, NextCluster, Return
    <3>5. pc' \in {"idle", f, LoopOf[f]}
      BY <3>1 DEF NextCluster, Return
    <3>6. \A g \in Functions : pc' = LoopOf[g] => cluster' \in ClustersOf[g]
      BY <3>1, <3>5, Labels
    <3> QED BY <3>2, <3>3, <3>4, <3>5, <3>6 DEF TypeOK
  <2>5. ASSUME NEW f \in Functions, EndOfRange(f) PROVE TypeOK'
    BY <2>5, Labels DEF EndOfRange, TypeOK, NextCluster, Return, regs, sched_regs
  <2>6. ASSUME NEW f \in Functions, NEW max, OutOfRange(f, max) PROVE TypeOK'
    BY <2>6, Labels DEF OutOfRange, TypeOK, Return, regs, sched_regs
  <2>7. ASSUME NEW f \in Functions, NEW max, Turn(f, max) PROVE num' \in Nat
    BY <2>7, TmAssumption DEF Turn, TypeOK
  <2>8. CASE ConfigScheduler
    BY <2>8, <2>7 DEF ConfigScheduler, Turn, TypeOK
  <2>9. CASE ConfigShaper
    BY <2>9, <2>7 DEF ConfigShaper, Turn, TypeOK
  <2>10. CASE ConfigQueue
    <3> DEFINE size == Entries[cluster.queuesize]
               head == RoundUp(head_tail_sram, size)
    <3>1. cluster \in QueueClusters /\ num \in Queues
      BY <2>10, Labels, TmAssumption DEF ConfigQueue, Turn, TypeOK, Queues
    <3>2. cluster.queuesize \in SizeCodes /\ size \in Nat \ {0}
      BY <3>1, SizeIsPositive
    <3>3. head \in Nat
      BY <3>2, RoundUpIsMultiple DEF TypeOK
    <3>4. /\ queue_config' =
               [queue_config EXCEPT ![num] = [queuesize |-> cluster.queuesize, head |-> head]]
          /\ placed' = placed \cup {num}
          /\ head_tail_sram' = head + size
          /\ UNCHANGED <<pc, ret, cluster>>
      BY <2>10 DEF ConfigQueue, QueueWrite, Turn
    <3>5. \A q \in placed' : queue_config'[q] \in [queuesize : SizeCodes, head : Nat]
      BY <3>1, <3>2, <3>3, <3>4 DEF TypeOK
    <3>6. num' \in Nat
      BY <2>10, <2>7 DEF ConfigQueue
    <3> QED BY <3>1, <3>2, <3>3, <3>4, <3>5, <3>6 DEF TypeOK
  <2>11. CASE SramFull
    <3>1. cluster \in QueueClusters
      BY <2>11, Labels DEF SramFull, TypeOK
    <3>2. head_tail_sram' \in Nat
      BY <2>11, <3>1, SizeIsPositive, RoundUpIsMultiple DEF SramFull, TypeOK
    <3> QED BY <2>11, <3>2, Labels DEF SramFull, TypeOK, Return, regs
  <2>12. CASE WriteL0Weights
    BY <2>12, Labels, TmAssumption DEF WriteL0Weights, TypeOK
  <2>13. CASE ConfigL0
    BY <2>13, Labels DEF ConfigL0, TypeOK, Return
  <2>14. CASE UNCHANGED vars
    BY <2>14 DEF vars, regs, TypeOK
  <2> QED
    BY <2>1, <2>2, <2>3, <2>4, <2>5, <2>6, <2>8, <2>9, <2>10, <2>11, <2>12, <2>13, <2>14
    DEF Next, Body
<1> QED BY <1>1, <1>2, PTL DEF Spec

-----------------------------------------------------------------------------
\* Whatever is placed while queues are served ends where the next may begin.
PlacedBelow ==
  pc \in {"queues", "qnum"} => \A q \in placed : Head(q) + Size(q) <= head_tail_sram

RegionInv == PlacedBelow /\ RegionsOfCallApart

\* Nothing but a call for queues and its inner loop disturbs the regions.
LEMMA RegionsUndisturbed ==
  ASSUME RegionInv, UNCHANGED <<queue_config, placed>>,
         \/ pc' \notin {"queues", "qnum"}
         \/ pc \in {"queues", "qnum"} /\ UNCHANGED head_tail_sram
  PROVE  RegionInv'
BY DEF RegionInv, PlacedBelow, RegionsOfCallApart, Aligned, Apart, Head, Size

(* A new region begins at or above the end of all the others.              *)
LEMMA QueuePlaced ==
  ASSUME TypeOK, RegionInv, ConfigQueue
  PROVE  RegionInv'
<1> DEFINE size == Entries[cluster.queuesize]
           head == RoundUp(head_tail_sram, size)
<1>0. PICK n : n = num
  OBVIOUS
<1>1. cluster \in QueueClusters /\ n \in Queues /\ pc = "qnum"
  BY <1>0, Labels, TmAssumption DEF ConfigQueue, Turn, TypeOK, Queues
<1>2. cluster.queuesize \in SizeCodes /\ size \in Nat \ {0}
  BY <1>1, SizeIsPositive
<1>3. head \in Nat /\ head_tail_sram <= head /\ \E k \in Nat : head = k * size
  BY <1>2, RoundUpIsMultiple DEF TypeOK
<1>4. /\ head + size <= HEAD_TAIL_SRAM_MAX
      /\ queue_config' =
           [queue_config EXCEPT ![n] = [queuesize |-> cluster.queuesize, head |-> head]]
      /\ placed' = placed \cup {n}
      /\ head_tail_sram' = head + size
      /\ pc' = pc
  BY <1>0 DEF ConfigQueue, QueueWrite, Turn
<1>5. Head(n)' = head /\ Size(n)' = size
  BY <1>1, <1>4 DEF TypeOK, Head, Size
<1>6. ASSUME NEW q \in placed, q # n
      PROVE  /\ Head(q)' = Head(q) /\ Size(q)' = Size(q)
             /\ Head(q) \in Nat /\ Size(q) \in Nat
             /\ Head(q) + Size(q) <= head_tail_sram
  <2>1. q \in Queues /\ queue_config[q] \in [queuesize : SizeCodes, head : Nat]
    BY <1>6 DEF TypeOK
  <2>2. Head(q) \in Nat /\ Size(q) \in Nat
    BY <2>1, TmAssumption DEF Head, Size
  <2>3. queue_config'[q] = queue_config[q]
    BY <1>4, <1>6, <2>1 DEF TypeOK
  <2>4. Head(q)' = Head(q) /\ Size(q)' = Size(q)
    BY <2>3 DEF Head, Size
  <2>5. Head(q) + Size(q) <= head_tail_sram
    BY <1>1, <1>6 DEF RegionInv, PlacedBelow
  <2> QED BY <2>2, <2>4, <2>5
<1>7. Aligned(n)'
  <2>1. PICK k \in Nat : head = k * size
    BY <1>3
  <2>2. k <= k * size
    BY <1>2
  <2>3. k \in 0 .. HEAD_TAIL_SRAM_MAX
    BY <2>1, <2>2, <1>2, <1>3, <1>4, TmAssumption
  <2> QED BY <1>5, <2>1, <2>3 DEF Aligned
<1>8. \A q \in placed' : Aligned(q)' /\ Head(q)' + Size(q)' <= HEAD_TAIL_SRAM_MAX
  <2> SUFFICES ASSUME NEW q \in placed'
               PROVE  Aligned(q)' /\ Head(q)' + Size(q)' <= HEAD_TAIL_SRAM_MAX
    OBVIOUS
  <2>1. CASE q = n
    BY <2>1, <1>4, <1>5, <1>7
  <2>2. CASE q # n
    <3>1. q \in placed
      BY <2>2, <1>4
    <3>2. Aligned(q) /\ Head(q) + Size(q) <= HEAD_TAIL_SRAM_MAX
      BY <3>1 DEF RegionInv, RegionsOfCallApart
    <3>3. Head(q)' = Head(q) /\ Size(q)' = Size(q)
      BY <3>1, <2>2, <1>6
    <3> QED BY <3>2, <3>3 DEF Aligned
  <2> QED BY <2>1, <2>2
<1>9. \A p, q \in placed' : p # q => Apart(p, q)'
  <2> SUFFICES ASSUME NEW p \in placed', NEW q \in placed', p # q PROVE Apart(p, q)'
    OBVIOUS
  <2>1. CASE p # n /\ q # n
    <3>1. p \in placed /\ q \in placed
      BY <2>1, <1>4
    <3>2. Apart(p, q)
      BY <3>1 DEF RegionInv, RegionsOfCallApart
    <3> QED BY <3>1, <3>2, <2>1, <1>6 DEF Apart
  <2>2. CASE p = n
    <3>1. q \in placed /\ q # n
      BY <2>2, <1>4
    <3>2. Head(q)' + Size(q)' <= Head(p)'
      BY <3>1, <2>2, <1>3, <1>5, <1>6, TmAssumption DEF TypeOK
    <3> QED BY <3>2 DEF Apart
  <2>3. CASE q = n
    <3>1. p \in placed /\ p # n
      BY <2>3, <1>4
    <3>2. Head(p)' + Size(p)' <= Head(q)'
      BY <3>1, <2>3, <1>3, <1>5, <1>6, TmAssumption DEF TypeOK
    <3> QED BY <3>2 DEF Apart
  <2> QED BY <2>1, <2>2, <2>3
<1>10. \A q \in placed' : Head(q)' + Size(q)' <= head_tail_sram'
  <2> SUFFICES ASSUME NEW q \in placed' PROVE Head(q)' + Size(q)' <= head_tail_sram'
    OBVIOUS
  <2>1. CASE q = n
    BY <2>1, <1>2, <1>3, <1>4, <1>5
  <2>2. CASE q # n
    <3>1. q \in placed
      BY <2>2, <1>4
    <3> QED BY <3>1, <2>2, <1>2, <1>3, <1>4, <1>6 DEF TypeOK
  <2> QED BY <2>1, <2>2
<1> QED BY <1>8, <1>9, <1>10 DEF RegionInv, PlacedBelow, RegionsOfCallApart

(* Whatever the order and the sizes of the queues, and also when the call  *)
(* gives up half way, their regions are apart, aligned and in the memory.  *)
THEOREM TmRegionsApart == Spec => []RegionsOfCallApart
<1>1. Init => RegionInv
  BY DEF Init, RegionInv, PlacedBelow, RegionsOfCallApart
<1>2. TypeOK /\ RegionInv /\ [Next]_vars => RegionInv'
  <2> SUFFICES ASSUME TypeOK, RegionInv, [Next]_vars PROVE RegionInv'
    OBVIOUS
  <2>1. ASSUME NEW f \in Functions, Call(f) PROVE RegionInv'
    <3>1. CASE f = "queues"
      BY <2>1, <3>1 DEF Call, RegionInv, PlacedBelow, RegionsOfCallApart
    <3>2. CASE f # "queues"
      BY <2>1, <3>2, RegionsUndisturbed DEF Call, regs
    <3> QED BY <3>1, <3>2
  <2>2. CASE CallL0
    BY <2>2, RegionsUndisturbed DEF CallL0, regs, Return
  <2>3. CASE ConfigTm
    BY <2>3, RegionsUndisturbed DEF ConfigTm, Return
  <2>4. ASSUME NEW f \in Functions, ReadCluster(f) PROVE RegionInv'
    <3>1. pc = f /\ UNCHANGED <<queue_config, placed, head_tail_sram>>
      BY <2>4 DEF ReadCluster, regs
    <3>2. pc' \in {"idle", f, LoopOf[f]}
      BY <2>4 DEF ReadCluster, NextCluster, Return
    <3> QED BY <3>1, <3>2, Labels, RegionsUndisturbed
  <2>5. ASSUME NEW f \in Functions, EndOfRange(f) PROVE RegionInv'
    <3>1. pc = LoopOf[f] /\ UNCHANGED <<queue_config, placed, head_tail_sram>>
      BY <2>5 DEF EndOfRange, regs
    <3>2. pc' \in {"idle", f}
      BY <2>5 DEF EndOfRange, NextCluster, Return
    <3> QED BY <3>1, <3>2, Labels, RegionsUndisturbed
  <2>6. ASSUME NEW f \in Functions, NEW max, OutOfRange(f, max) PROVE RegionInv'
    BY <2>6, RegionsUndisturbed DEF OutOfRange, Return, regs
  <2>7. CASE ConfigScheduler
    BY <2>7, Labels, RegionsUndisturbed DEF ConfigScheduler, Turn
  <2>8. CASE ConfigShaper
    BY <2>8, Labels, RegionsUndisturbed DEF ConfigShaper, Turn
  <2>9. CASE ConfigQueue
    BY <2>9, QueuePlaced
  <2>10. CASE SramFull
    BY <2>10, RegionsUndisturbed DEF SramFull, Return, regs
  <2>11. CASE WriteL0Weights
    BY <2>11, RegionsUndisturbed DEF WriteL0Weights
  <2>12. CASE ConfigL0
    BY <2>12, RegionsUndisturbed DEF ConfigL0, Return
  <2>13. CASE UNCHANGED vars
    BY <2>13, RegionsUndisturbed DEF vars, regs, RegionInv, PlacedBelow
  <2> QED
    BY <2>1, <2>2, <2>3, <2>4, <2>5, <2>6, <2>7, <2>8, <2>9, <2>10, <2>11, <2>12, <2>13
    DEF Next, Body
<1>3. RegionInv => RegionsOfCallApart
  BY DEF RegionInv
<1> QED BY <1>1, <1>2, <1>3, TmTypes, PTL DEF Spec

-----------------------------------------------------------------------------
(* What was configured reads back, and nothing else changes.  The          *)
(* invariant knows the registers there are, that an inner loop counts up   *)
(* from the start of its range, and which weights of L0 were read ahead.   *)
Registers ==
  /\ DOMAIN scheduler_config = 0 .. TM_L0_SCHED_NUM
  /\ DOMAIN shaper_reg = 0 .. MAX_TM_SCHED_NUM
  /\ DOMAIN l2_weight = L2 /\ DOMAIN l1_weight = L1
  /\ DOMAIN l0_weight = 0 .. L0_SCHEDULER_INPUTS - 1

CountsUp ==
  \A f \in Functions : pc = LoopOf[f] =>
    cluster.in_use /\ cluster.start \in Nat /\ cluster.start <= num

\* Weights are written from 0, a whole burst at a time.
WeightsAhead ==
  pc = "l0" /\ cluster.dwrrenable =>
    /\ num % CMD_BURST_SZ = 0 /\ num <= L0_SCHEDULER_INPUTS
    /\ num < L0_SCHEDULER_INPUTS => burst = BurstAt(cluster, num)
    /\ \A n \in 0 .. num - 1 : l0_weight[n] = cluster.weight[n]

SchedulersReadBack ==
  \A s \in Scheds : Served("schedulers", s) /\ cluster.dwrrenable =>
    SchedRead(s) = cluster.config /\ WeightRead(s) = cluster.weight

ShapersReadBack ==
  \A s \in 0 .. MAX_TM_SCHED_NUM :
    Served("shapers", s) /\ s # MAX_TM_L1_L2_SCHED_NUM => ShaperRead(s) = cluster.shaper

\* The functions that read return the registers of their number.
LEMMA SchedulerReads ==
  ASSUME NEW s \in Scheds
  PROVE  SchedRead(s) = scheduler_config[s] /\ SchedRead(s)' = scheduler_config'[s]
BY TmAssumption DEF Scheds, MAX_TM_L1_L2_SCHED_NUM, SchedRead, L2SchedRead, L1SchedRead,
   L2Register, L1Register

LEMMA ShaperReads ==
  ASSUME NEW s \in 0 .. MAX_TM_SCHED_NUM
  PROVE  ShaperRead(s) = shaper_reg[s] /\ ShaperRead(s)' = shaper_reg'[s]
BY TmAssumption DEF MAX_TM_SCHED_NUM, TM_L0_SCHED_NUM, ShaperRead, L2ShaperRead,
   L1ShaperRead, L0ShaperRead, L2Register, L1Register

\* A number that is served is far from the largest one.
LEMMA TurnCountsUp ==
  ASSUME TypeOK, NEW f \in Functions, NEW max \in Nat, max + 1 < UIntMod, Turn(f, max)
  PROVE  num' = num + 1 /\ num \in 0 .. max /\ UNCHANGED cluster
BY TmAssumption DEF Turn, TypeOK

\* What the invariant says beyond types.
Written == Registers /\ CountsUp /\ WeightsAhead /\ SchedulersReadBack /\ ShapersReadBack

\* Steps that write no register of a scheduler or shaper and begin a range, if they do.
LEMMA QuietStep ==
  ASSUME Written, UNCHANGED <<sched_regs, shaper_reg>>, pc' # "l0",
         \A f \in Functions : pc' = LoopOf[f] =>
           cluster'.in_use /\ cluster'.start \in Nat /\ num' = cluster'.start
  PROVE  Written'
<1>1. Registers' /\ WeightsAhead'
  BY DEF Written, Registers, WeightsAhead, sched_regs
<1>2. CountsUp'
  BY DEF CountsUp, LoopOf
<1>3. \A f \in Functions, n \in Nat : ~Served(f, n)'
  BY DEF Served
<1>4. Scheds \subseteq Nat /\ 0 .. MAX_TM_SCHED_NUM \subseteq Nat
  BY DEF Scheds
<1>5. SchedulersReadBack'
  BY <1>3, <1>4 DEF SchedulersReadBack
<1>6. ShapersReadBack'
  BY <1>3, <1>4 DEF ShapersReadBack
<1> QED BY <1>1, <1>2, <1>5, <1>6 DEF Written

\* Writing the weight of n leaves that of every other scheduler.
LEMMA WeightOfOther ==
  ASSUME Written, ConfigScheduler, NEW n, n = num, n \in Scheds, NEW s \in Scheds, s # n
  PROVE  WeightRead(s)' = WeightRead(s)
<1>1. n \in Nat /\ s \in Nat /\ NUM_L2_SCHEDS \in Nat
  BY TmAssumption DEF Scheds
<1>2. n >= NUM_L2_SCHEDS => n - NUM_L2_SCHEDS \in Nat
  BY <1>1
<1>3. (n >= NUM_L2_SCHEDS /\ s >= NUM_L2_SCHEDS) => s - NUM_L2_SCHEDS # n - NUM_L2_SCHEDS
  BY <1>1
<1>4. s >= NUM_L2_SCHEDS => s - NUM_L2_SCHEDS \in L1
  BY <1>1, TmAssumption DEF Scheds, L1, MAX_TM_L1_L2_SCHED_NUM
<1>5. s < NUM_L2_SCHEDS => s \in L2
  BY <1>1 DEF L2
<1>6. DOMAIN l1_weight = L1 /\ DOMAIN l2_weight = L2
  BY DEF Written, Registers
<1>7. CASE ~cluster.dwrrenable
  BY <1>7 DEF ConfigScheduler, WeightRead, L2WeightRead, L1WeightRead
<1>8. CASE cluster.dwrrenable /\ n < NUM_L2_SCHEDS
  <2>1. l2_weight' = [l2_weight EXCEPT ![n] = cluster.weight] /\ l1_weight' = l1_weight
    BY <1>1, <1>8 DEF ConfigScheduler, L2WeightWrite
  <2>2. s < NUM_L2_SCHEDS => l2_weight'[s] = l2_weight[s]
    BY <2>1, <1>5, <1>6
  <2> QED BY <2>1, <2>2 DEF WeightRead, L2WeightRead, L1WeightRead
<1>9. CASE cluster.dwrrenable /\ n >= NUM_L2_SCHEDS
  <2> DEFINE k == n - NUM_L2_SCHEDS
             j == s - NUM_L2_SCHEDS
  <2>1. l1_weight' = [l1_weight EXCEPT ![k] = cluster.weight] /\ l2_weight' = l2_weight
    BY <1>1, <1>9 DEF ConfigScheduler, L1WeightWrite
  <2>2. s >= NUM_L2_SCHEDS => l1_weight'[j] = l1_weight[j]
    <3> HIDE DEF k, j
    <3>1. s >= NUM_L2_SCHEDS => j # k /\ j \in L1
      BY <1>3, <1>4, <1>9 DEF k, j
    <3> QED BY <2>1, <3>1, <1>6
  <2>3. ~(s < NUM_L2_SCHEDS) => s >= NUM_L2_SCHEDS
    BY <1>1
  <2> QED BY <2>1, <2>2, <2>3 DEF WeightRead, L2WeightRead, L1WeightRead
<1> QED BY <1>1, <1>7, <1>8, <1>9

LEMMA WeightOfServed ==
  ASSUME Written, ConfigScheduler, cluster.dwrrenable, NEW n, n = num, n \in Scheds
  PROVE  WeightRead(n)' = cluster.weight
<1>1. n \in Nat /\ NUM_L2_SCHEDS \in Nat
  BY TmAssumption DEF Scheds
<1>2. DOMAIN l1_weight = L1 /\ DOMAIN l2_weight = L2
  BY DEF Written, Registers
<1>3. CASE n < NUM_L2_SCHEDS
  <2>1. l2_weight' = [l2_weight EXCEPT ![n] = cluster.weight] /\ n \in L2
    BY <1>1, <1>3 DEF ConfigScheduler, L2WeightWrite, L2
  <2> QED BY <1>2, <1>3, <2>1 DEF WeightRead, L2WeightRead
<1>4. CASE n >= NUM_L2_SCHEDS
  <2>1. n - NUM_L2_SCHEDS \in L1
    BY <1>4, TmAssumption DEF Scheds, L1, MAX_TM_L1_L2_SCHED_NUM
  <2>2. l1_weight' = [l1_weight EXCEPT ![n - NUM_L2_SCHEDS] = cluster.weight]
    BY <1>1, <1>4 DEF ConfigScheduler, L1WeightWrite
  <2>3. l1_weight'[n - NUM_L2_SCHEDS] = cluster.weight
    BY <1>2, <2>1, <2>2
  <2>4. ~(n < NUM_L2_SCHEDS)
    BY <1>1, <1>4
  <2> QED BY <2>3, <2>4 DEF WeightRead, L1WeightRead
<1> QED BY <1>1, <1>3, <1>4

LEMMA SchedulerStep ==
  ASSUME TypeOK, Written, ConfigScheduler
  PROVE  Written'
<1> DEFINE max == MAX_TM_L1_L2_SCHED_NUM
<1>1. PICK n : n = num
  OBVIOUS
<1>2. max \in Nat /\ max + 1 < UIntMod
  BY TmAssumption DEF MAX_TM_L1_L2_SCHED_NUM
<1>3. num' = n + 1 /\ n \in 0 .. max /\ UNCHANGED cluster
  BY <1>1, <1>2, TurnCountsUp DEF ConfigScheduler
<1>4. pc = "sched" /\ UNCHANGED <<pc, shaper_reg, l0_weight>>
  BY Labels DEF ConfigScheduler, Turn
<1>5. PICK config : /\ cluster.dwrrenable => config = cluster.config
                    /\ scheduler_config' = [scheduler_config EXCEPT ![n] = config]
  BY <1>1, <1>3, TmAssumption DEF ConfigScheduler, L2SchedWrite, L1SchedWrite,
     L2Register, L1Register, MAX_TM_L1_L2_SCHED_NUM
<1>6. Registers'
  <2>1. DOMAIN l2_weight' = L2 /\ DOMAIN l1_weight' = L1
    BY DEF ConfigScheduler, Written, Registers, L2WeightWrite, L1WeightWrite
  <2> QED BY <2>1, <1>4, <1>5 DEF Written, Registers
<1>7. CountsUp'
  BY <1>1, <1>3, <1>4, Labels DEF Written, CountsUp, TypeOK
<1>8. WeightsAhead' /\ ShapersReadBack'
  BY <1>4, Labels DEF WeightsAhead, ShapersReadBack, Served
<1>9. SchedulersReadBack'
  <2> SUFFICES ASSUME NEW s \in Scheds, Served("schedulers", s)', cluster.dwrrenable
               PROVE  SchedRead(s)' = cluster.config /\ WeightRead(s)' = cluster.weight
    BY <1>3 DEF SchedulersReadBack
  <2>1. s \in cluster.start .. n /\ s \in 0 .. TM_L0_SCHED_NUM
    BY <1>1, <1>3, <1>4, Labels, TmAssumption DEF Served, Written, CountsUp, Scheds,
       MAX_TM_L1_L2_SCHED_NUM, TM_L0_SCHED_NUM
  <2>2. CASE s = n
    <3>1. SchedRead(s)' = cluster.config
      BY <2>1, <2>2, <1>5, SchedulerReads DEF Written, Registers
    <3>2. WeightRead(s)' = cluster.weight
      BY <2>2, <1>1, <1>3, WeightOfServed DEF Scheds
    <3> QED BY <3>1, <3>2
  <2>3. CASE s # n
    <3>1. Served("schedulers", s)
      BY <2>1, <2>3, <1>1, <1>3, <1>4, Labels DEF Served, Written, CountsUp
    <3>2. SchedRead(s) = cluster.config /\ WeightRead(s) = cluster.weight
      BY <3>1 DEF Written, SchedulersReadBack
    <3>3. SchedRead(s)' = SchedRead(s)
      BY <2>1, <2>3, <1>5, SchedulerReads DEF Written, Registers
    <3>4. WeightRead(s)' = WeightRead(s)
      BY <2>3, <1>1, <1>3, WeightOfOther DEF Scheds
    <3> QED BY <3>2, <3>3, <3>4
  <2> QED BY <2>2, <2>3
<1> QED BY <1>6, <1>7, <1>8, <1>9 DEF Written

LEMMA ShaperStep ==
  ASSUME TypeOK, Written, ConfigShaper
  PROVE  Written'
<1> DEFINE max == MAX_TM_SCHED_NUM
<1>1. PICK n : n = num
  OBVIOUS
<1>2. max \in Nat /\ max + 1 < UIntMod
  BY TmAssumption DEF MAX_TM_SCHED_NUM, TM_L0_SCHED_NUM
<1>3. num' = n + 1 /\ n \in 0 .. max /\ UNCHANGED cluster
  BY <1>1, <1>2, TurnCountsUp DEF ConfigShaper
<1>4. pc = "shaper" /\ UNCHANGED <<pc, sched_regs>>
  BY Labels DEF ConfigShaper, Turn
\* The last shaper of L1 is the one that is taken for another.
<1>5. PICK m : /\ shaper_reg' = [shaper_reg EXCEPT ![m] = cluster.shaper]
               /\ \/ m = n
                  \/ n = MAX_TM_L1_L2_SCHED_NUM /\ m = TM_L0_SCHED_NUM
                  \/ n = TM_L0_SCHED_NUM /\ m = TM_L0_SCHED_NUM
  <2>1. n \in Nat /\ (n - NUM_L2_SCHEDS) + NUM_L2_SCHEDS = n
    BY <1>3, TmAssumption
  <2>2. CASE n < NUM_L2_SCHEDS
    <3>1. shaper_reg' = [shaper_reg EXCEPT ![n] = cluster.shaper]
      BY <1>1, <2>1, <2>2, TmAssumption DEF ConfigShaper, L2ShaperWrite, L2Register
    <3> QED BY <3>1
  <2>3. CASE n >= NUM_L2_SCHEDS /\ n < MAX_TM_L1_L2_SCHED_NUM
    <3>1. shaper_reg' = [shaper_reg EXCEPT ![(n - NUM_L2_SCHEDS) + NUM_L2_SCHEDS]
                           = cluster.shaper]
      BY <1>1, <2>1, <2>3, TmAssumption DEF ConfigShaper, L1ShaperWrite, L1Register,
         MAX_TM_L1_L2_SCHED_NUM
    <3> QED BY <3>1, <2>1
  <2>4. CASE n >= NUM_L2_SCHEDS /\ n >= MAX_TM_L1_L2_SCHED_NUM
    <3>1. shaper_reg' = [shaper_reg EXCEPT ![TM_L0_SCHED_NUM] = cluster.shaper]
      BY <1>1, <2>1, <2>4, TmAssumption DEF ConfigShaper, L0ShaperWrite,
         MAX_TM_L1_L2_SCHED_NUM
    <3>2. n = MAX_TM_L1_L2_SCHED_NUM \/ n = TM_L0_SCHED_NUM
      BY <1>3, <2>4, TmAssumption DEF MAX_TM_L1_L2_SCHED_NUM, MAX_TM_SCHED_NUM,
         TM_L0_SCHED_NUM
    <3> QED BY <3>1, <3>2
  <2> QED BY <2>1, <2>2, <2>3, <2>4, TmAssumption DEF MAX_TM_L1_L2_SCHED_NUM
<1>6. Registers'
  BY <1>4, <1>5 DEF Written, Registers, sched_regs
<1>7. CountsUp'
  BY <1>1, <1>3, <1>4, Labels DEF Written, CountsUp, TypeOK
<1>8. WeightsAhead' /\ SchedulersReadBack'
  BY <1>4, Labels DEF WeightsAhead, SchedulersReadBack, Served
<1>9. ShapersReadBack'
  <2> SUFFICES ASSUME NEW s \in 0 .. max, Served("shapers", s)',
                      s # MAX_TM_L1_L2_SCHED_NUM
               PROVE  ShaperRead(s)' = cluster.shaper
    BY <1>3 DEF ShapersReadBack
  <2>1. s \in cluster.start .. n
    BY <1>1, <1>3, <1>4, Labels DEF Served, Written, CountsUp
  <2>2. CASE s = n
    BY <2>2, <1>5, ShaperReads DEF Written, Registers
  <2>3. CASE s # n
    <3>1. Served("shapers", s)
      BY <2>1, <2>3, <1>1, <1>3, <1>4, Labels DEF Served, Written, CountsUp
    <3>2. ShaperRead(s) = cluster.shaper
      BY <3>1 DEF Written, ShapersReadBack
    <3>3. s # m
      BY <2>1, <2>3, <1>3, <1>5, TmAssumption DEF MAX_TM_L1_L2_SCHED_NUM, TM_L0_SCHED_NUM,
         Written, CountsUp
    <3>4. ShaperRead(s)' = ShaperRead(s)
      BY <3>3, <1>5, ShaperReads DEF Written, Registers
    <3> QED BY <3>2, <3>4
  <2> QED BY <2>2, <2>3
<1> QED BY <1>6, <1>7, <1>8, <1>9 DEF Written

\* Queues have registers of their own.
LEMMA QueueStep ==
  ASSUME TypeOK, Written, ConfigQueue
  PROVE  Written'
<1>1. MAX_TM_QUEUE_NUM \in Nat /\ MAX_TM_QUEUE_NUM + 1 < UIntMod
  BY TmAssumption
<1>2. num' = num + 1 /\ num \in Nat /\ UNCHANGED cluster
  BY <1>1, TurnCountsUp DEF ConfigQueue
<1>3. pc = "qnum" /\ UNCHANGED <<pc, sched_regs, shaper_reg>>
  BY Labels DEF ConfigQueue, Turn
<1>4. Registers'
  BY <1>3 DEF Written, Registers, sched_regs
<1>5. CountsUp'
  BY <1>2, <1>3 DEF Written, CountsUp
<1>6. WeightsAhead' /\ SchedulersReadBack' /\ ShapersReadBack'
  BY <1>3, Labels DEF WeightsAhead, SchedulersReadBack, ShapersReadBack, Served
<1> QED BY <1>4, <1>5, <1>6 DEF Written

\* No inner loop runs while L0 is configured.
LEMMA CallL0Step ==
  ASSUME Written, CallL0
  PROVE  Written'
<1>1. CASE pc' = "idle"
  BY <1>1, QuietStep, Labels DEF CallL0, regs
<1>2. CASE pc' = "l0"
  <2>1. UNCHANGED <<scheduler_config, shaper_reg, l2_weight, l1_weight, l0_weight>>
    BY DEF CallL0, regs, sched_regs
  <2>2. Registers'
    BY <2>1 DEF Written, Registers
  <2>3. (CountsUp /\ SchedulersReadBack /\ ShapersReadBack)'
    BY <1>2, Labels DEF CountsUp, SchedulersReadBack, ShapersReadBack, Served
  <2>4. WeightsAhead'
    <3> SUFFICES ASSUME cluster'.dwrrenable
                 PROVE  /\ num' % CMD_BURST_SZ = 0 /\ num' <= L0_SCHEDULER_INPUTS
                        /\ num' < L0_SCHEDULER_INPUTS => burst' = BurstAt(cluster, num)'
                        /\ \A n \in 0 .. num' - 1 : l0_weight'[n] = cluster'.weight[n]
      BY DEF WeightsAhead
    <3>1. num' = 0 /\ burst' = BurstAt(cluster', 0)
      BY DEF CallL0
    <3>2. BurstAt(cluster, num)' = BurstAt(cluster', 0)
      BY <3>1 DEF BurstAt
    <3> QED BY <3>1, <3>2, TmAssumption
  <2> QED BY <2>2, <2>3, <2>4 DEF Written
<1> QED BY <1>1, <1>2 DEF CallL0, Return

\* Whole bursts: one that begins before the last input ends there at the latest.
LEMMA BurstEnds ==
  ASSUME NEW n \in Nat, n % CMD_BURST_SZ = 0, n < L0_SCHEDULER_INPUTS
  PROVE  /\ n + CMD_BURST_SZ <= L0_SCHEDULER_INPUTS
         /\ (n + CMD_BURST_SZ) % CMD_BURST_SZ = 0
<1> DEFINE sz == CMD_BURST_SZ
           total == L0_SCHEDULER_INPUTS
           a == n \div sz
           b == total \div sz
<1>1. sz \in Nat \ {0} /\ total \in Nat /\ total % sz = 0
  BY TmAssumption
<1>2. a \in Nat /\ b \in Nat /\ n = sz * a /\ total = sz * b
  BY <1>1
<1>3. a < b
  BY <1>1, <1>2
<1>4. sz * (a + 1) <= sz * b
  BY <1>1, <1>2, <1>3
<1>5. n + sz = sz * (a + 1)
  BY <1>1, <1>2
<1>6. (sz * (a + 1)) % sz = 0
  BY <1>1, <1>2
<1> QED BY <1>1, <1>2, <1>4, <1>5, <1>6

LEMMA WeightsStep ==
  ASSUME TypeOK, Written, WriteL0Weights
  PROVE  Written'
<1>1. pc = "l0" /\ pc' = "l0" /\ num < L0_SCHEDULER_INPUTS /\ num' = num + CMD_BURST_SZ
      /\ num \in Nat
      /\ UNCHANGED <<cluster, scheduler_config, shaper_reg, l2_weight, l1_weight>>
  BY DEF WriteL0Weights, TypeOK
<1>2. Registers'
  BY <1>1 DEF WriteL0Weights, L0WeightWrite, Written, Registers
<1>3. (CountsUp /\ SchedulersReadBack /\ ShapersReadBack)'
  BY <1>1, Labels DEF CountsUp, SchedulersReadBack, ShapersReadBack, Served
<1>4. WeightsAhead'
  <2> SUFFICES ASSUME cluster.dwrrenable
               PROVE  /\ num' % CMD_BURST_SZ = 0 /\ num' <= L0_SCHEDULER_INPUTS
                      /\ num' < L0_SCHEDULER_INPUTS => burst' = BurstAt(cluster, num)'
                      /\ \A n \in 0 .. num' - 1 : l0_weight'[n] = cluster.weight[n]
    BY <1>1 DEF WeightsAhead
  <2>1. /\ num % CMD_BURST_SZ = 0 /\ burst = BurstAt(cluster, num)
        /\ \A n \in 0 .. num - 1 : l0_weight[n] = cluster.weight[n]
    BY <1>1 DEF Written, WeightsAhead
  <2>2. num' % CMD_BURST_SZ = 0 /\ num' <= L0_SCHEDULER_INPUTS
    BY <1>1, <2>1, BurstEnds
  <2>3. num' < L0_SCHEDULER_INPUTS => burst' = BurstAt(cluster, num)'
    BY <1>1 DEF WriteL0Weights, BurstAt
  <2>4. ASSUME NEW n \in 0 .. num' - 1
        PROVE  l0_weight'[n] = cluster.weight[n]
    <3>1. n \in 0 .. L0_SCHEDULER_INPUTS - 1 /\ n \in Nat
      BY <1>1, <2>2, TmAssumption
    <3>2. l0_weight'[n] = IF n \in num .. num + CMD_BURST_SZ - 1
                          THEN burst[n - num] ELSE l0_weight[n]
      BY <3>1 DEF WriteL0Weights, L0WeightWrite, Written, Registers
    <3>3. CASE n < num
      BY <1>1, <2>1, <3>1, <3>2, <3>3, TmAssumption
    <3>4. CASE n >= num
      <4> DEFINE j == n - num
      <4>1. j \in 0 .. CMD_BURST_SZ - 1 /\ num + j = n
        BY <1>1, <3>1, <3>4, TmAssumption
      <4>2. l0_weight'[n] = burst[j]
        BY <1>1, <3>1, <3>2, <3>4, TmAssumption
      <4>3. burst[j] = cluster.weight[num + j]
        BY <2>1, <4>1 DEF BurstAt
      <4> QED BY <4>1, <4>2, <4>3
    <3> QED BY <1>1, <3>1, <3>3, <3>4
  <2> QED BY <2>2, <2>3, <2>4
<1> QED BY <1>2, <1>3, <1>4 DEF Written

\* The register of L0 is behind those the other loops count through.
LEMMA ConfigL0Step ==
  ASSUME Written, ConfigL0
  PROVE  Written'
<1>1. pc' = "idle" /\ UNCHANGED <<shaper_reg, l2_weight, l1_weight, l0_weight>>
  BY DEF ConfigL0, Return
<1>2. Registers'
  BY <1>1 DEF ConfigL0, L0SchedWrite, Written, Registers
<1> QED BY <1>1, <1>2, Labels DEF Written, CountsUp, WeightsAhead, SchedulersReadBack,
   ShapersReadBack, Served

LEMMA WrittenInit == Init => Written
BY TmAssumption, Labels DEF Init, Written, Registers, CountsUp, WeightsAhead,
   SchedulersReadBack, ShapersReadBack, Served, MAX_TM_SCHED_NUM

\* The other steps.
LEMMA CallWritten ==
  ASSUME Written, NEW f \in Functions, Call(f)
  PROVE  Written'
<1>1. UNCHANGED <<sched_regs, shaper_reg>> /\ pc' \in Functions
  BY DEF Call, regs
<1> QED BY <1>1, QuietStep, Labels

LEMMA NextClusterGoes ==
  ASSUME NEW f \in Functions, NEW c, NextCluster(f, c)
  PROVE  pc' \in {"idle"} \cup Functions
BY DEF NextCluster, Return

LEMMA ReadWritten ==
  ASSUME Written, NEW f \in Functions, ReadCluster(f)
  PROVE  Written'
<1>1. UNCHANGED <<sched_regs, shaper_reg>>
  BY DEF ReadCluster, regs
<1>2. PICK c \in ClustersOf[f] :
        /\ cluster' = c /\ num' = c.start
        /\ \/ ~c.in_use /\ NextCluster(f, c)
           \/ c.in_use /\ TooSmall(f, c) /\ Return(-1) /\ i' = i
           \/ c.in_use /\ ~TooSmall(f, c) /\ pc' = LoopOf[f] /\ UNCHANGED <<i, ret>>
  BY DEF ReadCluster
<1>3. c.start \in Nat
  BY StartIsNat
<1>4. pc' \in {"idle"} \cup Functions \/ (c.in_use /\ pc' = LoopOf[f])
  BY <1>2, NextClusterGoes DEF Return
<1> QED BY <1>1, <1>2, <1>3, <1>4, QuietStep, Labels

LEMMA EndWritten ==
  ASSUME Written, NEW f \in Functions, EndOfRange(f)
  PROVE  Written'
<1>1. UNCHANGED <<sched_regs, shaper_reg>>
  BY DEF EndOfRange, regs
<1>2. pc' \in {"idle"} \cup Functions
  BY NextClusterGoes DEF EndOfRange
<1> QED BY <1>1, <1>2, QuietStep, Labels

LEMMA ReturnWritten ==
  ASSUME Written, UNCHANGED <<sched_regs, shaper_reg>>, pc' = "idle"
  PROVE  Written'
BY QuietStep, Labels

LEMMA StutterWritten ==
  ASSUME Written, UNCHANGED vars
  PROVE  Written'
<1>1. UNCHANGED <<scheduler_config, l2_weight, l1_weight, l0_weight, shaper_reg, pc,
                  cluster, num, burst>>
  BY DEF vars, regs, sched_regs
<1> QED BY <1>1 DEF Written, Registers, CountsUp, WeightsAhead, SchedulersReadBack,
   ShapersReadBack, Served, SchedRead, WeightRead, ShaperRead, BurstAt, L2SchedRead,
   L1SchedRead, L2WeightRead, L1WeightRead, L2ShaperRead, L1ShaperRead, L0ShaperRead

LEMMA WrittenStep ==
  ASSUME TypeOK, Written, [Next]_vars
  PROVE  Written'
<1>1. CASE \E f \in Functions : Call(f) \/ ReadCluster(f) \/ EndOfRange(f)
  BY <1>1, CallWritten, ReadWritten, EndWritten
<1>2. CASE CallL0 \/ WriteL0Weights \/ ConfigL0
  BY <1>2, CallL0Step, WeightsStep, ConfigL0Step
<1>3. CASE ConfigScheduler \/ ConfigShaper \/ ConfigQueue
  BY <1>3, SchedulerStep, ShaperStep, QueueStep
<1>4. ASSUME NEW f \in Functions, NEW max, OutOfRange(f, max)
      PROVE  Written'
  BY <1>4, ReturnWritten DEF OutOfRange, Return, regs
<1>5. CASE SramFull
  BY <1>5, ReturnWritten DEF SramFull, Return, regs
<1>6. CASE ConfigTm
  BY <1>6, ReturnWritten DEF ConfigTm, Return
<1>7. CASE UNCHANGED vars
  BY <1>7, StutterWritten
<1> QED BY <1>1, <1>2, <1>3, <1>4, <1>5, <1>6, <1>7 DEF Next, Body

LEMMA WrittenIsRange ==
  ASSUME TypeOK, Written
  PROVE  RangeConfigured
<1>1. pc = "l0" /\ cluster.dwrrenable =>
        \A n \in 0 .. num - 1 : L0WeightRead(0, num)[n] = cluster.weight[n]
  BY DEF Written, WeightsAhead, L0WeightRead, TypeOK
<1> QED BY <1>1 DEF Written, SchedulersReadBack, ShapersReadBack, RangeConfigured

(* However large the traffic manager and whatever the clusters say: what a *)
(* range configured reads back as its cluster says, and each weight of L0  *)
(* is the one of its input, although bursts are read ahead.                *)
THEOREM TmReadsBack == Spec => []RangeConfigured
<1>1. Spec => []Written
  <2>1. TypeOK /\ Written /\ [Next]_vars => Written'
    BY WrittenStep
  <2> QED BY <2>1, WrittenInit, TmTypes, PTL DEF Spec
<1> QED BY <1>1, TmTypes, WrittenIsRange, PTL

\* A number that is served is in the range of its cluster.
LEMMA TurnInRange ==
  ASSUME TypeOK, Written, NEW f \in Functions, NEW max, Turn(f, max)
  PROVE  InRange(num)
<1>1. cluster \in SchedClusters \cup ShaperClusters \cup QueueClusters
  BY Labels DEF Turn, TypeOK
<1>2. cluster.end \in Nat
  BY <1>1, ClustersAssumption, TmAssumption DEF ClusterAssumption, UInt
<1>3. cluster.in_use /\ cluster.start \in Nat /\ cluster.start <= num
  BY DEF Written, CountsUp, Turn
<1> QED BY <1>2, <1>3 DEF InRange, Turn, TypeOK

\* What OnlyNamedChange says of a step.
NamedStep ==
  /\ \A s \in Scheds : SchedRead(s)' # SchedRead(s) => pc = "sched" /\ InRange(s)
  /\ L0SchedRead' # L0SchedRead => pc = "l0"
  /\ \A q \in Queues : queue_config'[q] # queue_config[q] => pc = "qnum" /\ InRange(q)

LEMMA KeepsAll ==
  ASSUME UNCHANGED <<scheduler_config, queue_config>>
  PROVE  NamedStep
BY SchedulerReads DEF NamedStep, L0SchedRead

LEMMA NamedScheduler ==
  ASSUME TypeOK, Written, ConfigScheduler
  PROVE  NamedStep
<1>1. PICK n : n = num
  OBVIOUS
<1>2. n \in Nat /\ pc = "sched" /\ InRange(n) /\ UNCHANGED queue_config
  BY <1>1, TurnInRange, Labels DEF ConfigScheduler, Turn, TypeOK
<1>3. n <= MAX_TM_L1_L2_SCHED_NUM
  BY <1>1 DEF ConfigScheduler, Turn
<1>4. PICK config : scheduler_config' = [scheduler_config EXCEPT ![n] = config]
  <2>1. (n - NUM_L2_SCHEDS) + NUM_L2_SCHEDS = n
    BY <1>2, TmAssumption
  <2>2. PICK config : L2SchedWrite(n, config) \/ L1SchedWrite(n - NUM_L2_SCHEDS, config)
    BY <1>1 DEF ConfigScheduler
  <2> QED BY <2>1, <2>2 DEF L2SchedWrite, L1SchedWrite, L2Register, L1Register
<1>5. /\ TM_L0_SCHED_NUM # n /\ TM_L0_SCHED_NUM \in 0 .. TM_L0_SCHED_NUM
      /\ \A s \in Scheds : s \in 0 .. TM_L0_SCHED_NUM
  BY <1>2, <1>3, TmAssumption DEF MAX_TM_L1_L2_SCHED_NUM, TM_L0_SCHED_NUM, Scheds
<1>6. \A s \in 0 .. TM_L0_SCHED_NUM : s # n => scheduler_config'[s] = scheduler_config[s]
  BY <1>4 DEF Written, Registers
<1>7. \A s \in Scheds : SchedRead(s)' # SchedRead(s) => s = n
  BY <1>5, <1>6, SchedulerReads
<1>8. L0SchedRead' = L0SchedRead
  BY <1>5, <1>6 DEF L0SchedRead
<1>9. \A s \in Scheds : s = n => InRange(s)
  BY <1>2 DEF InRange
<1> QED BY <1>2, <1>7, <1>8, <1>9 DEF NamedStep

LEMMA NamedQueue ==
  ASSUME TypeOK, Written, ConfigQueue
  PROVE  NamedStep
<1>1. PICK n : n = num
  OBVIOUS
<1>2. pc = "qnum" /\ InRange(n) /\ UNCHANGED scheduler_config
  BY <1>1, TurnInRange, Labels DEF ConfigQueue, Turn, sched_regs
<1>3. \A q \in Queues : q # n => queue_config'[q] = queue_config[q]
  BY <1>1 DEF ConfigQueue, QueueWrite, TypeOK
<1> QED BY <1>2, <1>3, SchedulerReads DEF NamedStep, L0SchedRead

LEMMA NamedL0 ==
  ASSUME Written, ConfigL0
  PROVE  NamedStep
<1>1. pc = "l0" /\ UNCHANGED queue_config
  BY DEF ConfigL0
<1>2. \A s \in Scheds : s \in 0 .. TM_L0_SCHED_NUM /\ s # TM_L0_SCHED_NUM
  BY TmAssumption DEF MAX_TM_L1_L2_SCHED_NUM, TM_L0_SCHED_NUM, Scheds
<1>3. \A s \in Scheds : scheduler_config'[s] = scheduler_config[s]
  BY <1>2 DEF ConfigL0, L0SchedWrite, Written, Registers
<1> QED BY <1>1, <1>3, SchedulerReads DEF NamedStep

LEMMA EveryStepNamed ==
  ASSUME TypeOK, Written, [Next]_vars
  PROVE  NamedStep
<1>1. CASE ConfigScheduler \/ ConfigQueue \/ ConfigL0
  BY <1>1, NamedScheduler, NamedQueue, NamedL0
<1>2. CASE ConfigShaper \/ WriteL0Weights \/ CallL0 \/ ConfigTm \/ SramFull
  BY <1>2, KeepsAll DEF ConfigShaper, WriteL0Weights, CallL0, ConfigTm, SramFull, regs,
     sched_regs
<1>3. CASE \E f \in Functions : Call(f) \/ ReadCluster(f) \/ EndOfRange(f)
  BY <1>3, KeepsAll DEF Call, ReadCluster, EndOfRange, regs, sched_regs
<1>4. ASSUME NEW f \in Functions, NEW max, OutOfRange(f, max)
      PROVE  NamedStep
  BY <1>4, KeepsAll DEF OutOfRange, regs, sched_regs
<1>5. CASE UNCHANGED vars
  BY <1>5, KeepsAll DEF vars, regs, sched_regs
<1> QED BY <1>1, <1>2, <1>3, <1>4, <1>5 DEF Next, Body

(* However large the traffic manager and whatever the clusters say: no call *)
(* changes the configuration of a scheduler or queue that it does not name. *)
THEOREM TmOnlyNamed == Spec => OnlyNamedChange
<1>1. Spec => []Written
  <2>1. TypeOK /\ Written /\ [Next]_vars => Written'
    BY WrittenStep
  <2> QED BY <2>1, WrittenInit, TmTypes, PTL DEF Spec
<1>2. TypeOK /\ Written /\ [Next]_vars => NamedStep
  BY EveryStepNamed
<1>3. Spec => [][NamedStep]_vars
  BY <1>1, <1>2, TmTypes, PTL DEF Spec
<1> QED BY <1>3 DEF OnlyNamedChange, NamedStep
=============================================================================
