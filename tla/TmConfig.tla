------------------------------ MODULE TmConfig ------------------------------
(***************************************************************************)
(* Run-time configuration of one NBI's traffic manager: the functions of   *)
(* tm_config.h, which walk arrays of clusters in memory and write the      *)
(* registers of all schedulers, shapers or queues in the range of each.    *)
(* One call is served at a time.  A step is one turn of a loop: the        *)
(* commands of a turn are waited for together before the next.  What a     *)
(* cluster says is read from memory when its turn comes.                   *)
(***************************************************************************)
EXTENDS Integers

CONSTANTS
  NUM_L1_SCHEDS, NUM_L2_SCHEDS,      \* 16, 128
  L0_SCHEDULER_INPUTS, CMD_BURST_SZ, \* 128, 16
  MAX_TM_QUEUE_NUM,                  \* 1023
  HEAD_TAIL_SRAM_MAX,                \* 16384
  QUEUE_SIZE_MIN,                    \* 3
  MAX_CLUSTERS,                      \* TM_INIT_MAX_Q_CLUSTERS and its kin, 24
  UIntMod,                           \* 2^32
  SizeCodes, Entries,                \* values of queuesize; 1 << queuesize of each
  SchedClusters, ShaperClusters, QueueClusters, L0Schedulers, \* possible arguments
  MaxCalls                           \* bound: calls in a run

ASSUME TmAssumption ==
  /\ NUM_L1_SCHEDS \in Nat \ {0} /\ NUM_L2_SCHEDS \in Nat \ {0}
  /\ MAX_TM_QUEUE_NUM \in Nat /\ HEAD_TAIL_SRAM_MAX \in Nat /\ QUEUE_SIZE_MIN \in Nat
  /\ MAX_CLUSTERS \in Nat \ {0} /\ UIntMod \in Nat \ {0} /\ MaxCalls \in Nat
  /\ CMD_BURST_SZ \in Nat \ {0} /\ L0_SCHEDULER_INPUTS \in Nat
  /\ L0_SCHEDULER_INPUTS % CMD_BURST_SZ = 0
  /\ NUM_L2_SCHEDS + NUM_L1_SCHEDS + 1 < UIntMod /\ MAX_TM_QUEUE_NUM + 1 < UIntMod
  /\ SizeCodes \subseteq Nat /\ Entries \in [SizeCodes -> Nat \ {0}]

MAX_TM_L1_L2_SCHED_NUM == NUM_L2_SCHEDS + NUM_L1_SCHEDS - 1   \* 143
TM_L0_SCHED_NUM        == NUM_L2_SCHEDS + NUM_L1_SCHEDS       \* 144
MAX_TM_SCHED_NUM       == TM_L0_SCHED_NUM

UInt == 0 .. UIntMod - 1

\* Every range has these fields; value is what is written, weight for DWRR.
ClusterAssumption == \A c \in SchedClusters \cup ShaperClusters \cup QueueClusters :
  /\ c.in_use \in BOOLEAN /\ c.last \in BOOLEAN
  /\ c.start \in UInt /\ c.end \in UInt

QueueAssumption == \A c \in QueueClusters : c.queuesize \in SizeCodes
ASSUME ClustersAssumption == ClusterAssumption /\ QueueAssumption

VARIABLES
  scheduler_config,  \* registers, of L2, then of L1, then of L0
  l2_weight,         \* by scheduler (of its eight inputs, as one value)
  l1_weight,
  l0_weight,         \* of L0, by input
  shaper_reg,        \* rate, threshold, overshoot and adjust; as scheduler_config
  queue_config,      \* by queue: its size code and the head of its region
  tm_config,         \* the register of the whole traffic manager
  pc,                \* idle; a function, between clusters; or its inner loop
  i, cluster,        \* number and contents of the cluster read last
  num,               \* sched, shaper, qnum, or the input of L0
  head_tail_sram,
  burst,             \* L0: weights read ahead
  ret,
  placed,            \* queues configured by the last call that names queues
  calls

sched_regs == <<scheduler_config, l2_weight, l1_weight, l0_weight>>
regs == <<sched_regs, shaper_reg, queue_config, tm_config>>
vars == <<regs, pc, i, cluster, num, head_tail_sram, burst, ret, placed, calls>>

Unset == "unset"
NoCluster == [in_use |-> FALSE]

Scheds  == 0 .. MAX_TM_L1_L2_SCHED_NUM
L2      == 0 .. NUM_L2_SCHEDS - 1
L1      == 0 .. NUM_L1_SCHEDS - 1
Queues  == 0 .. MAX_TM_QUEUE_NUM
NoQueue == [queuesize |-> 0, head |-> 0]

\* Each function, its clusters and the label of its inner loop.
Functions == {"schedulers", "shapers", "queues"}
ClustersOf == [schedulers |-> SchedClusters, shapers |-> ShaperClusters,
               queues |-> QueueClusters]
LoopOf == [schedulers |-> "sched", shapers |-> "shaper", queues |-> "qnum"]

Init ==
  /\ scheduler_config = [s \in 0 .. TM_L0_SCHED_NUM |-> Unset]
  /\ l2_weight = [s \in L2 |-> Unset] /\ l1_weight = [s \in L1 |-> Unset]
  /\ l0_weight = [n \in 0 .. L0_SCHEDULER_INPUTS - 1 |-> Unset]
  /\ shaper_reg = [s \in 0 .. MAX_TM_SCHED_NUM |-> Unset]
  /\ queue_config = [q \in Queues |-> NoQueue] /\ tm_config = Unset
  /\ pc = "idle" /\ i = 0 /\ cluster = NoCluster /\ num = 0
  /\ head_tail_sram = 0 /\ burst = <<>> /\ placed = {}
  /\ ret = 0 /\ calls = 0

Return(r) == pc' = "idle" /\ ret' = r

\* A call for an NBI that exists; the others return -1 at once.
Call(f) ==
  /\ pc = "idle" /\ calls < MaxCalls
  /\ calls' = calls + 1
  /\ pc' = f /\ i' = 0 /\ head_tail_sram' = 0
  /\ placed' = IF f = "queues" THEN {} ELSE placed
  /\ UNCHANGED <<regs, cluster, num, burst, ret>>

\* Faulty variant: the number of the cluster is not increased.
NextClusterSame(f, c) ==
  IF c.last \/ i + 1 = MAX_CLUSTERS
  THEN Return(0) /\ i' = i
  ELSE pc' = f /\ UNCHANGED <<i, ret>>

\* The end of a turn of the outer loop.
NextCluster(f, c) ==
  IF c.last \/ i + 1 = MAX_CLUSTERS
  THEN Return(0) /\ i' = i
  ELSE pc' = f /\ i' = i + 1 /\ UNCHANGED ret

TooSmall(f, c) == f = "queues" /\ c.queuesize < QUEUE_SIZE_MIN

ReadCluster(f) ==
  /\ pc = f
  /\ \E c \in ClustersOf[f] :
       /\ cluster' = c /\ num' = c.start
       /\ \/ ~c.in_use /\ NextCluster(f, c)
          \/ c.in_use /\ TooSmall(f, c) /\ Return(-1) /\ i' = i
          \/ c.in_use /\ ~TooSmall(f, c) /\ pc' = LoopOf[f] /\ UNCHANGED <<i, ret>>
  /\ UNCHANGED <<regs, head_tail_sram, burst, placed, calls>>

EndOfRange(f) ==
  /\ pc = LoopOf[f] /\ num > cluster.end
  /\ NextCluster(f, cluster)
  /\ UNCHANGED <<regs, cluster, num, head_tail_sram, burst, placed, calls>>

\* A number of the range is beyond the last one there is.
OutOfRange(f, max) ==
  /\ pc = LoopOf[f] /\ num <= cluster.end /\ num > max
  /\ Return(-1)
  /\ UNCHANGED <<regs, i, cluster, num, head_tail_sram, burst, placed, calls>>

\* Faulty variant: nothing stops a range that runs past the last number.
TurnUnchecked(f, max) ==
  /\ pc = LoopOf[f] /\ num <= cluster.end
  /\ num' = (num + 1) % UIntMod
  /\ UNCHANGED <<i, cluster, burst, calls>>

\* An inner loop goes on to the next number, an unsigned one.
Turn(f, max) ==
  /\ pc = LoopOf[f] /\ num <= cluster.end /\ num <= max
  /\ num' = (num + 1) % UIntMod
  /\ UNCHANGED <<i, cluster, burst, calls>>

-----------------------------------------------------------------------------
(* The registers.  Those of L2 and L1 share a row; each function takes the  *)
(* number of a scheduler within its level.  The functions that read take   *)
(* how many to read and return them in order.                              *)
L2Register(n) == n
\* Faulty variant: the schedulers of L1 are numbered from 0 in the row, too.
L1RegisterFromZero(n) == n
L1Register(n) == n + NUM_L2_SCHEDS

L2SchedWrite(n, config) ==
  scheduler_config' = [scheduler_config EXCEPT ![L2Register(n)] = config]
L1SchedWrite(n, config) ==
  scheduler_config' = [scheduler_config EXCEPT ![L1Register(n)] = config]
L0SchedWrite(config) ==
  scheduler_config' = [scheduler_config EXCEPT ![TM_L0_SCHED_NUM] = config]

L2WeightWrite(n, w) == l2_weight' = [l2_weight EXCEPT ![n] = w] /\ UNCHANGED l1_weight
L1WeightWrite(n, w) == l1_weight' = [l1_weight EXCEPT ![n] = w] /\ UNCHANGED l2_weight
L0WeightWrite(port, w) ==
  l0_weight' = [n \in DOMAIN l0_weight |->
    IF n \in port .. port + CMD_BURST_SZ - 1 THEN w[n - port] ELSE l0_weight[n]]

L2ShaperWrite(n, v) == shaper_reg' = [shaper_reg EXCEPT ![L2Register(n)] = v]
L1ShaperWrite(n, v) == shaper_reg' = [shaper_reg EXCEPT ![L1Register(n)] = v]
L0ShaperWrite(v)    == shaper_reg' = [shaper_reg EXCEPT ![TM_L0_SCHED_NUM] = v]

QueueWrite(q, code, head) ==
  queue_config' = [queue_config EXCEPT ![q] = [queuesize |-> code, head |-> head]]

L2SchedRead(n, k)   == [j \in 0 .. k - 1 |-> scheduler_config[L2Register(n + j)]]
L1SchedRead(n, k)   == [j \in 0 .. k - 1 |-> scheduler_config[L1Register(n + j)]]
L0SchedRead         == scheduler_config[TM_L0_SCHED_NUM]
L2WeightRead(n)     == l2_weight[n]
L1WeightRead(n)     == l1_weight[n]
L0WeightRead(p, k)  == [j \in 0 .. k - 1 |-> l0_weight[p + j]]
L2ShaperRead(n, k)  == [j \in 0 .. k - 1 |-> shaper_reg[L2Register(n + j)]]
L1ShaperRead(n, k)  == [j \in 0 .. k - 1 |-> shaper_reg[L1Register(n + j)]]
L0ShaperRead        == shaper_reg[TM_L0_SCHED_NUM]

\* What a transfer register that was not written may hold.
Leftover == {c.config : c \in SchedClusters} \cup {Unset}

(* nbi_tm_l1l2_scheduler_config__: the word for the configuration register *)
(* is set from the cluster for DWRR only, and written in either case.      *)
ConfigScheduler ==
  /\ Turn("schedulers", MAX_TM_L1_L2_SCHED_NUM)
  /\ \E sched_config_xw \in IF cluster.dwrrenable THEN {cluster.config} ELSE Leftover :
       \/ num < NUM_L2_SCHEDS /\ L2SchedWrite(num, sched_config_xw)
       \/ num >= NUM_L2_SCHEDS /\ L1SchedWrite(num - NUM_L2_SCHEDS, sched_config_xw)
  /\ \/ ~cluster.dwrrenable /\ UNCHANGED <<l2_weight, l1_weight>>
     \/ cluster.dwrrenable /\ num < NUM_L2_SCHEDS /\ L2WeightWrite(num, cluster.weight)
     \/ /\ cluster.dwrrenable /\ num >= NUM_L2_SCHEDS
        /\ L1WeightWrite(num - NUM_L2_SCHEDS, cluster.weight)
  /\ UNCHANGED <<l0_weight, shaper_reg, queue_config, tm_config, pc, head_tail_sram,
                 ret, placed>>

(* nbi_tm_shaper_config__: the last shaper of L1 is not below              *)
(* MAX_TM_L1_L2_SCHED_NUM and is taken for that of L0.                     *)
ConfigShaper ==
  /\ Turn("shapers", MAX_TM_SCHED_NUM)
  /\ \/ num < NUM_L2_SCHEDS /\ L2ShaperWrite(num, cluster.shaper)
     \/ /\ num >= NUM_L2_SCHEDS /\ num < MAX_TM_L1_L2_SCHED_NUM
        /\ L1ShaperWrite(num - NUM_L2_SCHEDS, cluster.shaper)
     \/ /\ num >= NUM_L2_SCHEDS /\ num >= MAX_TM_L1_L2_SCHED_NUM
        /\ L0ShaperWrite(cluster.shaper)
  /\ UNCHANGED <<sched_regs, queue_config, tm_config, pc, head_tail_sram, ret, placed>>

-----------------------------------------------------------------------------
\* Faulty variant: the multiple of the size below.
RoundDown(n, size) == (n \div size) * size

\* The next multiple of the size of a queue.
RoundUp(n, size) ==
  (n \div size + (IF n % size # 0 THEN 1 ELSE 0)) * size

\* A queue gets the region that begins at the next multiple of its size.
ConfigQueue ==
  LET size == Entries[cluster.queuesize]
      head == RoundUp(head_tail_sram, size) IN
  /\ Turn("queues", MAX_TM_QUEUE_NUM)
  /\ head + size <= HEAD_TAIL_SRAM_MAX
  /\ QueueWrite(num, cluster.queuesize, head)
  /\ placed' = placed \cup {num}
  /\ head_tail_sram' = head + size
  /\ UNCHANGED <<sched_regs, shaper_reg, tm_config, pc, ret>>

\* No room is left: the queues configured so far stay so.
SramFull ==
  LET size == Entries[cluster.queuesize]
      head == RoundUp(head_tail_sram, size) IN
  /\ pc = "qnum" /\ num <= cluster.end
  /\ head + size > HEAD_TAIL_SRAM_MAX
  /\ head_tail_sram' = head
  /\ Return(-1)
  /\ UNCHANGED <<regs, i, cluster, num, burst, placed, calls>>

-----------------------------------------------------------------------------
(* L0: its weights are written in bursts; the next ones are read while     *)
(* those of this burst are written.                                        *)
\* Faulty variant: reads the first burst every time.
BurstAtZero(l0_sched, n) == [j \in 0 .. CMD_BURST_SZ - 1 |-> l0_sched.weight[j]]

BurstAt(l0_sched, n) == [j \in 0 .. CMD_BURST_SZ - 1 |-> l0_sched.weight[n + j]]

CallL0 ==
  /\ pc = "idle" /\ calls < MaxCalls
  /\ calls' = calls + 1
  /\ \E l0_sched \in L0Schedulers :
       /\ cluster' = l0_sched
       /\ num' = IF l0_sched.dwrrenable THEN 0 ELSE L0_SCHEDULER_INPUTS
       /\ burst' = IF l0_sched.dwrrenable THEN BurstAt(l0_sched, 0) ELSE burst
       /\ \/ l0_sched.in_use /\ pc' = "l0" /\ UNCHANGED ret
          \/ ~l0_sched.in_use /\ Return(0)
  /\ UNCHANGED <<regs, i, head_tail_sram, placed>>

WriteL0Weights ==
  /\ pc = "l0" /\ num < L0_SCHEDULER_INPUTS
  /\ L0WeightWrite(num, burst)
  /\ num' = num + CMD_BURST_SZ
  /\ burst' = IF num + CMD_BURST_SZ < L0_SCHEDULER_INPUTS
              THEN BurstAt(cluster, num + CMD_BURST_SZ) ELSE burst
  /\ UNCHANGED <<scheduler_config, l2_weight, l1_weight, shaper_reg, queue_config,
                 tm_config, pc, i, cluster, head_tail_sram, ret, placed, calls>>

ConfigL0 ==
  /\ pc = "l0" /\ num >= L0_SCHEDULER_INPUTS
  /\ L0SchedWrite(cluster.config)
  /\ Return(0)
  /\ UNCHANGED <<l2_weight, l1_weight, l0_weight, shaper_reg, queue_config, tm_config,
                 i, cluster, num, head_tail_sram, burst, placed, calls>>

\* nfp_nbi_tm_config
ConfigTm ==
  /\ pc = "idle" /\ calls < MaxCalls
  /\ calls' = calls + 1
  /\ tm_config' = "written"
  /\ Return(0)
  /\ UNCHANGED <<sched_regs, shaper_reg, queue_config, i, cluster, num, head_tail_sram,
                 burst, placed>>

Body ==
  \/ \E f \in Functions : ReadCluster(f) \/ EndOfRange(f)
  \/ OutOfRange("schedulers", MAX_TM_L1_L2_SCHED_NUM) \/ ConfigScheduler
  \/ OutOfRange("shapers", MAX_TM_SCHED_NUM) \/ ConfigShaper
  \/ OutOfRange("queues", MAX_TM_QUEUE_NUM) \/ ConfigQueue \/ SramFull
  \/ WriteL0Weights \/ ConfigL0

Next == (\E f \in Functions : Call(f)) \/ CallL0 \/ ConfigTm \/ Body

Spec == Init /\ [][Next]_vars
FairSpec == Spec /\ WF_vars(Body)

-----------------------------------------------------------------------------
\* Registers and counters have their types, and an inner loop a cluster of its own.
TypeOK ==
  /\ pc \in {"idle", "l0"} \cup Functions \cup {LoopOf[f] : f \in Functions}
  /\ num \in Nat /\ head_tail_sram \in Nat /\ ret \in {0, -1}
  /\ \A f \in Functions : pc = LoopOf[f] => cluster \in ClustersOf[f]
  /\ placed \subseteq Queues
  /\ DOMAIN queue_config = Queues
  /\ \A q \in placed : queue_config[q] \in [queuesize : SizeCodes, head : Nat]

Size(q) == Entries[queue_config[q].queuesize]
Head(q) == queue_config[q].head

Aligned(q) == \E k \in 0 .. HEAD_TAIL_SRAM_MAX : Head(q) = k * Size(q)

Apart(p, q) ==
  Head(p) + Size(p) <= Head(q) \/ Head(q) + Size(q) <= Head(p)

(* "To prevent HEAD TAIL SRAM form overwriting the adjacent queue's", and  *)
(* "wrapping": whatever the order and the sizes, and also when the call    *)
(* gives up half way, the queues it configured have regions of their own,  *)
(* inside the memory, at multiples of their size.                          *)
RegionsOfCallApart ==
  /\ \A q \in placed : Aligned(q) /\ Head(q) + Size(q) <= HEAD_TAIL_SRAM_MAX
  /\ \A p, q \in placed : p # q => Apart(p, q)

\* In the inner loop f has served the numbers from the start of the range.
Served(f, n) == pc = LoopOf[f] /\ n \in cluster.start .. num - 1

\* What the functions that read return for scheduler or shaper s.
SchedRead(s) ==
  IF s < NUM_L2_SCHEDS THEN L2SchedRead(s, 1)[0] ELSE L1SchedRead(s - NUM_L2_SCHEDS, 1)[0]
WeightRead(s) ==
  IF s < NUM_L2_SCHEDS THEN L2WeightRead(s) ELSE L1WeightRead(s - NUM_L2_SCHEDS)
ShaperRead(s) ==
  IF s = TM_L0_SCHED_NUM THEN L0ShaperRead
  ELSE IF s < NUM_L2_SCHEDS THEN L2ShaperRead(s, 1)[0] ELSE L1ShaperRead(s - NUM_L2_SCHEDS, 1)[0]

(* "... and configures all the schedulers in the ranges found to be in     *)
(* use" (tm_config.h), which includes those that are not in DWRR mode.     *)
SchedulersConfigured ==
  \A s \in Scheds : Served("schedulers", s) => SchedRead(s) = cluster.config

(* What is true of it: schedulers in DWRR mode and all shapers but the     *)
(* last one of L1 read back as their cluster says, and so do the weights   *)
(* of L0, although each burst is read while the one before is written.     *)
RangeConfigured ==
  /\ \A s \in Scheds : Served("schedulers", s) /\ cluster.dwrrenable =>
       SchedRead(s) = cluster.config /\ WeightRead(s) = cluster.weight
  /\ \A s \in 0 .. MAX_TM_SCHED_NUM :
       Served("shapers", s) /\ s # MAX_TM_L1_L2_SCHED_NUM => ShaperRead(s) = cluster.shaper
  /\ pc = "l0" /\ cluster.dwrrenable =>
       \A n \in 0 .. num - 1 : L0WeightRead(0, num)[n] = cluster.weight[n]

InRange(n) == cluster.in_use /\ n \in cluster.start .. cluster.end

(* A partial reconfiguration touches nothing it does not name: a scheduler *)
(* or a queue changes only while a cluster with its number is served, and  *)
(* L0's only by its own function.                                          *)
OnlyNamedChange ==
  [][ /\ \A s \in Scheds : SchedRead(s)' # SchedRead(s) => pc = "sched" /\ InRange(s)
      /\ L0SchedRead' # L0SchedRead => pc = "l0"
      /\ \A q \in Queues : queue_config'[q] # queue_config[q] => pc = "qnum" /\ InRange(q)
    ]_vars

(* Every call returns, also for a range that ends at the largest unsigned  *)
(* number, where the loop's condition is always true.                      *)
CallsReturn == (pc # "idle") ~> (pc = "idle")
=============================================================================
