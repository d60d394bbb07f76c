------------------------------ MODULE RingFill ------------------------------
(***************************************************************************)
(* What context 0 of the Buffer List Manager leaves in memory before       *)
(* anything runs: the load-time macros of blm_main.uc that fill the buffer *)
(* lists of the DMA engine (in the BDSRAM they share) and the EMU rings,   *)
(* and write the descriptors that say where each begins and ends.  The     *)
(* macros are a program of their own, with loops and refusals (#error),    *)
(* over the numbers of blm_cfg.h.  Its result is where BLM begins.         *)
(*                                                                         *)
(* A buffer is its list, its region of memory and its offset there; the    *)
(* base of each allocation is left symbolic.  The two NBIs share the EMU   *)
(* rings (SPLIT_EMU_RINGS is not defined).                                 *)
(***************************************************************************)
EXTENDS Naturals, FiniteSetsExt, SequencesExt

CONSTANTS
  NBlqs,        \* BLQs of the NBI: 4
  BdsramSize,   \* entries of the BDSRAM: 4096
  Regions,      \* the memories buffers come from, in the order of the loop
  Unit,         \* what a MuAddr counts in: 2048 bytes
  Settings      \* what blm_cfg.h may say of a BLQ (see Setting)

VARIABLES
  cfg,      \* BLQ -> setting
  todo,     \* lists still to fill; the first is being filled
  step,     \* what happens to it: "check", "fill", "error"
  region,   \* index of _MEM_REGION_
  density,  \* DENSITY: what this turn of the region may still write
  left,     \* region -> buffers not yet written
  off,      \* region -> offset of the next
  slot,     \* R_OFF: where the next is written
  mem,      \* slots written -> address of a buffer
  blq_head, \* _BLQ_HEAD
  desc      \* lists that have a descriptor -> it

fill_vars == <<cfg, todo, step, region, density, left, off, slot, mem, blq_head, desc>>

Blqs == 0 .. NBlqs - 1

\* The length of the BLQ and of its EMU ring, the size of its buffers, how many
\* come from each region for either list, and how many in a row.
Setting ==
  [len : Nat \ {0}, size : Nat, bufsize : Nat \ {0}, blq : [DOMAIN Regions -> Nat],
   emu : [DOMAIN Regions -> Nat], density : [DOMAIN Regions -> Nat]]

(* The memories are different ones.                                        *)
ASSUME FillAssumption ==
  /\ NBlqs \in Nat /\ Unit \in Nat \ {0} /\ Settings \subseteq Setting
  /\ Len(Regions) \in Nat \ {0} /\ DOMAIN Regions = 1 .. Len(Regions)
  /\ \A r, s \in DOMAIN Regions : Regions[r] = Regions[s] => r = s

List(kind, b) == [kind |-> kind, blq |-> b]
Nums(l)    == cfg[l.blq][l.kind]
BufSize(l) == cfg[l.blq].bufsize
Size(l)    == IF l.kind = "blq" THEN cfg[l.blq].len ELSE cfg[l.blq].size
Total(nums) == SumFunction(nums)

\* Bytes allocated for a list in a region.
Allocated(l, r) == BufSize(l) * Nums(l)[r]

\* Where the lists before b end, as the parameters of the fill add it up.
BdsramOff(b) == SumFunctionOnSet([c \in Blqs |-> cfg[c].len], 0 .. b - 1)

Slot(l, i) == IF l.kind = "blq" THEN <<"bdsram", i>> ELSE <<"ring", l.blq, i>>
FirstSlot(l) == IF l.kind = "blq" THEN BdsramOff(l.blq) ELSE 0

\* #error: the lists of an NBI that exceed its BDSRAM, buffers that no MuAddr
\* can name.
CfgAccepted ==
  /\ BdsramOff(NBlqs) <= BdsramSize
  /\ \A b \in Blqs : cfg[b].bufsize % Unit = 0

\* #error: more buffers than entries, or a density that the loop cannot use.
FillAccepted(l) ==
  /\ Total(Nums(l)) <= Size(l)
  /\ \A r \in DOMAIN Nums(l) : Nums(l)[r] > 0 =>
       /\ cfg[l.blq].density[r] > 0
       /\ cfg[l.blq].density[r] <= Nums(l)[r]

\* DMA lists unless BLM_SKIP_DMA_INIT, rings if BLM_INIT_EMU_RINGS.
Lists(dma, rings) ==
  LET each(kind) == [i \in 1 .. NBlqs |-> List(kind, i - 1)]
  IN  (IF dma THEN each("blq") ELSE <<>>) \o (IF rings THEN each("emu") ELSE <<>>)

FillInit ==
  /\ cfg \in [Blqs -> Settings] /\ CfgAccepted
  /\ \E dma, rings \in BOOLEAN : todo = Lists(dma, rings)
  /\ step = "check" /\ region = 1 /\ density = 0 /\ slot = 0
  /\ left = [r \in DOMAIN Regions |-> 0] /\ off = left
  /\ mem = <<>> /\ desc = <<>> /\ blq_head = 0

\* Memory f, with v at x.
Stored(f, x, v) == [y \in DOMAIN f \cup {x} |-> IF y = x THEN v ELSE f[y]]

Begin ==
  /\ todo # <<>> /\ step = "check"
  /\ IF FillAccepted(Head(todo))
     THEN LET l == Head(todo) IN
          /\ step' = "fill" /\ region' = 1
          /\ density' = cfg[l.blq].density[1]
          /\ left' = Nums(l) /\ off' = [r \in DOMAIN Regions |-> 0]
          /\ slot' = FirstSlot(l)
     ELSE step' = "error" /\ UNCHANGED <<region, density, left, off, slot>>
  /\ UNCHANGED <<cfg, todo, mem, blq_head, desc>>

\* The address as the entry keeps it, in units.
MuAddr(l, r, o) == [list |-> l, region |-> Regions[r], addr |-> o \div Unit]

Write ==
  /\ step = "fill" /\ left[region] > 0 /\ density > 0
  /\ mem' = Stored(mem, Slot(Head(todo), slot), MuAddr(Head(todo), region, off[region]))
  /\ slot' = slot + 1
  /\ density' = density - 1
  /\ left' = [left EXCEPT ![region] = @ - 1]
  /\ off' = [off EXCEPT ![region] = @ + BufSize(Head(todo))]
  /\ UNCHANGED <<cfg, todo, step, region, blq_head, desc>>

\* The loop over the regions begins again while there are buffers left.
NextRegion ==
  /\ step = "fill" /\ Total(left) > 0 /\ (left[region] = 0 \/ density = 0)
  /\ region' = (region % Len(Regions)) + 1
  /\ density' = cfg[Head(todo).blq].density[region']
  /\ UNCHANGED <<cfg, todo, step, left, off, slot, mem, blq_head, desc>>

\* The head of a BLQ is added up from one list to the next.  The tail of a list
\* that is not empty is set one back, to keep the pointer of a full one inside.
DmaDesc(l, head) ==
  LET tail == head + Total(Nums(l))
  IN  [head |-> head, tail |-> IF tail > head THEN tail - 1 ELSE tail]

\* Faulty variant: a ring as full as its size.
RingCountFull(l) == Total(Nums(l))

\* A ring holds one entry less than its size.
RingCount(l) ==
  IF Total(Nums(l)) = Size(l) THEN Size(l) - 1 ELSE Total(Nums(l))
RingDesc(l) == [head |-> 0, tail |-> RingCount(l)]

BlqHead(l) ==
  IF l.blq = 0 THEN 0 ELSE blq_head + cfg[l.blq - 1].len

Describe ==
  /\ step = "fill" /\ Total(left) = 0
  /\ LET l == Head(todo) IN
     IF l.kind = "blq"
     THEN /\ blq_head' = BlqHead(l)
          /\ desc' = Stored(desc, l, DmaDesc(l, blq_head'))
     ELSE desc' = Stored(desc, l, RingDesc(l)) /\ UNCHANGED blq_head
  /\ todo' = Tail(todo) /\ step' = "check"
  /\ UNCHANGED <<cfg, region, density, left, off, slot, mem>>

FillNext == Begin \/ Write \/ NextRegion \/ Describe

FillSpec == FillInit /\ [][FillNext]_fill_vars

-----------------------------------------------------------------------------
\* The slots a descriptor hands out.
Handed(l) == {Slot(l, i) : i \in desc[l].head .. desc[l].tail - 1}

Overlap(a, b, size) ==
  /\ a.list = b.list /\ a.region = b.region
  /\ a.addr * Unit < b.addr * Unit + size /\ b.addr * Unit < a.addr * Unit + size

Inside(a) ==
  \E r \in DOMAIN Regions :
    /\ a.region = Regions[r]
    /\ a.addr * Unit + BufSize(a.list) <= Allocated(a.list, r)

\* Once a list has its descriptor, whatever was filled before or after, each
\* entry handed out is a buffer of that list, inside what was allocated for it,
\* and no byte is in two entries of any list; the pointers stay within the
\* list's own entries, so that no list runs into the next; at most one buffer
\* is left out, of a ring only when it would be full.  While a list is filled,
\* some region can go on.
\* (blm_ring_fill, blm_blq_ring_init and blm_emu_ring_init, blm_main.uc)
ListsWellFilled ==
  /\ \A s, t \in DOMAIN mem : s # t => ~Overlap(mem[s], mem[t], BufSize(mem[s].list))
  /\ \A l \in DOMAIN desc :
       LET handed == desc[l].tail - desc[l].head IN
       /\ \A s \in Handed(l) :
            s \in DOMAIN mem /\ mem[s].list = l /\ Inside(mem[s])
       /\ FirstSlot(l) <= desc[l].head /\ desc[l].tail <= FirstSlot(l) + Size(l) - 1
       /\ Total(Nums(l)) - handed \in {0, 1}
       /\ l.kind = "emu" /\ handed < Total(Nums(l)) => Total(Nums(l)) = Size(l)
  /\ step = "fill" /\ Total(left) > 0 =>
       \E r \in DOMAIN Regions : left[r] > 0 /\ cfg[Head(todo).blq].density[r] > 0
=============================================================================
