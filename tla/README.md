# Models and proofs of the micro-C forwarding example

The repository configures Netronome NFP-6000 SmartNICs.  Its one program of
weight is `examples/microc-forwarding`: a forwarding application written in
micro-C (`apps/lab5`), the libraries it is linked with (`microc/lib`) and the
microcode blocks that run beside it (`microc/blocks/blm`, the Buffer List
Manager, and `microc/blocks/init`, the set-up of the NBI).  This directory holds
TLA+ models of its concurrent parts, the TLC configurations that check them, and
TLAPS proofs of what matters most.  Paths below are relative to
`src/examples/microc-forwarding/` unless they begin with `src/`.

## Inventory

| Part | State | Operations | What is hard |
|---|---|---|---|
| Buffer List Manager, recycling (`microc/blocks/blm/blm_main.uc`) | per BLQ, in local memory: cache count, pending DMA events, lock; per context: counts of the last events, deficit | egress and ingress loops, pulls, pushes, fills | two contexts that interleave at every `ctx_arb`; merged one-shot events; unchecked rings |
| BLM, start-up (`blm_ctx_init` and the load-time ring macros) | mailbox, filters, ring descriptors, BLQ descriptors | fill and initialise rings, configure events, kill unused contexts | eight contexts, a ready flag written by one of them |
| BLM, library (`libblm.c`) | the EMU ring | allocate and free, one or in bulk | underflow, no check for room |
| Semaphores and counters (`microc/lib/std/_c/synch.c`) | two 32-bit counters in CLS | claim, wait, post; reset, ack, wait | credits claimed and completed out of order, wrap |
| Packet library (`microc/lib/pkt/libpkt.c`) | packet and buffer credits, CTM packets | allocate, free, send, drop | two credits taken one after the other by many threads |
| Counters, events, write alerts (`microc/lib/std/_c`) | counters in memory, autopush filters | increment, read, configure | reads that are not atomic |
| Rings (`microc/lib/nfp/_c/mem_ring.c`) | queue descriptors | put, get, pop, journal, work queue | full and empty rings |
| Header extraction and checksums (`microc/lib/net/_c/hdr_ext.c`, `csum.c`) | none (pure) | one function per header, walked in a chain; sums over registers and two memories | lengths the packet itself states; carries of carries |
| Traffic manager configuration (`microc/lib/nfp/_c/tm_config.c`) | registers of schedulers, shapers and queues | walk arrays of ranges, write and read registers | ranges over two levels, calls that give up half way, memory that queues share |
| Forwarding application (`apps/lab5/wire_main.c`) | counters per port | receive, count, rewrite, send | what becomes of a packet it wants dropped |
| MAC statistics (`microc/lib/nfp/_c/macstats.c`, `apps/lab5/mac_stats.c`) | accumulated counters | read, add, correct; accumulate drops | counters cleared by their reads, 40-bit fields corrected in several steps, two ports in one register |
| Init block (`microc/blocks/init`) | CSRs of the NBI | load-time writes (`.init_csr`) | nothing at run time; nobody reads the BLM's ready flag, and `apps/lab5/init/wire.sh` enables the ports (67-68) before it starts the microengines (77) |
| P4 examples (`src/examples/*/basic.p4`) | registers | parse, match, act | no concurrency of their own |
| Register lists, logs, scripts, headers | data | none | nothing to check |

How they interact: the NBI's DMA engine takes a buffer from a BLQ for each
packet it receives, the application rewrites and sends the packet, the traffic
manager (TM) puts the buffer on its own list when the packet has left.  Both
raise an event every 32 buffers; the BLM's ingress context hears the DMA
engine's, its egress context the TM's, and between them they carry the buffers
back.  An application that builds packets takes buffers from the EMU ring the
BLM keeps.

What makes each part correct:

* BLM: no buffer lost or handed out twice; the DMA engine gets exactly what it
  used; the TM's list is popped of exactly what is on it; cache and ring stay
  within their memories; the lock protects the top of the cache; an empty list
  is refilled.
* Semaphores: never more holders than credits; whoever waits gets in.
* Credits: what is taken is used or returned; a waiter gets its credits.
* Modification scripts: the script is clear of packet and metadata, and the
  traffic manager, which finds it by an encoded offset, starts the packet at
  its first byte.
* Application: a buffer is in one hand at a time; every packet is sent once, in
  order and whole, with its VLAN and the priority the code gives that VLAN.
* Load-time fill: each entry a list hands out is a buffer of its own, and no list
  runs into the next.
* MAC statistics: each frame and each drop is counted once, no octet twice.  That no
  octet is lost is documented, and not so (see Findings).
* Traffic manager: queues do not share descriptor memory; what was configured reads
  back, and nothing else changes; every call returns.
* Headers and checksums: nothing is read beyond the buffer or twice, the walk ends;
  the checksum is that of the packet, however it is split.

## Modules

| Module | What it is |
|---|---|
| `BLM` | the Buffer List Manager of one BLQ, with its environment |
| `BLMInvariant` | its inductive invariants `IInv` and `DInv` |
| `BufferPool`, `BLMRefinement` | the abstract pool of buffers, and the mapping under which `BLM` implements it |
| `BLM_proofs` | the theorems about it, the refinement included |
| `Semaphore`, `SemaphoreInvariant`, `Semaphore_proofs` | the CLS semaphore, its inductive invariants and theorems |
| `CtmCredits` | packet and buffer credits of the packet library |
| `PktModify`, `PktModify_proofs` | the arithmetic of modification scripts and of split packets (pure), and theorems about it |
| `Wire`, `WireInvariant`, `Wire_proofs` | the forwarding application, its inductive invariant and theorems |
| `TmConfig`, `TmConfig_proofs` | the configuration functions of the traffic manager, and theorems about them |
| `HdrExt`, `Csum` | the walk over the headers of a packet; its checksums |
| `Packet_proofs` | theorems about the walk, the checksums, and scripts and sizes at every offset |
| `MacStats` | the statistics of the MAC and the program that sums them up |
| `RingFill` | the load-time macros that fill the lists and rings of the Buffer List Manager |
| `Books_proofs` | theorems about `CtmCredits`, `MacStats` and `RingFill` |
| `Sums` | the laws of sums over finite sets, and of folds over sequences, that those proofs rest on |
| `MCBLM`, `MCBLMSafety`, `MCSemaphore`, `MCSemaphoreSafety`, `MCCtmCredits`, `MCBooks`, `MCPacket`, `MCForward`, `MCTmConfig`, `MCWire` and their `.cfg` files | instances for TLC |

`Wire` extends `PktModify`: the place and the length of the script its threads
write are those of `pkt_msd_write`.  The other components share no state in
this repository and are modelled apart: the application of lab 5 uses neither
semaphores nor credits, and takes the buffers of a BLQ for granted.  `MCBooks` and
`MCForward` (which extends `MCWire` and `MCPacket`) put several of them side by side
in one run: a variable `part` says which one a behaviour is about, and the others
stand still.  In the same way `build` of `MCBLMSafety` says whether a behaviour is one
of the microcode as shipped (`NormalNext` of `BLM`) or of a build with null recycling.

### BLM

One BLQ; the four BLQs share no state.  `cacheCnt`, `dmaPend` and `cacheBusy`
are the three fields of the local-memory descriptor.  `epc, ecur, eprev, edef`
and `ipc, icur, iprev, idef, isAps` are the registers of the egress and the
ingress context; `held` stands for `$nbidmabuf`, 16 buffers or none.  A buffer
is not identified: `ring, dma, tm, flight, app, nulled` count how many are in
each place.  `ev` is the NBI's counter and the autopush monitor of each side.

The microengine runs one context at a time, and a context gives it up at
`ctx_arb` only.  `me` names the context that runs.  An action is the code from
one such point to the next, or one turn of a loop in between; the NBI, the
event bus and the applications (on other microengines) may act between any two
actions.  Labels stand for the points where a context waits or loops:

| Label | Where (`blm_main.uc`) |
|---|---|
| egress `start`, `wait`, `loop` | not started; line 1463; the loops at 1475 and 1481 |
| egress `acquire`, `pull` | the lock, 362 (from 1488); the swap of a pull, 454 |
| ingress `start` | before it has set its event filter |
| ingress `init`, `pop`, `fillacq`, `write` | the loop at 1538; the swaps of a fill, 558, 362, 570 |
| ingress `first`, `wait` | 1547; 1555 |
| ingress `serve`, `feed`, `feedacq` | the loops at 1581 and 1588; 1593; 1594 |
| ingress `refill`, `done` | 1611 to 1620; 1646 |

Lock sections without a swap inside (1488-1490, 1594-1596, 1611-1613) are one
action with what follows: nothing else of the microengine can see them.  For
the same reason the second acquisition in `blm_ingress_push_buffers_from_cache`
and in the pull never waits.

Two things of the environment are assumptions on constants, and named:
`CountAssumption` says that fewer than 1024 buffers are counted between two
reads of a count (the counts have 10 bits) and `RingAssumption` that the ring
has room for all buffers but those the high water mark keeps in the cache.  The
shipped `blm_custom.h` satisfies both: BLQ 0 of NBI 8 starts with 128 + 896 = 1024
buffers, and the tail the loader writes (head + count - 1, near line 752) leaves
a list of 1024 entries holding 1023.  `TmBacklog` bounds what the TM holds freed
and not recycled.

Traffic does not wait for the BLM.  A context hears events only from the moment
it has set its filter (`Heard`), and one raised before is lost, while the NBI's
counter runs on.  `Early` bounds what may be taken and freed before that; in the
shipped configuration it is the packet credits of two CTMs
(`init/nfp_nbi8_dma_i32_i33.json`).  The list must be loaded with a batch more
than that, otherwise it may run empty before anybody listens.  The models assume
that the NBI counts before event generation is enabled, which the source does
not say.

### BufferPool

A list, a pool and the outside; the list is topped up a batch at a time and
only when a batch fits below the level it was loaded with.  `BLMRefinement` maps
cache, ring and registers to the pool.

### Semaphore

`next_credit` and `last_complete` are the two words of `struct sem`; `my_credit`
and `seen` the registers of a thread in `sem_cls_wait`.  They are kept unbounded
and compared modulo `Modulus` (2^32 in the code), so that the order of claims
stays visible after they wrap.  `Claim` is the fetch and increment with the read
that follows it, `Enter` and `Sleep` the two outcomes of the comparison (77),
`Reread` the end of the sleep, `Post` is `sem_cls_post`.  Any number of threads,
each of which may claim again and again.

### CtmCredits

`credits` is the structure in CLS, `hold` what a thread has in its transfer
registers, `freed` what the packet engine has to give back, `lost` what a failed
allocation kept.  One action per command on memory: the saturating
test-and-subtract (`TestSubsat`), its check (`Acquired`, `Short`), the addition
after the sleep (`AddBack`), the poll of the packet engine (`PollPe`, `Update`),
the allocation (`Alloc`, `AllocFails`) and the return of its credits (`Return`).
The packet engine is external and modelled from its use: it may put a packet into
a buffer in use, and gives that buffer credit back.  `Held`, what all threads have
in registers, is the number of elements of a set of units, (thread, k) for each
k-th credit the thread has, so that a sum over threads needs no induction.

### PktModify

Operators only: where the script goes (`DeleteOffset`), what it deletes
(`ByteCount`, a field of four bits), what `pkt_msd_write` writes and returns, and
how many bytes of a packet are in CTM and in memory.  `ScriptAt` and `PacketStart`
say how the traffic manager reads them, after the layout described in `pkt.h`.

### Wire

A thread of `wire_obj` gives up the microengine at each access to the packet
buffer, so a step is the code from one access to the next: `Receive`
(`pkt_nbi_recv`), `ReadHeader`, `LoadTci` and `StoreTci` (`rewrite_packet`),
`WriteCommand` (`pkt_mac_egress_cmd_write`), `WriteScript`, `Send`
(`pkt_nbi_send`, which nobody waits for).  `Arrive` and `Depart` are the NBI and
the traffic manager: a buffer that is filled again keeps the script of its last
packet, and the traffic manager reads buffer and command when it likes, in the
order of sequence numbers.  A frame is its port, type, tag and length.

The code toggles no VLAN: `wire_main.c` (159-167) keeps every VLAN and sets the
priority of VLANs 2 and 4, which is what `SentAsReceived` and its theorem say.
`VlansExchanged` is what `lab5/README.md` says instead; see Findings.

### TmConfig

The registers of the traffic manager are functions, by number; configurations and
shapers have one row for L2, L1 and L0, weights one for each level.  `ReadCluster`
is the head of the loop over an array of ranges, `EndOfRange`, `OutOfRange` and
`SramFull` the ways out of the loop inside, `ConfigScheduler`, `ConfigShaper` and
`ConfigQueue` one turn of it; `CallL0`, `WriteL0Weights` and `ConfigL0` write the
128 weights of L0 in bursts that are read ahead.  What a range says is picked when
it is read from memory, from a set of all an application may have put there.
Numbers are unsigned and wrap.  The deficit registers, zeroed with each weight, are
left out.

What the model brings to light and no property states: the last shaper of L1 (143)
is configured as L0's, since the test is `<` (`tm_config.c:955`); a second call
that names other queues begins at 0 again and gives them regions of queues that the
first call configured, which is why `RegionsOfCallApart` is about one call; the
array of shapers is walked with the bound of the schedulers' array.

### HdrExt and Csum

`HdrExt` has one action per `he_` function; the walk between them, see whether the
header fits, extract it, go on at the offset and the protocol returned, is what the
header file shows a caller to write (`hdr_ext.h:72-112`).  A header's fields are
picked when they are read, so every packet is covered.  `covered` is the end of what
was extracted.  Without `ADD_NET_IP4_CHECK` an IPv4 header may claim fewer than
five words, and the next one is taken from inside it; `HeadersApart` is stated for
programs with the checks.  Two things the code does and its header describes
otherwise: the last fragment of an IPv4 packet (offset not 0, no more fragments) is
parsed on as if a transport header followed (`hdr_ext.h:259-261` speaks of
fragments), and `he_ip6` returns `HE_NONE` where the header promises
`HE_IP6_NONE` (`hdr_ext.h:281-283`).

`Csum` sums words with the carry put back.  A byte has 7 values instead of 256, so
that carries, carries of carries and sums of all ones are frequent; chunks have 8
bytes instead of 64.  `ChecksumRight` compares with the definition, a sum of 16-bit
numbers modulo 2^16 - 1, under the header's own conditions: the headers are not
split, the part in CTM has an even length.

### MacStats

The MAC clears a counter when it is read; a thread reads `SegWords` words, adds the
two halves to memory, and after the last segment puts the upper words of the
counters of octets in their place (`FixRead`, `FixWrite`, `FixClear`).
`macstats_port_read` exchanges the two words of each pair it loads
(`macstats.c:70-77`, `Beside`); the accumulating functions do not, although both
structures in `macstats.h` list their counters in the same order.
`ReadPair` and `AddDrops` are the counters of drops, of which two ports share a
register; `ClearSegment`, `ClsAdd64` and `ClsAdd` the program of `apps/lab5`.
`loaded` is what `macstats_port_read` has handed out, so that the books balance
with readers and accumulators side by side.  The threads may interleave anywhere.

`mem[add64]` keeps the lower half of 64 bits in the first word: `lab5/README.md`
(414-421) says so of the counters the program shows, `mac_stats_add` builds its
operands that way (`macstats.c:93-101`), and `macstats_port_tail_drops_accumulate`
shifts by 32 what it adds to a C number (297-298).  The correction reads a C number,
whose first word is the upper half, and so with the halves exchanged (`AsRead`).
What it adds and shifts is then not what is meant, and the upper word of the octets is
lost (see Findings).  `LowOctetsKept` says what remains true: whatever calls overlap, no
octet is counted twice; and unless two calls overlap nothing is missing but multiples of
2^32.  If they do, the correction, a read, an addition and a write, also loses what
another thread adds in between.  A mask that names one port of a pair loses the drops of the other
(`DropsConserved` says which ports are safe).  `mac_stats.c` adds the upper word of the
second counter of octets (words 40 and 41) with 32-bit additions, so its carry is
lost; `ProgramConserved` claims that counter modulo 2^32 only in its words.  That program signals only the last of the
additions to CLS it sends; `ClsAdd64` comes before `ClsAdd` in the model, on the
assumption that the memory takes the commands of one context in their order.

### RingFill

The `#while` and `#for` loops of `blm_ring_fill` run in the assembler; a step is one
turn.  `Begin` has the `#error` tests, `Write` is one `.init` or `.init_csr`,
`NextRegion` the step from one memory to the next when `DENSITY` or the region's
buffers are used up, `Describe` the descriptor (`blm_blq_ring_init`,
`blm_emu_ring_init`).  Where a BLQ begins is added up twice in the code, by the
parameters of the fill (`BdsramOff`) and in the loop of context 0 (`BlqHead`), and
is in the model.  What the NBI takes the tail of its list to be, the last entry or
the one after, is not in the source; the code sets it one back for every list that
is not empty.  `ListsWellFilled` takes it for the one after, the reading under which
fewer buffers are handed out: at most one is left out.  The lists that `BLM` starts
from are those `RingFill` leaves.  The test for a power of two
(`blm_main.uc:673`, `R_SIZE & (R_SIZE - 1) != 0`) binds as `R_SIZE & 1` if the
assembler has C's precedence; every size in the repository is a power of two.

## Runs

| Run | Module | Question |
|---|---|---|
| `safety` | `MCBLMSafety` | types, both ledgers, conservation, cache and ring bounds, overfeeding, the lock; with and without null recycling |
| `live` | `MCBLM` | an empty list is refilled, the lock is obtained, and `BufferPool` is implemented |
| `overfeed` | `MCBLM` | expected violation, see Findings |
| `sem` | `MCSemaphoreSafety` | never more inside than credits, although decisions rest on old counts; with one credit: entry in order, and who waits gets in |
| `sem_lockout` | `MCSemaphore` | expected violation with two credits, see Findings |
| `books` | `MCBooks` | every credit is in one place, failed allocations included; each frame and drop is counted once, no octet twice; each list is filled with buffers of its own |
| `octets` | `MCBooks` | expected violation, see Findings |
| `credit_livelock` | `MCCtmCredits` | expected violation, see Findings |
| `forward` | `MCForward` | the application: one hand per buffer, sent as received, every packet departs; the libraries: scripts at every legal offset and CTM size; the walk over every sequence of headers; checksums for every split |
| `tm` | `MCTmConfig` | memory of queues, what reads back, what stays untouched, termination |
| `tm_unset` | `MCTmConfig` | expected violation, see Findings |
| `vlan` | `MCWire` | expected violation, see Findings |

Bounds and why they are enough:

* `MCBLM`: the real batch (32) and fill (16), a cache of 64, a deficit of 47 (so
  that the high water mark is 17: one fill is below it, two are above it),
  `MaxPending = 1`, counts modulo 128, a batch of early traffic.  `safety` has two
  batches in the list, three fills in the ring and a backlog of two batches;
  `live` three batches and 64 in the ring, so that the cache fills up and both
  exits of the initial fill happen; the build of `safety` with null recycling, and
  `overfeed`, have a backlog of three.  Applications take and free buffers in `safety`; in
  `live` they do not, and that a refinement with them holds is `PoolImplemented`.
  Events merge (two or three batches in one), the count wraps (128 is four
  batches), early events are lost, the cache is at the high water mark, full and
  empty, the ring runs empty, the pending count passes `MaxPending`, and each
  context is found in every label while the other moves.
* `MCSemaphore`, `MCSemaphoreSafety`: three threads, one or two credits, ten claims
  with counters modulo 8, so that both counters wrap and a thread claims more than
  once.  `mutex` chooses between one credit and two in the first state.
* `MCCtmCredits`, `MCBooks`: two threads and two or three credits of each kind, asked
  for one or two at a time, so that a thread may hold part of what it wants while
  another waits.  The state space is finite without further bounds.
* `MCBooks`, statistics: words of two bits, 6 words read two at a time, two counters
  of octets that carry into their upper word, two calls of each kind by two threads,
  so that calls overlap, and masks of ports that name both or one of a pair.
  `octets` needs one call and one burst of 5 octets, which fills more than a word.
* `MCBooks`, lists: two BLQs in a BDSRAM of 6 entries (so that lengths of 4 and 4
  are refused), two memories; lists that are empty, full and in between; densities
  above the number of buffers, of one, and of none; buffer sizes that a descriptor
  cannot count in.  Every combination for the two BLQs, with and without either
  kind of list.
* `MCPacket`, in `forward`: all offsets and sizes of scripts; 2^20 stands for 2^32 (`UIntAssumption`
  asks for more than any packet and buffer), and the lengths are those around each
  buffer size.  Buffers of 64 and 128 bytes hold up to eight headers; header lengths
  below, at and above the least legal one.  All payloads of up to 4 bytes of extreme
  values, and longer ones of all ones across three chunks, split everywhere.
* `MCTmConfig`: two schedulers in L2 and in L1, four queues with entries of 4 (too
  small), 8 and 32 in a memory of 64, unsigned numbers below 8, two calls of up to
  two ranges each; a range of one number, over both levels, up to the largest
  number, and empty.
* `MCWire`, in `forward` and `vlan`: two threads, two buffers and three packets, so
  that a buffer is used again while the other is worked on; four kinds of frame, one for each VLAN the
  code tells apart and one without a tag, on both ports.

Deadlock is not checked where the system may stop: no traffic, no claims, no
packets left to arrive.

Fairness.  `live`: the arbiter of the microengine takes turns among contexts
that are ready, so a context that is ready again and again runs (`SF` of each
context's steps); the event bus delivers (`WF` of `AutoPush`) and the TM
transmits what it was given (`WF` of `TmFree`).  Nothing is assumed of the
reception of packets or of applications.  `sem`: a thread in `sem_cls_wait` goes on,
its sleep ends, and who is inside posts (`WF` per thread, needed and stated for one
credit); nobody need claim.  `credit_livelock`: a thread that called goes on (`WF`
of each thread's `Step`) and packets are freed (`WF` of `Free`).  `forward`, `tm`:
the code that was called runs on (`WF` of its steps); nobody need call.  In `forward` each
thread gets its turn and the traffic manager sends each buffer it was given (`WF` of
`Step` and of `Depart`); packets need not arrive.

Every property has a mutant: a variant of one definition, marked "Faulty variant"
in the module, with which TLC finds that property violated.

## Findings

`overfeed`: the comment at `blm_main.uc:1482` says that the egress context
recycles directly "If there is any pending DMA Evnt".  The ingress context
compares the pending count with `BLM_MAX_DMA_PENDING_EVNTS` (1593), waits for
the lock (1594) and decrements (1600) without comparing again.  If a TM event of
more than `MaxPending + 1` batches is served meanwhile, the count becomes -1;
it is tested with `!= 0`, so the egress context now recycles to the DMA engine
for ever.  With the constants of the code (5 pending, batches of 32) it takes a
TM event of 7 batches; up to 6 is proved safe.

`sem_lockout`: the comparison (`synch.c:77`) is of unsigned words.  A thread that
was overtaken, and whose credit `last_complete` has passed, computes a huge
difference and sleeps although no other credit is in flight; it stays out until
the counter has gone round.  A thread can be overtaken because it sleeps before it
looks again; so with two credits claims are not handled in order either, as
`synch.h:114` has it.  With one credit neither happens (`MutexInOrder`, and proved:
`MutexOrdered`).

`credit_livelock`: `pkt.h:957` says that the call blocks until the credits could be
acquired.  A waiting thread keeps what it took while it sleeps and adds it back
just before it takes again, so two threads that want two credits each can keep one
each for ever, with every packet freed.

`tm_unset`: `tm_config.h:663` says that the function "configures all the schedulers in
the ranges found to be in use".  For a scheduler that is not in DWRR mode,
`tm_config.c:911-917` writes a transfer register that only the other branch has set
(883): what an earlier command left there becomes the scheduler's configuration.

`octets`: "the accumulating structure reserves 64 bits per counter" (`macstats.h:40`),
and `macstats.c:183` is there to "fix 40 bit stats accumulation".  With the halves in
the order `mem[add64]` keeps them in (see MacStats), lines 184-187 read the upper word
of the octets as if it had been shifted by 32 already, and shift it out: every octet
beyond 2^32 is lost, with one caller and nothing interleaved.

`vlan`: `lab5/README.md:460-462` says of `rewrite_packet` that "if the VLAN is 2 or 3
then it toggles the bottom bit of the tag in the packet data itself".  The code clears
the priority of VLAN 2, sets that of VLAN 4 and leaves every VLAN as it was; line 164
declares a function where it meant to call it.

## Proofs

`BLM_proofs` proves for all constants that satisfy the named assumptions that
`IInv` is inductive: types, the lock (`LockHeld`: the flag is up exactly while
one context waits for its write), the registers (`RegistersHeld`), room for what
is in the registers (`CacheRoom`), the TM side of the books (`TmInv`) and
conservation.  None of the properties is inductive alone: the cache bound needs
that whatever is in the registers had its room reserved before the pop, and the
TM ledger needs that the count last read, the count last pushed and the NBI's
count follow each other on the circle of counts (`InOrder`), which in turn needs
the ledger to bound their distance.  From `IInv`: `TypeCorrect`, `CacheSafe`,
`Conservation`, `TmBooks`, `CacheLocked`; and, without null recycling,
`RingSafe`.

The second part of `BLM_proofs` adds the DMA side, `DInv`, under `BoundedBacklog ==
TmBacklog <= (MaxPending + 1) * Threshold`, the exact bound below which the
finding cannot happen.  `FeedOwed` is the heart of it: while the ingress
context is between its comparison and its decrement, an event is pending that
the egress context cannot take away.  `DmaBooks` and `DmaSafe` follow.

Its third part maps each step to a move of `BufferPool` or a stutter
(`PoolImplemented`).

`Semaphore_proofs` proves for any finite set of threads (no more than `Modulus`)
that never more than `max_credits` are inside (`SemaphoreSafe`).  What a thread
compares may be old, so `AtMostMax` is not inductive: `FarCreditsWait` says that
each credit `max_credits` or more ahead of `last_complete` belongs to a thread that
waits, and the threads inside then have distinct credits among the `max_credits`
that remain.  `MutexOrdered` proves order for one credit.

`PktModify_proofs` proves for every legal offset, at either limit of the encoding,
that the script leads to the packet (`ScriptReachesPacket`), and for every length,
size and offset that the two parts of a packet add up (`SizesAddUp`).

`Wire_proofs` proves `IInv` of `WireInvariant` inductive for any threads, buffers,
frames and number of packets, and from it `WireTypeCorrect`, `WireOneOwner` and
`WireSentAsReceived`.  `IInv` says what is in a buffer at each point of a thread's
loop (`Work`), that a waiting buffer is as it arrived, waits once and has no other
owner, and what is in a buffer and its command once it is handed over.  `OwnStep`
carries most of it: a step of one thread on the buffer it alone holds disturbs
nothing known of another.  The proof uses `FramesAssumption` (tags have 16 bits)
and nothing of the ports or lengths but that they are numbers.

In `Books_proofs`, the first part proves `CreditTypes` and `CreditsKept` for any finite set of
threads and any number of credits.  Conservation is not inductive: that a return of
credits gives back what an allocation took, and that the packet engine has a buffer
to give back for the last packet freed, follows from `RegistersRight`, which says
what a thread's registers hold at each label (nothing between two attempts, exactly
what is wanted before an allocation) and that packets occupy buffers.
`HeldChanges` is the law of the sum: changing one thread's registers changes the
cardinality by the difference.

The parts of `Books_proofs` about `MacStats` hold for any number of threads, ports,
words and calls, and for any segments and masks, under `StatsAssumption` (segments
and statistics have an even number of words, a counter of octets begins at an even
word, the counters of the MAC do not overflow between two reads, as the bounds of
the model have it).  What is in one place must be found in another, so each
invariant is a sum over the threads together with what the registers hold at each
label:

* `EveryFrameOnce` rests on `PortInv`: a thread between its read and its last
  addition has exactly the segment it read, and the words it added already are in
  memory.
* `NoOctetTwice` rests on `OctetsInv`, which follows calls through reads, additions and
  the three steps of the correction: what is in the accumulator, and what a correction
  is about to write there, is never more than what was passed on (`PassedOn`); and
  while one thread is at work alone, what is missing is a multiple of 2^32.
* `NoDropLost` rests on `DropsInv`: a port that is safe is in the mask of every call
  that has a drop of its in a register.
* `ProgramKeepsBooks` rests on `ProgramInv`: which of the words read have been
  added to CLS at each label, modulo 2^32 and, for the first pair, 2^64.

The part about `RingFill` proves `ListsFilled` for any number of BLQs and memories and
whatever `blm_cfg.h` says of them.  `FillAssumption` asks only that lengths, sizes and
units be positive and the memories different ones.  `FillInv` says that each entry
belongs to its list, that the buffers a list took from a memory are the first so many
(`Belongs`), that no buffer is in two slots (`OnceEach`), that a list has no gaps
(`NoGaps`), and where the loop is (`Going`).  That a new slot is free (`SlotFree`)
needs the BLQs to lie one behind the other (`OffsAdd`), and that the head computed
along the way is the one the list was filled at needs their order (`Follows`,
`HeadAt`).

`Sums` has the laws all of these cite: a sum over a finite set changes with one of its
terms, is monotone, and is zero only if all terms are.  `SumFunctionOnSet` is a
recursion over sets; with no induction at hand, each law is proved from a smallest
counterexample, which exists because the sizes of counterexamples are natural numbers.

`Packet_proofs` proves `WalkStaysInBuffer` and `WalkGoesOn` for every buffer size and
all packets: the walk never extracts what is beyond the buffer, and, with the checks
compiled in, the next header to be extracted begins behind the standard part of the one
before.  `WalkInv`, the two properties and that sizes and offsets are numbers, is
inductive.  `ScriptsLeadToPackets` and `PacketsSplit` are the lemmas of
`PktModify_proofs` at every offset that the walk of the run reaches.

`ChecksumIsRight` and `CorrectionIsRight` say the same of the checksums as the run does,
for bytes of any number of values from 2 on, packets of any length and chunks of any
multiple of four bytes.  `PacketsAssumption` is what the types of the code say: headers
are made of words, memory of bytes, and the length and the protocol have half a word.
The argument is a congruence, `Same`, modulo `M == Half - 1`:

* an addition with its carry (`AddSame`), a turn of the chain of additions with the
  carry of the one before (`AddCarrySame`) and a fold (`FoldSame`) change nothing modulo
  `M`, and all but the chain yield zero only from zeros.  The chain's last carry can be
  added without another, because `Carried` excludes all ones together with a carry;
* `AddWords` and `Chain` are folds.  `FoldExists` (`Sums`) says that the recursion
  behind them has a solution, so that they can be followed word by word (`AddWordsSame`,
  `ChainSame`).  A word counts like its two halves and like its four bytes (`WordSame`),
  so the sum over bytes is that of the definition (`WarrSame`), and so is that over
  parts of headers (`WordsCount`, `PseudoSame`);
* `SumInv`, the inductive invariant of the loop, says that the two sums and what the
  bytes not read yet count for are together what the packet counts for.  A turn of the
  loop takes an even number of bytes or all of them (`ChunkSplits`), which is why chunks
  must be even and why the part in CTM must, if there is another;
* a checksum that is put into the header makes the sum a multiple of `M`, and it is all
  ones, not zero, because not all words are zero: if they were, the checksum of the
  header without it would have been all ones (`Ipv4Zero`).

`TmConfig_proofs` proves four theorems for every size of the traffic manager and every
content of the ranges.  `TmTypes` and `TmRegionsApart`: the regions of one call are
aligned, inside the memory and apart, because each lies below `head_tail_sram` and the
next begins at or above it; rounding up to a multiple is a lemma of its own.
`TmReadsBack` and `TmOnlyNamed`: what a range configured reads back, and nothing it does
not name changes.  Their invariant, `Written`, adds to the properties which registers
there are, that an inner loop counts up from the start of a range in use
(`CountsUp`) and that a burst of L0's weights starts at a multiple of the burst's size
and has been read ahead from there (`WeightsAhead`).  `TmAssumption` states what the
constants of the code satisfy and these proofs need: the inputs of L0 are a multiple of
a burst (128 and 16), and the numbers of schedulers and queues are far from the largest
unsigned number, so that a count within the bounds does not wrap.

Only model-checked: `DmaNotStarved`, `LockObtained`, `MutexServed`, `CallsReturn`,
`WalkEnds` and `EveryPacketDeparts` (liveness under fairness is out of the prover's
reach), and `DmaNeverOverfed` with null recycling at a large backlog
(`safety`).

## Not modelled

* Start-up of the BLM's contexts after the fill: event configuration, filters, kill
  of unused contexts, the ready flag.  Context 0 finishes its own set-up without
  giving up the microengine; in which order the contexts go on depends on macros of
  the event library (`evntm_*`), which is not in the repository.  A TODO in the
  source (`blm_main.uc:1455`) says that the flag fails to come with BLQ 3 masked off.
* Rings, work queues and journals, CAM and lookup commands, atomic memory commands,
  counters, events, hashes: wrappers of single commands.  They keep no state; what
  order and bounds there are is the hardware's, which the models that use a command
  (`BLM`, `Semaphore`, `CtmCredits`, `MacStats`) describe where they use it.  Read in
  passing: `MEM_RING_INIT_CURN` of `mem_ring.h` names a macro that does not exist,
  and `mem_cam_lookup_add_added` is true for the result that means a full set, too.
* DRAM synchronisation counters: what they promise depends on the order in which a
  caller resets and acknowledges, and there is no caller.
* The set-up of the NBI: register values at load time, without steps.
* P4 examples: their run time is generated code outside the repository.
* Register headers (most of the lines of the repository), listings and data:
  constants.
* Silicon before revision B0 (other pull sequences, compiled out); mailboxes and
  debug registers; the encoding of NBI commands; the identity of buffers in `BLM`.

`PROJECT.json` lists every part with its status.

## What would come next

1. `BLM` for four BLQs at once: the arbiter and the transfer registers are all they
   share.  The theorem that the one-BLQ invariants hold of each.
2. Start-up of the contexts, once the event library's macros are at hand.
