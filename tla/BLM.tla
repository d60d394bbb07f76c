--------------------------------- MODULE BLM ---------------------------------
(***************************************************************************)
(* The Buffer List Manager of one buffer list queue (BLQ).                 *)
(*                                                                         *)
(* Two hardware contexts of one microengine recycle packet buffers: the    *)
(* egress context takes the buffers the traffic manager (TM) has freed,    *)
(* the ingress context refills the list the DMA engine takes its buffers   *)
(* from.  They share a descriptor in local memory: the number of entries   *)
(* of a small cache, the number of DMA events not served yet and the flag  *)
(* that locks the cache.                                                   *)
(*                                                                         *)
(* The microengine is not preemptive: a context runs until it swaps out    *)
(* (ctx_arb).  `me' names the context that runs; each action below is a    *)
(* stretch of code in which nothing else of the microengine can run, while *)
(* the DMA engine, the TM, the event bus and the other microengines        *)
(* interleave freely.                                                      *)
(***************************************************************************)
EXTENDS Integers

CONSTANTS
  Threshold,    \* NBI_BLQ_EVENT_THRESHOLD: buffers between two events
  CacheSize,    \* BLM_NBI_BLQx_CACHE_SIZE
  CacheDeficit, \* BLM_NBI_BLQ_CACHE_DEFICIT
  MaxPending,   \* BLM_MAX_DMA_PENDING_EVNTS
  CountMod,     \* MASK_10b + 1: period of the count an event carries
  DmaInit,      \* buffers loaded into the DMA engine's BLQ
  RingInit,     \* buffers loaded into the EMU ring
  RingCap,      \* entries the EMU ring can hold (its size - 1)
  NullRecycle,  \* BLM_BLQ_NULL_RECYCLE_MASK, as a set of contexts
  NbiBatch,     \* how many buffers the NBI moves at once
  AppBatch,     \* how many buffers an application allocates or frees at once
  TmBacklog,    \* most buffers the TM holds freed and not recycled
  Early         \* most buffers taken, or freed, before their event is heard

Contexts == {"ingress", "egress"}
Sides    == {"dma", "tm"}
Fill     == 16  \* the literal block length of blm_cache_fill

ASSUME ThresholdAssumption ==
  Threshold \in Nat \ {0} /\ Threshold % Fill = 0

ASSUME CacheAssumption ==
  /\ CacheSize \in Nat /\ CacheSize % Fill = 0 /\ CacheSize >= 2 * Threshold
  /\ CacheDeficit \in Nat /\ CacheDeficit >= Threshold

ASSUME CountAssumption ==
  /\ MaxPending \in Nat
  /\ CountMod \in Nat \ {0} /\ CountMod % Threshold = 0
  /\ DmaInit \in Nat /\ DmaInit < CountMod
  /\ TmBacklog \in Nat /\ TmBacklog < CountMod

ASSUME RingAssumption ==
  /\ RingInit \in Nat /\ RingCap \in Nat /\ RingInit <= RingCap
  /\ DmaInit + RingInit - (CacheSize - CacheDeficit) <= RingCap

ASSUME InputAssumption ==
  /\ NullRecycle \subseteq Contexts
  /\ Early \in Nat
  /\ NbiBatch \subseteq 1 .. Threshold
  /\ AppBatch \subseteq 1 .. Fill

VARIABLES
  cacheCnt,  \* CACHE_ENTRY_CNT
  dmaPend,   \* DMA_EVNT_PEND_CNT
  cacheBusy, \* CACHE_RDWR_BUSY
  me,        \* the context that runs, or "none"
  epc, ecur, eprev, edef,        \* egress: label, blq_cnt_cur/prev, deficit
  ipc, icur, iprev, idef, isAps, \* ingress: label, counts, deficit, is_aps
  held,      \* buffers in the ingress context's $nbidmabuf registers
  filled,    \* the ingress context has left its initial fill
  ring, dma, tm, flight, app, nulled, \* where the buffers are
  ev         \* per side: the NBI's counter and the autopush of its event

descr   == <<cacheCnt, dmaPend, cacheBusy>>
egress  == <<epc, ecur, eprev, edef>>
ingress == <<ipc, icur, iprev, idef, isAps, held, filled>>
vars == <<descr, me, egress, ingress, ring, dma, tm, flight, app, nulled, ev>>

\* Faulty variant: no room left for a fill that was started.
HighWaterMarkNoFillRoom == CacheSize - (CacheDeficit - Fill)
HighWaterMark == CacheSize - CacheDeficit
TotalBuffers  == DmaInit + RingInit

\* Faulty variant: the difference is not masked.
DeficitUnmasked(cur, prev) == cur - prev

\* Deficit between two counts, modulo the width of the count.
Deficit(cur, prev) == (cur - prev) % CountMod

EgressLabels  == {"start", "wait", "loop", "acquire", "pull"}
IngressLabels == {"start", "init", "pop", "fillacq", "write", "first", "wait", "serve",
                  "feed", "feedacq", "refill", "done"}

\* The labels at which a context is ready to run while another one runs: it
\* has not started yet or it spins on the cache lock.
Ready(c) == IF c = "egress" THEN epc \in {"start", "acquire"}
                            ELSE ipc \in {"feedacq", "fillacq", "refill"}

Other(c) == IF c = "egress" THEN "ingress" ELSE "egress"

(* A context swaps out.  The arbiter of the microengine takes turns, so    *)
(* the other context runs first if it is ready; one that waits for a       *)
(* signal runs when the signal is there.                                   *)
SwapOut(c) == me' = IF Ready(Other(c)) THEN Other(c) ELSE "none"

(***************************************************************************)
(* The event bus: the NBI counts the buffers it moves and raises an event  *)
(* at each multiple of Threshold, carrying the count modulo CountMod; the  *)
(* autopush monitor is one-shot and always pushes the latest count.  An    *)
(* event raised before the context has set its filter is lost.             *)
(***************************************************************************)
Heard(s) == IF s = "dma" THEN ipc # "start" ELSE epc # "start"

Count(s, n) ==
  ev' = IF ev[s].part + n < Threshold
        THEN [ev EXCEPT ![s].part = @ + n]
        ELSE [ev EXCEPT ![s].part  = @ + n - Threshold,
                        ![s].count = (@ + Threshold) % CountMod,
                        ![s].fresh = Heard(s)]

Engaged(s)  == [ev EXCEPT ![s].armed = TRUE]
Consumed(s) == [ev EXCEPT ![s].sig = FALSE]

AutoPush(s) ==
  /\ ev[s].armed /\ ev[s].fresh
  /\ ev' = [ev EXCEPT ![s].armed = FALSE, ![s].fresh = FALSE,
                      ![s].sig = TRUE, ![s].data = ev[s].count]
  /\ UNCHANGED <<descr, me, egress, ingress, ring, dma, tm, flight, app, nulled>>

(***************************************************************************)
(* The NBI and the applications.  Nobody waits for INIT_DONE: the ports    *)
(* are enabled before the microengines are started (init/wire.sh), so      *)
(* traffic may run ahead of the manager, as far as Early allows.  The      *)
(* bounds on packets in flight (it only cuts when null buffers are handed  *)
(* out) and on what the TM holds are those of the NBI's memories.          *)
(***************************************************************************)
DmaTake(n) ==
  /\ dma >= n /\ flight + n <= TotalBuffers
  /\ Heard("dma") \/ DmaInit - dma + n <= Early
  /\ dma' = dma - n /\ flight' = flight + n
  /\ Count("dma", n)
  /\ UNCHANGED <<descr, me, egress, ingress, ring, tm, app, nulled>>

TmFree(n) ==
  /\ flight >= n /\ tm + n <= TmBacklog
  /\ Heard("tm") \/ tm + n <= Early
  /\ flight' = flight - n /\ tm' = tm + n
  /\ Count("tm", n)
  /\ UNCHANGED <<descr, me, egress, ingress, ring, dma, app, nulled>>

\* Faulty variant: the underflow signal of the pop is ignored.
AppAllocUnchecked(n) ==
  /\ ring' = ring - n /\ app' = app + n
  /\ UNCHANGED <<descr, me, egress, ingress, dma, tm, flight, nulled, ev>>

\* blm_buf_alloc_bulk: all or nothing; on underflow it returns -1.
AppAlloc(n) ==
  /\ ring >= n
  /\ ring' = ring - n /\ app' = app + n
  /\ UNCHANGED <<descr, me, egress, ingress, dma, tm, flight, nulled, ev>>

\* blm_buf_free, blm_buf_free_bulk: the ring is not checked for room.
AppFree(n) ==
  /\ app >= n
  /\ app' = app - n /\ ring' = ring + n
  /\ UNCHANGED <<descr, me, egress, ingress, dma, tm, flight, nulled, ev>>

\* An application sends a packet it built in a buffer it allocated.
AppSend(n) ==
  /\ app >= n
  /\ app' = app - n /\ flight' = flight + n
  /\ UNCHANGED <<descr, me, egress, ingress, ring, dma, tm, nulled, ev>>

(***************************************************************************)
(* The egress context (blm_egress_blq_processing).                         *)
(***************************************************************************)

\* Filter and monitor are set without swapping out; then engage and wait.
EgressStart ==
  /\ me = "egress" /\ epc = "start"
  /\ epc' = "wait" /\ ev' = Engaged("tm")
  /\ SwapOut("egress")
  /\ UNCHANGED <<descr, ecur, eprev, edef, ingress, ring, dma, tm, flight, app, nulled>>

EgressWake ==
  /\ me = "none" /\ epc = "wait" /\ ev["tm"].sig
  /\ me' = "egress" /\ epc' = "loop" /\ ev' = Consumed("tm")
  /\ ecur' = ev["tm"].data
  /\ edef' = Deficit(ev["tm"].data, eprev)
  /\ UNCHANGED <<descr, eprev, ingress, ring, dma, tm, flight, app, nulled>>

InEgressLoop == me = "egress" /\ epc = "loop" /\ edef >= Threshold

\* blm_egress_null_buffer_recycle: the buffers go to the null address.
EgressNullRecycle ==
  /\ InEgressLoop /\ "egress" \in NullRecycle
  /\ tm' = tm - Threshold /\ nulled' = nulled + Threshold
  /\ edef' = edef - Threshold
  /\ UNCHANGED <<descr, me, epc, ecur, eprev, ingress, ring, dma, flight, app, ev>>

\* blm_recycle: from the TM's list straight to the DMA engine's.
EgressRecycle ==
  /\ InEgressLoop /\ "egress" \notin NullRecycle
  /\ dmaPend # 0
  /\ tm' = tm - Threshold /\ dma' = dma + Threshold
  /\ dmaPend' = dmaPend - 1
  /\ edef' = edef - Threshold
  /\ UNCHANGED <<cacheCnt, cacheBusy, me, epc, ecur, eprev, ingress, ring, flight,
                 app, nulled, ev>>

EgressNeedCache ==
  /\ InEgressLoop /\ "egress" \notin NullRecycle
  /\ dmaPend = 0
  /\ epc' = "acquire"
  /\ UNCHANGED <<descr, me, ecur, eprev, edef, ingress, ring, dma, tm, flight, app,
                 nulled, ev>>

\* The lock is busy: swap out.  The context is ready all the time, so it runs
\* when the other one swaps out.
EgressSpin ==
  /\ me = "egress" /\ epc = "acquire" /\ cacheBusy
  /\ SwapOut("egress")
  /\ UNCHANGED <<descr, egress, ingress, ring, dma, tm, flight, app, nulled, ev>>

\* Faulty variant: the high water mark is not looked at.
EgressPullToRingAlways ==
  /\ me = "egress" /\ epc = "acquire" /\ ~cacheBusy
  /\ tm' = tm - Threshold /\ ring' = ring + Threshold
  /\ edef' = edef - Threshold /\ epc' = "loop"
  /\ UNCHANGED <<descr, me, ecur, eprev, ingress, dma, flight, app, nulled, ev>>

\* The lock is taken, the count read and the lock released without a swap:
\* the cache is full enough and the buffers go to the EMU ring.
EgressPullToRing ==
  /\ me = "egress" /\ epc = "acquire" /\ ~cacheBusy
  /\ cacheCnt >= HighWaterMark
  /\ tm' = tm - Threshold /\ ring' = ring + Threshold
  /\ edef' = edef - Threshold /\ epc' = "loop"
  /\ UNCHANGED <<descr, me, ecur, eprev, ingress, dma, flight, app, nulled, ev>>

\* Faulty variant: the flag is set without waiting for it.
EgressPullToCacheUnlocked ==
  /\ me = "egress" /\ epc = "acquire"
  /\ cacheCnt < HighWaterMark
  /\ cacheBusy' = TRUE
  /\ tm' = tm - Threshold /\ cacheCnt' = cacheCnt + Threshold
  /\ epc' = "pull" /\ SwapOut("egress")
  /\ UNCHANGED <<dmaPend, ecur, eprev, edef, ingress, ring, dma, flight, app, nulled, ev>>

\* blm_egress_pull_buffers_to_cache up to its swap: the TM writes the
\* buffers into the cache while the context waits with the lock held.
EgressPullToCache ==
  /\ me = "egress" /\ epc = "acquire" /\ ~cacheBusy
  /\ cacheCnt < HighWaterMark
  /\ cacheBusy' = TRUE
  /\ tm' = tm - Threshold /\ cacheCnt' = cacheCnt + Threshold
  /\ epc' = "pull" /\ SwapOut("egress")
  /\ UNCHANGED <<dmaPend, ecur, eprev, edef, ingress, ring, dma, flight, app, nulled, ev>>

\* Faulty variant: the lock is not released.
EgressPulledKeepsLock ==
  /\ me = "none" /\ epc = "pull"
  /\ me' = "egress" /\ epc' = "loop" /\ edef' = edef - Threshold
  /\ UNCHANGED <<descr, ecur, eprev, ingress, ring, dma, tm, flight, app, nulled, ev>>

EgressPulled ==
  /\ me = "none" /\ epc = "pull"
  /\ cacheBusy' = FALSE
  /\ me' = "egress" /\ epc' = "loop" /\ edef' = edef - Threshold
  /\ UNCHANGED <<cacheCnt, dmaPend, ecur, eprev, ingress, ring, dma, tm, flight, app,
                 nulled, ev>>

\* Faulty variant: the deficit pointer is not updated.
EgressDoneForgets ==
  /\ me = "egress" /\ epc = "loop" /\ edef < Threshold
  /\ epc' = "wait" /\ ev' = Engaged("tm")
  /\ SwapOut("egress")
  /\ UNCHANGED <<descr, ecur, eprev, edef, ingress, ring, dma, tm, flight, app, nulled>>

EgressDone ==
  /\ me = "egress" /\ epc = "loop" /\ edef < Threshold
  /\ eprev' = ecur /\ epc' = "wait" /\ ev' = Engaged("tm")
  /\ SwapOut("egress")
  /\ UNCHANGED <<descr, ecur, edef, ingress, ring, dma, tm, flight, app, nulled>>

(***************************************************************************)
(* The ingress context (blm_ingress_blq_processing).                       *)
(***************************************************************************)
ingressRest == <<icur, iprev, idef, isAps>>

(* blm_cache_fill up to its first swap: pop Fill buffers from the EMU ring *)
(* into transfer registers; the pop fails as a whole when they are not     *)
(* there.                                                                  *)
PopRing ==
  /\ ipc' = "pop"
  /\ IF ring >= Fill THEN ring' = ring - Fill /\ held' = Fill
                     ELSE UNCHANGED <<ring, held>>
  /\ SwapOut("ingress")

\* Filter and monitor are set without swapping out.
IngressStart ==
  /\ me = "ingress" /\ ipc = "start"
  /\ ipc' = "init"
  /\ UNCHANGED <<descr, me, egress, ingressRest, held, filled, ring, dma, tm, flight,
                 app, nulled, ev>>

IngressInitFill ==
  /\ me = "ingress" /\ ipc = "init" /\ cacheCnt < CacheSize
  /\ PopRing
  /\ UNCHANGED <<descr, egress, ingressRest, filled, dma, tm, flight, app, nulled, ev>>

\* The monitor is engaged for the first time once the cache is full.
IngressInitFull ==
  /\ me = "ingress" /\ ipc = "init" /\ cacheCnt >= CacheSize
  /\ ipc' = "first" /\ filled' = TRUE /\ ev' = Engaged("dma")
  /\ SwapOut("ingress")
  /\ UNCHANGED <<descr, egress, ingressRest, held, ring, dma, tm, flight, app, nulled>>

IngressPopped ==
  /\ me = "none" /\ ipc = "pop" /\ held > 0
  /\ me' = "ingress" /\ ipc' = "fillacq"
  /\ UNCHANGED <<descr, egress, ingressRest, held, filled, ring, dma, tm, flight, app,
                 nulled, ev>>

\* The EMU ring underflowed: leave the fill loop, initial or not.
IngressUnderflow ==
  /\ me = "none" /\ ipc = "pop" /\ held = 0
  /\ IF filled
     THEN ipc' = "done" /\ me' = "ingress" /\ UNCHANGED <<filled, ev>>
     ELSE ipc' = "first" /\ filled' = TRUE /\ ev' = Engaged("dma")
          /\ SwapOut("ingress")
  /\ UNCHANGED <<descr, egress, ingressRest, held, ring, dma, tm, flight, app, nulled>>

\* The lock is free: write the buffers at the top of the cache and wait.
IngressFillWrite ==
  /\ me = "ingress" /\ ipc = "fillacq" /\ ~cacheBusy
  /\ cacheBusy' = TRUE
  /\ ipc' = "write" /\ SwapOut("ingress")
  /\ UNCHANGED <<cacheCnt, dmaPend, egress, ingressRest, held, filled, ring, dma, tm,
                 flight, app, nulled, ev>>

\* Faulty variant: a fill is counted as if it were an event's worth.
IngressFilledByThreshold ==
  /\ me = "none" /\ ipc = "write"
  /\ me' = "ingress" /\ ipc' = IF filled THEN "refill" ELSE "init"
  /\ cacheBusy' = FALSE
  /\ cacheCnt' = cacheCnt + Threshold /\ held' = 0
  /\ UNCHANGED <<dmaPend, egress, ingressRest, filled, ring, dma, tm, flight, app,
                 nulled, ev>>

IngressFilled ==
  /\ me = "none" /\ ipc = "write"
  /\ me' = "ingress" /\ ipc' = IF filled THEN "refill" ELSE "init"
  /\ cacheBusy' = FALSE
  /\ cacheCnt' = cacheCnt + Fill /\ held' = 0
  /\ UNCHANGED <<dmaPend, egress, ingressRest, filled, ring, dma, tm, flight, app,
                 nulled, ev>>

\* An event: after the first wait, in the main wait, or one that arrived
\* while the context served an alarm.
IngressEvent ==
  /\ \/ me = "none" /\ ipc \in {"first", "wait"}
     \/ me = "ingress" /\ ipc = "done"
  /\ ev["dma"].sig
  /\ me' = "ingress" /\ ipc' = "serve" /\ isAps' = TRUE /\ ev' = Consumed("dma")
  /\ LET prev == IF ipc = "done" THEN icur ELSE iprev
     IN  iprev' = prev /\ idef' = Deficit(ev["dma"].data, prev)
  /\ icur' = ev["dma"].data
  /\ UNCHANGED <<descr, egress, held, filled, ring, dma, tm, flight, app, nulled>>

\* The alarm: the count of the last event is looked at once more.
IngressAlarm ==
  /\ me = "none" /\ ipc = "wait" /\ ~ev["dma"].sig
  /\ me' = "ingress" /\ ipc' = "serve" /\ isAps' = FALSE
  /\ idef' = Deficit(icur, iprev)
  /\ UNCHANGED <<descr, egress, icur, iprev, held, filled, ring, dma, tm, flight, app,
                 nulled, ev>>

\* blm_ingress_null_buffer_recycle: the DMA engine gets null buffers.
IngressNullRecycle ==
  /\ me = "ingress" /\ ipc = "serve" /\ idef >= Threshold
  /\ "ingress" \in NullRecycle
  /\ dma' = dma + Threshold /\ nulled' = nulled - Threshold
  /\ idef' = idef - Threshold
  /\ UNCHANGED <<descr, me, egress, ipc, icur, iprev, isAps, held, filled, ring, tm,
                 flight, app, ev>>

IngressCountEvent ==
  /\ me = "ingress" /\ ipc = "serve" /\ idef >= Threshold
  /\ "ingress" \notin NullRecycle
  /\ dmaPend' = dmaPend + 1 /\ idef' = idef - Threshold
  /\ UNCHANGED <<cacheCnt, cacheBusy, me, egress, ipc, icur, iprev, isAps, held,
                 filled, ring, dma, tm, flight, app, nulled, ev>>

IngressCounted ==
  /\ me = "ingress" /\ ipc = "serve" /\ idef < Threshold
  /\ ipc' = IF "ingress" \in NullRecycle THEN "done" ELSE "feed"
  /\ UNCHANGED <<descr, me, egress, ingressRest, held, filled, ring, dma, tm, flight,
                 app, nulled, ev>>

\* Faulty variant: the comparison with MaxPending is off by one.
IngressFeedOffByOne ==
  /\ me = "ingress" /\ ipc = "feed"
  /\ ipc' = IF dmaPend >= MaxPending THEN "feedacq"
            ELSE IF isAps THEN "done" ELSE "refill"
  /\ UNCHANGED <<descr, me, egress, ingressRest, held, filled, ring, dma, tm, flight,
                 app, nulled, ev>>

\* MaxPending events are left for the egress context; beyond that the
\* cache is asked.  Only an alarm goes on to refill the cache.
IngressFeed ==
  /\ me = "ingress" /\ ipc = "feed"
  /\ ipc' = IF dmaPend > MaxPending THEN "feedacq"
            ELSE IF isAps THEN "done" ELSE "refill"
  /\ UNCHANGED <<descr, me, egress, ingressRest, held, filled, ring, dma, tm, flight,
                 app, nulled, ev>>

\* blm_ingress_push_buffers_from_cache: MaxPending is not looked at again.
IngressPush ==
  /\ me = "ingress" /\ ipc = "feedacq" /\ ~cacheBusy
  /\ cacheCnt >= Threshold
  /\ cacheCnt' = cacheCnt - Threshold /\ dma' = dma + Threshold
  /\ dmaPend' = dmaPend - 1
  /\ ipc' = "feed"
  /\ UNCHANGED <<cacheBusy, me, egress, ingressRest, held, filled, ring, tm, flight,
                 app, nulled, ev>>

IngressCacheLow ==
  /\ me = "ingress" /\ ipc = "feedacq" /\ ~cacheBusy
  /\ cacheCnt < Threshold
  /\ ipc' = IF isAps THEN "done" ELSE "refill"
  /\ UNCHANGED <<descr, me, egress, ingressRest, held, filled, ring, dma, tm, flight,
                 app, nulled, ev>>

IngressRefill ==
  /\ me = "ingress" /\ ipc = "refill" /\ ~cacheBusy
  /\ cacheCnt < HighWaterMark
  /\ PopRing
  /\ UNCHANGED <<descr, egress, ingressRest, filled, dma, tm, flight, app, nulled, ev>>

IngressRefilled ==
  /\ me = "ingress" /\ ipc = "refill" /\ ~cacheBusy
  /\ cacheCnt >= HighWaterMark
  /\ ipc' = "done"
  /\ UNCHANGED <<descr, me, egress, ingressRest, held, filled, ring, dma, tm, flight,
                 app, nulled, ev>>

IngressSpin ==
  /\ me = "ingress" /\ Ready("ingress") /\ cacheBusy
  /\ SwapOut("ingress")
  /\ UNCHANGED <<descr, egress, ingress, ring, dma, tm, flight, app, nulled, ev>>

\* Faulty variant: the one-shot monitor is not engaged again.
IngressWaitDisengaged ==
  /\ me = "ingress" /\ ipc = "done" /\ ~ev["dma"].sig
  /\ iprev' = icur /\ ipc' = "wait"
  /\ SwapOut("ingress")
  /\ UNCHANGED <<descr, egress, icur, idef, isAps, held, filled, ring, dma, tm, flight,
                 app, nulled, ev>>

IngressWait ==
  /\ me = "ingress" /\ ipc = "done" /\ ~ev["dma"].sig
  /\ iprev' = icur /\ ipc' = "wait" /\ ev' = Engaged("dma")
  /\ SwapOut("ingress")
  /\ UNCHANGED <<descr, egress, icur, idef, isAps, held, filled, ring, dma, tm, flight,
                 app, nulled>>

(***************************************************************************)
(* The specification.  Init is the state blm_ctx_init leaves, with the     *)
(* ingress context (context 0, 2, 4 or 6) the first to run.                *)
(***************************************************************************)
Init ==
  /\ cacheCnt = 0 /\ dmaPend = 0 /\ cacheBusy = FALSE
  /\ me = "ingress"
  /\ epc = "start" /\ ecur = 0 /\ eprev = 0 /\ edef = 0
  /\ ipc = "start" /\ icur = 0 /\ iprev = 0 /\ idef = 0 /\ isAps = FALSE
  /\ held = 0 /\ filled = FALSE
  /\ ring = RingInit /\ dma = DmaInit
  /\ tm = 0 /\ flight = 0 /\ app = 0 /\ nulled = 0
  /\ ev = [s \in Sides |-> [part |-> 0, count |-> 0, fresh |-> FALSE,
                           armed |-> FALSE, sig |-> FALSE, data |-> 0]]

EgressNormal ==
  \/ EgressStart \/ EgressWake \/ EgressRecycle \/ EgressNeedCache \/ EgressSpin
  \/ EgressPullToRing \/ EgressPullToCache \/ EgressPulled \/ EgressDone

EgressNext == EgressNormal \/ EgressNullRecycle

IngressNormal ==
  \/ IngressStart \/ IngressInitFill \/ IngressInitFull \/ IngressPopped \/ IngressUnderflow
  \/ IngressFillWrite \/ IngressFilled \/ IngressEvent \/ IngressAlarm
  \/ IngressCountEvent \/ IngressCounted \/ IngressFeed
  \/ IngressPush \/ IngressCacheLow \/ IngressRefill \/ IngressRefilled
  \/ IngressSpin \/ IngressWait

IngressNext == IngressNormal \/ IngressNullRecycle

NbiNext ==
  \/ \E s \in Sides : AutoPush(s)
  \/ \E n \in NbiBatch : DmaTake(n) \/ TmFree(n)

AppNext == \E n \in AppBatch : AppAlloc(n) \/ AppFree(n) \/ AppSend(n)

Next == EgressNext \/ IngressNext \/ NbiNext \/ AppNext

\* The steps of a build without null recycling.
NormalNext == EgressNormal \/ IngressNormal \/ NbiNext \/ AppNext

Spec == Init /\ [][Next]_vars

(* The arbiter takes turns, so a context that can run again and again is   *)
(* run; memory commands complete, the alarm goes off, the event bus        *)
(* delivers, and the NBI transmits the packets it has (it need not receive *)
(* any, and applications need not give back what they hold).               *)
Fairness ==
  /\ SF_vars(EgressNext) /\ SF_vars(IngressNext)
  /\ \A s \in Sides : WF_vars(AutoPush(s))
  /\ WF_vars(\E n \in NbiBatch : TmFree(n))

\* What is scheduled fairly is the build without null recycling.
FairSpec == Init /\ [][NormalNext]_vars /\ Fairness

(***************************************************************************)
(* What the manager promises.                                              *)
(***************************************************************************)
EventState == [part : Nat, count : Nat, fresh : BOOLEAN, armed : BOOLEAN,
               sig : BOOLEAN, data : Nat]

\* The registers, counters and labels stay in their types.
TypeOK ==
  /\ cacheCnt \in Int /\ dmaPend \in Int /\ cacheBusy \in BOOLEAN
  /\ me \in Contexts \cup {"none"}
  /\ epc \in EgressLabels /\ ecur \in Nat /\ eprev \in Nat /\ edef \in Int
  /\ ipc \in IngressLabels /\ icur \in Nat /\ iprev \in Nat /\ idef \in Int
  /\ isAps \in BOOLEAN /\ held \in {0, Fill} /\ filled \in BOOLEAN
  /\ ring \in Nat /\ dma \in Nat /\ flight \in Nat /\ app \in Nat
  /\ tm \in Int /\ nulled \in Int
  /\ ev \in [Sides -> EventState]

(* The cache never holds more than its memory: neither a pull of Threshold *)
(* buffers nor a block of Fill written on a count that was read before the *)
(* ring pop swapped out and the lock was waited for.                       *)
CacheNeverOverflows == cacheCnt \in 0 .. CacheSize

(* While one context waits for its write at the top of the cache, no step  *)
(* of the other moves the top.                                             *)
LockedCacheStable ==
  [][ (epc = "pull" /\ epc' = "pull") \/ (ipc = "write" /\ ipc' = "write")
        => cacheCnt' = cacheCnt ]_vars

\* What the NBI has counted beyond the count a context last read.
Unread(s, cur) == Deficit(ev[s].count, cur)

\* And with what no event has reported yet.
Unseen(s, cur) == Unread(s, cur) + ev[s].part

(* DMA side of the books: what is in the DMA engine's list, what is owed   *)
(* to it (pending, being counted, or in an event not read yet) and what no *)
(* event has reported yet add up, whatever events were merged.             *)
DmaLedger ==
  dma + (Threshold * dmaPend + idef) + Unseen("dma", icur) = DmaInit

(* TM side of the books: the egress context recycles exactly the buffers   *)
(* the TM has freed, so it never pops a buffer that is not there.          *)
TmLedger ==
  tm + (IF epc = "pull" THEN Threshold ELSE 0)
    = edef + Unseen("tm", ecur)

\* Every buffer is in exactly one place.
BuffersConserved ==
  (dma + flight + tm) + (ring + app + held) + (cacheCnt + nulled) = TotalBuffers

(* The EMU ring always has room for what comes back to it, although        *)
(* neither the journal of the egress context nor blm_buf_free checks.      *)
RingNeverOverflows == ring + app + held <= RingCap

(* The DMA engine's list never gets more buffers than were taken from it.  *)
DmaNeverOverfed == dma <= DmaInit

(* Egress pushes to ingress directly only if a DMA event is pending, as    *)
(* the comment on that branch says.                                        *)
DirectRecycleServesPending == [][EgressRecycle => dmaPend > 0]_vars

(* An empty DMA list is refilled.                                          *)
DmaNotStarved == dma = 0 ~> dma > 0

(* A context that waits for the cache lock gets it.                        *)
LockObtained == /\ (epc = "acquire") ~> (epc # "acquire")
                /\ (ipc \in {"fillacq", "feedacq"})
                     ~> (ipc \notin {"fillacq", "feedacq"})
=============================================================================
