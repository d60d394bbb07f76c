----------------------------- MODULE CtmCredits -----------------------------
(***************************************************************************)
(* The credits for CTM packets of the packet library: pkt_ctm_get_credits, *)
(* pkt_ctm_poll_pe_credit, pkt_ctm_alloc and pkt_ctm_free, called by the   *)
(* threads of an island, and the packet engine (PE) behind them.  Packet   *)
(* and buffer credits are two words of one structure in CLS; a command on  *)
(* both is one step, and a thread runs its next command when the one it    *)
(* waits for has completed.                                                *)
(***************************************************************************)
EXTENDS Integers, FiniteSets

CONSTANTS
  Threads,
  InitPkts, InitBufs, \* INIT_PKT_CREDITS, INIT_BUF_CREDITS
  Bulk,               \* how many packets are asked for before alloc, a set
  Replenish,          \* replenish_credits
  PeFails             \* whether packet_alloc_poll may fail

ASSUME CreditsAssumption ==
  /\ IsFiniteSet(Threads)
  /\ InitPkts \in Nat /\ InitBufs \in Nat
  /\ Bulk \subseteq Nat \ {0} /\ Replenish \in BOOLEAN /\ PeFails \in BOOLEAN

Amounts == [pkts : Nat, bufs : Nat]
None    == [pkts |-> 0, bufs |-> 0]
Plus(x, y)  == [pkts |-> x.pkts + y.pkts, bufs |-> x.bufs + y.bufs]
Minus(x, y) == [pkts |-> x.pkts - y.pkts, bufs |-> x.bufs - y.bufs]
Lesser(m, n) == IF m < n THEN m ELSE n

VARIABLES
  credits,  \* struct ctm_pkt_credits
  want,     \* per thread: the credits asked for
  hold,     \* per thread: credits in its registers, or acquired
  internal, \* per thread: alloc_internal
  pc,       \* idle, check, asleep, poll, update, retry, alloc, return
  live,     \* packets allocated
  used,     \* buffers these packets occupy
  freed,    \* credits the PE has to give back
  lost      \* credits taken for an allocation that failed

vars == <<credits, want, hold, internal, pc, live, used, freed, lost>>
pe   == <<live, used, freed>>

Labels == {"idle", "check", "asleep", "poll", "update", "retry", "alloc", "return"}

Init ==
  /\ credits = [pkts |-> InitPkts, bufs |-> InitBufs]
  /\ want = [t \in Threads |-> None] /\ hold = [t \in Threads |-> None]
  /\ internal = [t \in Threads |-> FALSE]
  /\ pc = [t \in Threads |-> "idle"]
  /\ live = 0 /\ used = 0 /\ freed = None /\ lost = None

\* Faulty variant: the subtraction does not saturate.
TakenUnsaturated(asked) == asked

\* test_subsat: each word is lowered by what is asked for, or to zero.
Taken(asked) == [pkts |-> Lesser(credits.pkts, asked.pkts),
                 bufs |-> Lesser(credits.bufs, asked.bufs)]

TestSubsat(t, asked) ==
  /\ credits' = Minus(credits, Taken(asked))
  /\ hold' = [hold EXCEPT ![t] = Taken(asked)]
  /\ pc' = [pc EXCEPT ![t] = "check"]

\* pkt_ctm_get_credits, called by the user for n packets.
GetCredits(t, n) ==
  /\ pc[t] = "idle"
  /\ want' = [want EXCEPT ![t] = [pkts |-> n, bufs |-> n]]
  /\ internal' = [internal EXCEPT ![t] = FALSE]
  /\ TestSubsat(t, [pkts |-> n, bufs |-> n])
  /\ UNCHANGED <<pe, lost>>

\* pkt_ctm_alloc with alloc_internal calls it for one packet.
AllocInternal(t) ==
  /\ pc[t] = "idle"
  /\ want' = [want EXCEPT ![t] = [pkts |-> 1, bufs |-> 1]]
  /\ internal' = [internal EXCEPT ![t] = TRUE]
  /\ TestSubsat(t, [pkts |-> 1, bufs |-> 1])
  /\ UNCHANGED <<pe, lost>>

\* The words before the subtraction were large enough, both of them.
Acquired(t) ==
  /\ pc[t] = "check" /\ hold[t] = want[t]
  /\ pc' = [pc EXCEPT ![t] = "alloc"]
  /\ UNCHANGED <<credits, want, hold, internal, pe, lost>>

Short(t) ==
  /\ pc[t] = "check" /\ hold[t] # want[t]
  /\ pc' = [pc EXCEPT ![t] = "asleep"]
  /\ UNCHANGED <<credits, want, hold, internal, pe, lost>>

\* Faulty variant: what was asked for is added back, not what was taken.
AddBackAsked(t) ==
  /\ pc[t] = "asleep"
  /\ credits' = Plus(credits, want[t])
  /\ hold' = [hold EXCEPT ![t] = None]
  /\ pc' = [pc EXCEPT ![t] = IF Replenish THEN "poll" ELSE "retry"]
  /\ UNCHANGED <<want, internal, pe, lost>>

\* After the sleep, the credits that were taken are added back.
AddBack(t) ==
  /\ pc[t] = "asleep"
  /\ credits' = Plus(credits, hold[t])
  /\ hold' = [hold EXCEPT ![t] = None]
  /\ pc' = [pc EXCEPT ![t] = IF Replenish THEN "poll" ELSE "retry"]
  /\ UNCHANGED <<want, internal, pe, lost>>

Retry(t) ==
  /\ pc[t] = "retry"
  /\ TestSubsat(t, want[t])
  /\ UNCHANGED <<want, internal, pe, lost>>

\* A user polls now and then (step 5 of pkt.h).
PollNow(t) ==
  /\ pc[t] = "idle"
  /\ pc' = [pc EXCEPT ![t] = "poll"]
  /\ UNCHANGED <<credits, want, hold, internal, pe, lost>>

Resume(t) == IF want[t] = None THEN "idle" ELSE "retry"

\* pkt_ctm_poll_pe_credit: packet_credit_get.
PollPe(t) ==
  /\ pc[t] = "poll"
  /\ hold' = [hold EXCEPT ![t] = freed] /\ freed' = None
  /\ pc' = [pc EXCEPT ![t] = IF freed = None THEN Resume(t) ELSE "update"]
  /\ UNCHANGED <<credits, want, internal, live, used, lost>>

Update(t) ==
  /\ pc[t] = "update"
  /\ credits' = Plus(credits, hold[t])
  /\ hold' = [hold EXCEPT ![t] = None]
  /\ pc' = [pc EXCEPT ![t] = Resume(t)]
  /\ UNCHANGED <<want, internal, pe, lost>>

(* packet_alloc_poll.  The PE uses the credits of one packet; it gives the *)
(* buffer credit back if the packet fits into a buffer in use, and with it *)
(* what else it has to give back.                                          *)
Alloc(t) ==
  /\ pc[t] = "alloc"
  /\ \E new \in {0, 1} :
       /\ live = 0 => new = 1
       /\ live' = live + 1 /\ used' = used + new
       /\ LET back == Plus(freed, [pkts |-> 0, bufs |-> 1 - new])
              rest == Minus(hold[t], [pkts |-> 1, bufs |-> 1])
          IN  /\ hold' = [hold EXCEPT ![t] = Plus(rest, back)]
              /\ want' = [want EXCEPT ![t] = rest]
  /\ freed' = None
  /\ pc' = [pc EXCEPT ![t] = "return"]
  /\ UNCHANGED <<credits, internal, lost>>

\* The credits the PE gave back are added; then the next packet, if any.
Return(t) ==
  /\ pc[t] = "return"
  /\ credits' = Plus(credits, Minus(hold[t], want[t]))
  /\ hold' = [hold EXCEPT ![t] = want[t]]
  /\ pc' = [pc EXCEPT ![t] = IF want[t] = None THEN "idle" ELSE "alloc"]
  /\ UNCHANGED <<want, internal, pe, lost>>

\* All ones: no packet.  Credits taken internally are not given back; a user
\* who took them keeps them and asks again.
AllocFails(t) ==
  /\ pc[t] = "alloc" /\ PeFails
  /\ IF internal[t]
     THEN /\ lost' = Plus(lost, hold[t])
          /\ hold' = [hold EXCEPT ![t] = None] /\ want' = [want EXCEPT ![t] = None]
          /\ pc' = [pc EXCEPT ![t] = "idle"]
     ELSE UNCHANGED <<lost, hold, want, pc>>
  /\ UNCHANGED <<credits, internal, pe>>

\* pkt_ctm_free, or the NBI that has sent the packet.  The last packet of a
\* buffer frees the buffer.
Free ==
  /\ live > 0
  /\ live' = live - 1
  /\ used' \in {used, used - 1} /\ used' <= live' /\ (live' > 0 => used' > 0)
  /\ freed' = Plus(freed, [pkts |-> 1, bufs |-> used - used'])
  /\ UNCHANGED <<credits, want, hold, internal, pc, lost>>

Step(t) == Acquired(t) \/ Short(t) \/ AddBack(t) \/ Retry(t) \/ PollPe(t) \/ Update(t)
           \/ Alloc(t) \/ Return(t)

Call(t) == AllocInternal(t) \/ PollNow(t) \/ \E n \in Bulk : GetCredits(t, n)

Next == Free \/ \E t \in Threads : Step(t) \/ Call(t) \/ AllocFails(t)

Spec == Init /\ [][Next]_vars

\* A thread that called goes on, its sleeps end, and packets are freed.
FairSpec == Spec /\ WF_vars(Free) /\ \A t \in Threads : WF_vars(Step(t))

(* What the threads hold between them, counted in units: <<t, k>> is the    *)
(* k-th credit of t.                                                       *)
Units(f) == UNION {{t} \X (1 .. f[t]) : t \in Threads}
Held(f)  == Cardinality(Units(f))

PktsHeld == [t \in Threads |-> hold[t].pkts]
BufsHeld == [t \in Threads |-> hold[t].bufs]

\* The structure, the registers and the PE's counts stay numbers.
TypeOK ==
  /\ credits \in Amounts /\ freed \in Amounts /\ lost \in Amounts
  /\ want \in [Threads -> Amounts] /\ hold \in [Threads -> Amounts]
  /\ internal \in [Threads -> BOOLEAN] /\ pc \in [Threads -> Labels]
  /\ live \in Nat /\ used \in 0 .. live

(* Every packet credit and every buffer credit is in one place: in the     *)
(* structure, in a thread's registers, in use, or on its way back; or it   *)
(* was lost with a failed allocation.                                      *)
CreditsConserved ==
  /\ credits.pkts + Held(PktsHeld) + live + freed.pkts + lost.pkts = InitPkts
  /\ credits.bufs + Held(BufsHeld) + used + freed.bufs + lost.bufs = InitBufs

(* What the registers of a thread hold: nothing between the attempts,      *)
(* exactly what is wanted before an allocation, at least that after it.    *)
Right(label, held, wanted) ==
  /\ label \in {"idle", "poll", "retry"} => held = None
  /\ label = "idle" => wanted = None
  /\ label \in {"check", "asleep", "retry", "alloc"} => wanted.pkts > 0
  /\ label = "alloc" => held = wanted
  /\ label = "return" => held.pkts >= wanted.pkts /\ held.bufs >= wanted.bufs
  /\ wanted.pkts = wanted.bufs

\* Every thread's registers are right, and packets occupy buffers.
RegistersRight ==
  /\ \A t \in Threads : Right(pc[t], hold[t], want[t])
  /\ live > 0 => used > 0

(* "Will block until the requested packet and buffer credits could be      *)
(* acquired" (pkt.h): packets are freed, and nobody sits on credits, so    *)
(* the credits of a thread that waits can be acquired; then somebody gets  *)
(* to allocate.                                                            *)
WaitEnds ==
  (\E t \in Threads : pc[t] = "asleep") ~> (\E t \in Threads : pc[t] = "alloc")
=============================================================================
