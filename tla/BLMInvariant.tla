---------------------------- MODULE BLMInvariant ----------------------------
(***************************************************************************)
(* The inductive invariants of the Buffer List Manager: what has to be     *)
(* known of the labels, the lock and the counts for the invariants of BLM  *)
(* to follow from one step to the next.                                    *)
(***************************************************************************)
EXTENDS BLM

\* The flag is up while one context, and only one, waits for its write.
LockHeld ==
  /\ cacheBusy <=> (epc = "pull" \/ ipc = "write")
  /\ ~(epc = "pull" /\ ipc = "write")

\* The registers hold a block exactly between the pop and the write.
RegistersHeld ==
  /\ held \in {0, Fill}
  /\ ipc \in {"fillacq", "write"} => held = Fill
  /\ held = Fill => ipc \in {"pop", "fillacq", "write"}

\* There is room for the block in the registers before the lock is asked for.
CacheRoom == cacheCnt >= 0 /\ cacheCnt % Fill = 0 /\ cacheCnt + held <= CacheSize

\* A whole number of batches, and a count the NBI may report.
Whole(x)   == x % Threshold = 0
IsCount(c) == c \in 0 .. CountMod - 1 /\ Whole(c)

\* The count last read, the count last pushed and the NBI's count follow
\* each other on the circle of counts.
InOrder(s, cur) ==
  Unread(s, cur) = Deficit(ev[s].data, cur) + Unread(s, ev[s].data)

SideOK(s, cur) ==
  /\ IsCount(cur) /\ IsCount(ev[s].count) /\ IsCount(ev[s].data)
  /\ ev[s].part \in 0 .. Threshold - 1
  /\ InOrder(s, cur)

\* The egress context leaves nothing of a deficit behind.
EgressDeficit ==
  /\ edef >= 0 /\ Whole(edef) /\ edef <= TmBacklog
  /\ epc \in {"acquire", "pull"} => edef >= Threshold
  /\ epc \in {"start", "wait"} => edef = 0 /\ eprev = ecur

TmInv == SideOK("tm", ecur) /\ EgressDeficit /\ TmLedger /\ tm <= TmBacklog

\* What holds whatever the TM holds back.
IInv ==
  /\ TypeOK /\ LockHeld /\ RegistersHeld /\ CacheRoom
  /\ TmInv /\ BuffersConserved

IngressDeficit ==
  /\ idef >= 0 /\ Whole(idef)
  /\ ipc # "serve" => idef = 0
  /\ ipc \in {"first", "wait"} => iprev = icur
  /\ ~filled => ipc \in {"start", "init", "pop", "fillacq", "write"} /\ iprev = icur
  /\ filled => ipc \notin {"start", "init"}

(* The ingress context found more than MaxPending events pending and wants *)
(* the lock: an event is still pending when it gets it.  It may have to    *)
(* wait for one pull; the egress context then goes on with what is left of *)
(* its deficit, and serves at most that many events before the ingress     *)
(* context runs.                                                           *)
FeedOwed ==
  ipc = "feedacq" =>
    \/ me = "ingress" /\ dmaPend > 0 /\ (cacheBusy => dmaPend > MaxPending)
    \/ me = "none" /\ epc = "pull" /\ dmaPend > MaxPending
    \/ me = "egress" /\ epc = "loop" /\ Threshold * dmaPend >= edef + Threshold

DmaInv ==
  SideOK("dma", icur) /\ IngressDeficit /\ DmaLedger /\ dmaPend >= 0 /\ FeedOwed

\* What holds as long as the TM holds no more than MaxPending + 1 batches.
BoundedBacklog == TmBacklog <= (MaxPending + 1) * Threshold
DInv == IInv /\ DmaInv
=============================================================================
