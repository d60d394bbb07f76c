----------------------------- MODULE BufferPool -----------------------------
(***************************************************************************)
(* What the Buffer List Manager promises of the buffers of one BLQ, and    *)
(* nothing of how: a buffer is in the list the DMA engine draws from, out  *)
(* with the NBI or an application, or in the pool the manager keeps.  The  *)
(* list is topped up a batch at a time, from the pool or straight from the *)
(* buffers that come back, and never above the level it was loaded with.   *)
(***************************************************************************)
EXTENDS Integers

CONSTANTS
  Level,  \* buffers the list was loaded with, a number
  Batch,  \* buffers in one supply, a number above 0
  Stock,  \* buffers the pool was loaded with, a number
  Moves   \* how many buffers the users of the pool move at once, a set

VARIABLES list, out, pool

vars == <<list, out, pool>>

Init == list = Level /\ out = 0 /\ pool = Stock

\* A packet is received into a buffer of the list.
Take(n) ==
  /\ list >= n
  /\ list' = list - n /\ out' = out + n
  /\ UNCHANGED pool

\* There is room in the list for a batch, so a batch is owed to it.
Owed == list + Batch <= Level

\* Buffers that come back pass the pool by.
Recycle ==
  /\ Owed /\ out >= Batch
  /\ out' = out - Batch /\ list' = list + Batch
  /\ UNCHANGED pool

Supply ==
  /\ Owed /\ pool >= Batch
  /\ pool' = pool - Batch /\ list' = list + Batch
  /\ UNCHANGED out

\* Buffers that come back are kept.
Store(n) ==
  /\ out >= n
  /\ out' = out - n /\ pool' = pool + n
  /\ UNCHANGED list

\* An application allocates buffers.
Draw(n) ==
  /\ pool >= n
  /\ pool' = pool - n /\ out' = out + n
  /\ UNCHANGED list

Next ==
  \/ Recycle \/ Supply \/ Store(Batch)
  \/ \E n \in Moves : Take(n) \/ Store(n) \/ Draw(n)

Spec == Init /\ [][Next]_vars
=============================================================================
