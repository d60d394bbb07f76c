----------------------------- MODULE MCBLMSafety -----------------------------
(***************************************************************************)
(* Two builds of the Buffer List Manager: one whose contexts recycle null  *)
(* buffers, with a backlog of the traffic manager of three batches (the    *)
(* constants of the configuration), and the one that is shipped, with a    *)
(* backlog of two.  A behaviour is one of either.                          *)
(***************************************************************************)
EXTENDS MCBLM

VARIABLE build

Shipped == INSTANCE BLM WITH NullRecycle <- {}, TmBacklog <- 2 * Threshold

\* Both start alike.
MCInit == build \in {"shipped", "null"} /\ Init

MCNext ==
  /\ \/ build = "shipped" /\ Shipped!NormalNext
     \/ build = "null" /\ Next
  /\ UNCHANGED build

MCSpec == MCInit /\ [][MCNext]_<<vars, build>>
=============================================================================
