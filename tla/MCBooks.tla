------------------------------- MODULE MCBooks -------------------------------
(***************************************************************************)
(* The books that must balance, on small instances: the credits for CTM    *)
(* packets, the statistics of the MAC, and the buffers the lists of the    *)
(* Buffer List Manager are filled with.  A word of the statistics has 4    *)
(* values and a port 6 words in segments of 2; the NBI has 2 BLQs in a     *)
(* BDSRAM of 6 entries, buffers come from 2 memories.  None of these share *)
(* state, so a behaviour is about one of them.                             *)
(***************************************************************************)
EXTENDS MCCtmCredits, MacStats, RingFill

VARIABLE part   \* what the behaviour is about

MCPortMasks == {{0, 1}, {3}}

MCRegions == <<"imem0", "emem0">>

\* Lists that are empty, full and in between; a size no MuAddr can count in; a
\* density above the number of buffers, and one of none.
MCSettings ==
  [len : {2, 4}, size : {4}, bufsize : {3, 4},
   blq : {<<0, 0>>, <<1, 0>>, <<2, 2>>, <<3, 1>>}, emu : {<<2, 0>>, <<3, 1>>},
   density : {<<1, 1>>, <<2, 1>>, <<0, 3>>}]

\* The threads are alike.
Symmetry == Permutations(Threads \cup Callers)

\* Without settings of its own the filling is over.
NoFill ==
  /\ cfg = <<>> /\ todo = <<>> /\ step = "check" /\ region = 1 /\ density = 0
  /\ left = <<>> /\ off = <<>> /\ slot = 0 /\ mem = <<>> /\ blq_head = 0 /\ desc = <<>>

MCInit ==
  /\ Init /\ StatsInit
  /\ \/ part \in {"credits", "ports", "drops", "program"} /\ NoFill
     \/ part = "fill" /\ FillInit

MCNext ==
  \/ part = "credits" /\ Next /\ UNCHANGED <<part, mac_vars, fill_vars>>
  \/ part = "ports" /\ PortNext /\ UNCHANGED <<part, vars, fill_vars>>
  \/ part = "drops" /\ DropNext /\ UNCHANGED <<part, vars, fill_vars>>
  \/ part = "program" /\ ProgramNext /\ UNCHANGED <<part, vars, fill_vars>>
  \/ part = "fill" /\ FillNext /\ UNCHANGED <<part, vars, mac_vars>>

MCSpec == MCInit /\ [][MCNext]_<<part, vars, mac_vars, fill_vars>>
=============================================================================
