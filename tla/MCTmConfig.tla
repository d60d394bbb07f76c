----------------------------- MODULE MCTmConfig -----------------------------
(* TmConfig on a small traffic manager; the clusters are what an           *)
(* application may have in memory.                                         *)
EXTENDS TmConfig, TLC

(* One number, a range over both levels, one up to the largest unsigned    *)
(* number, and an empty one.                                               *)
MCRanges == {<<0, 0>>, <<1, 3>>, <<2, 7>>, <<3, 1>>}

MCCluster(r, used, last) ==
  [in_use |-> used, last |-> last, start |-> r[1], end |-> r[2]]

MCHeads == {MCCluster(r, TRUE, l) : r \in MCRanges, l \in BOOLEAN}
           \cup {MCCluster(<<0, 3>>, FALSE, FALSE)}

MCSchedClusters ==
  {c @@ [dwrrenable |-> d, config |-> IF d THEN "dwrr" ELSE "strict", weight |-> "w"] :
     c \in MCHeads, d \in BOOLEAN}
MCShaperClusters == {c @@ [shaper |-> s] : c \in MCHeads, s \in {"slow", "fast"}}
MCQueueClusters  == {c @@ [queuesize |-> n] : c \in MCHeads, n \in {2, 3, 5}}
MCEntries == [n \in {2, 3, 5} |-> 2 ^ n]

MCL0Schedulers ==
  {[in_use |-> u, dwrrenable |-> d, config |-> "l0", weight |-> w] :
     u \in BOOLEAN, d \in BOOLEAN, 
     w \in {[n \in 0 .. 3 |-> IF n \in heavy THEN "heavy" ELSE "light"] :
             heavy \in {{0, 2}, {1, 2}}}}
=============================================================================
