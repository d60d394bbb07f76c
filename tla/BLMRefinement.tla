---------------------------- MODULE BLMRefinement ----------------------------
(* The Buffer List Manager implements the abstract pool of buffers: the    *)
(* cache, the EMU ring and the buffers on their way between the two are    *)
(* the pool; the packets in flight, the TM's list and the applications are *)
(* the outside.                                                            *)
EXTENDS BLM

Pool == INSTANCE BufferPool WITH
          Level <- DmaInit, Batch <- Threshold, Stock <- RingInit,
          Moves <- NbiBatch \cup AppBatch,
          list <- dma, out <- flight + tm + app, pool <- ring + held + cacheCnt

(* Whatever the interleaving of the two contexts, every step of the        *)
(* manager is one move of buffers of the pool or moves none: no buffer is  *)
(* lost or handed out twice between the ring, the cache and the registers, *)
(* and the DMA engine is given a batch only when one is owed to it.        *)
ImplementsPool == Pool!Spec
=============================================================================
