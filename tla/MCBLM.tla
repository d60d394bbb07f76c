-------------------------------- MODULE MCBLM --------------------------------
(* BLM on small instances; the configurations give the constants.          *)
EXTENDS BLMRefinement, BLMInvariant
=============================================================================
