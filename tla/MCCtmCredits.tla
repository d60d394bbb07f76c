---------------------------- MODULE MCCtmCredits ----------------------------
(* CtmCredits on small instances; the configurations give the constants.   *)
EXTENDS CtmCredits
=============================================================================
