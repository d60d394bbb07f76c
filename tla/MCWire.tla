------------------------------- MODULE MCWire -------------------------------
EXTENDS WireInvariant

(* Both ports, tagged and not, each VLAN that is told apart, priorities that
   differ from the one to be set. *)
MCFrames ==
  { [port |-> 0,  tpid |-> "8100", tci |-> 5 * 8192 + 4096 + 2, len |-> 72],
    [port |-> 16, tpid |-> "8100", tci |-> 5 * 8192 + 3,        len |-> 100],
    [port |-> 16, tpid |-> "8100", tci |-> 5 * 8192 + 4,        len |-> 72],
    [port |-> 0,  tpid |-> "0800", tci |-> 3 * 8192 + 2,        len |-> 100] }
=============================================================================
