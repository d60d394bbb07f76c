------------------------------ MODULE MCForward ------------------------------
(***************************************************************************)
(* The forwarding application (Wire), and what its libraries do to one     *)
(* packet (MCPacket).  They share no state, so a behaviour is about one.   *)
(***************************************************************************)
EXTENDS MCWire, MCPacket

\* The packet's part waits for nothing, and the application waits for packets.
NoPacket == part = "wire" /\ NoMsd /\ NoHdr /\ NoSum

MCInit == Init /\ (PacketInit \/ NoPacket)

MCNext ==
  \/ part = "wire" /\ Next /\ UNCHANGED packet_vars
  \/ PacketNext /\ UNCHANGED vars

MCSpec ==
  MCInit /\ [][MCNext]_<<vars, packet_vars>> /\ Fairness /\ PacketFairness
=============================================================================
