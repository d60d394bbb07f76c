------------------------------ MODULE MCPacket ------------------------------
(***************************************************************************)
(* What the libraries do to one packet, on small instances: the offsets at *)
(* which a script is written, the walk over the headers (HdrExt), and the  *)
(* sums over the bytes (Csum).  The three share nothing, so a behaviour is *)
(* about one.                                                              *)
(***************************************************************************)
EXTENDS PktModify, HdrExt, Csum

CONSTANTS
  Lengths,    \* packet lengths to try
  MaxBytes    \* bound: bytes of the payloads with any bytes

ASSUME LengthsAssumption == Lengths \subseteq Nat

VARIABLES
  part,               \* the part the behaviour is about
  pkt_off, len, size  \* arguments of PktModify's functions

MCProtocol == [UDP |-> 3, TCP |-> 1]

(* Header words at the ends of their range, and payloads of bytes at the   *)
(* ends of theirs, split between the memories at every place.              *)
IpHeaders == {[n \in 0 .. 9 |-> 0], [n \in 0 .. 9 |-> Byte^4 - 1],
              [n \in 0 .. 9 |-> IF n % 2 = 0 THEN 1 ELSE Byte^4 - 2]}

Payloads ==
  UNION {[1 .. n -> {0, Byte - 1}] : n \in 0 .. MaxBytes}
  \cup {[k \in 1 .. n |-> Byte - 1] : n \in 0 .. 2 * ChunkBytes + 3}

L4Header(protocol, word, length) ==
  [n \in 0 .. 4 |-> IF protocol = "UDP" /\ n = 1 THEN (8 + length) * Byte^2 + Byte ELSE word]

Splits == UNION {{<<SubSeq(b, 1, n), SubSeq(b, n + 1, Len(b))>> : n \in 0 .. Len(b)} : b \in Payloads}

MCPackets ==
  {[type |-> t, protocol |-> p, ip |-> ip, l4_hdr |-> L4Header(p, w, Len(s[1]) + Len(s[2])),
    ctm |-> s[1], mem |-> s[2]] :
     t \in {"IPV4", "IPV6"}, p \in DOMAIN MCProtocol, ip \in IpHeaders,
     w \in {0, Byte^4 - 1}, s \in Splits}

NoMsd == pkt_off = 16 /\ len = 0 /\ size = 0
msd == <<pkt_off, len, size>>
packet_vars == <<part, msd, hdr, sums>>

NoHdr == sz = 0 /\ checked = FALSE /\ proto = "NONE" /\ off = 0 /\ covered = 0
NoSum == pkt = <<>> /\ loop = "none" /\ bytes = <<>> /\ region_sum = 0 /\ sum = 0

PacketInit ==
  \/ part = "script" /\ pkt_off = 16 /\ len \in Lengths /\ size \in 0 .. 3 /\ NoHdr /\ NoSum
  \/ part = "headers" /\ NoMsd /\ WalkInit /\ NoSum
  \/ part = "sums" /\ NoMsd /\ NoHdr /\ SumInit

NextOffset == /\ part = "script" /\ pkt_off < MS_MAX_OFF + 16
        /\ pkt_off' = pkt_off + 1
        /\ UNCHANGED <<part, len, size, hdr, sums>>

ReadHeaders == part = "headers" /\ WalkNext /\ UNCHANGED <<part, msd, sums>>
AddUp   == part = "sums" /\ SumNext /\ UNCHANGED <<part, msd, hdr>>

PacketNext == NextOffset \/ ReadHeaders \/ AddUp

PacketFairness == WF_packet_vars(PacketNext)

PacketSpec == PacketInit /\ [][PacketNext]_packet_vars /\ PacketFairness

(* At every offset pkt_msd_write leaves a script that leads to the packet. *)
ScriptAlwaysSound == ScriptSound(pkt_off)

(* At every offset and length the two sizes account for the whole packet.  *)
DataAlwaysSplit == DataSplit(len, pkt_off, size)
=============================================================================
