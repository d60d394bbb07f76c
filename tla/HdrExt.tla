------------------------------- MODULE HdrExt -------------------------------
(***************************************************************************)
(* Header extraction (microc/lib/net/hdr_ext.h): the functions he_*, and   *)
(* the walk over the headers of a packet they are made for: see whether    *)
(* the standard header fits in what is left of the buffer, extract it, add *)
(* the length it returns to the offset, go on with the next protocol it    *)
(* returns.  What a header says is picked when it is read.                 *)
(***************************************************************************)
EXTENDS Integers

CONSTANTS
  BufSizes,        \* sizes of the buffer with the start of the packet
  HeaderLengths,   \* values of the field hl of IPv4 and off of TCP, of 0 .. 15
  Omitted          \* types compiled out with OMIT_NET_*

ASSUME HeadersAssumption ==
  BufSizes \subseteq Nat /\ HeaderLengths \subseteq 0 .. 15

VARIABLES
  sz,        \* size of the buffer
  checked,   \* whether ADD_NET_IP4_CHECK and ADD_NET_IP6_CHECK are defined
  proto,     \* protocol of the header at off
  off,
  covered    \* end of what has been extracted so far

hdr == <<sz, checked, proto, off, covered>>

(* Sizes of the standard headers.                                          *)
HdrSize == [ETHER |-> 14, VLAN |-> 4, ARP |-> 28, IP4 |-> 20, IP6 |-> 40, TCP |-> 20,
            UDP |-> 8, GRE |-> 4, VXLAN |-> 8, MPLS |-> 4, SCTP |-> 12, ICMP |-> 8,
            ESP |-> 8, AH |-> 12]

Extracted == DOMAIN HdrSize
IP6_EXT   == {"IP6_HBH", "IP6_RT", "IP6_FRAG", "IP6_DST", "IP6_MOB", "IP6_HOST_ID", "IP6_SHIM6"}
HE_ERROR  == {"IP4_BAD_VER", "IP4_BAD_HL", "IP4_BAD_TTL", "IP6_BAD_VER", "IP6_BAD_HOP_LIMIT"}
he_proto  == Extracted \cup IP6_EXT \cup HE_ERROR \cup {"NONE", "UNKNOWN"}

(* The cases of the switches: an Ethernet type, or the protocol of an IP   *)
(* header, and what it is called as the next protocol.                     *)
EthTypes == [IPV4 |-> "IP4", TPID |-> "VLAN", IPV6 |-> "IP6", ARP |-> "ARP",
             MPLS |-> "MPLS", TEB |-> "ETHER"]

IpProtos == [ICMP |-> "ICMP", TCP |-> "TCP", UDP |-> "UDP", GRE |-> "GRE", ESP |-> "ESP",
             AH |-> "AH", ICMPV6 |-> "ICMP", SCTP |-> "SCTP", NONE |-> "NONE"]

Ip6Options == [HOPOPT |-> "IP6_HBH", ROUTING |-> "IP6_RT", FRAG |-> "IP6_FRAG",
               DSTOPTS |-> "IP6_DST", MOBILITY |-> "IP6_MOB", HOST_ID |-> "IP6_HOST_ID",
               SHIM6 |-> "IP6_SHIM6"]

ProtocolNames == DOMAIN EthTypes \cup DOMAIN IpProtos \cup DOMAIN Ip6Options \cup {"another"}

Case(t) == IF t \in DOMAIN EthTypes THEN EthTypes[t]
           ELSE IF t \in DOMAIN IpProtos THEN IpProtos[t] ELSE Ip6Options[t]

Switch(cases, t) == IF t \in cases \ Omitted THEN Case(t) ELSE "UNKNOWN"

WalkInit ==
  /\ sz \in BufSizes /\ checked \in BOOLEAN
  /\ proto = "ETHER" /\ off = 0 /\ covered = 0

-----------------------------------------------------------------------------
\* Faulty variant: the optional fields of GRE are not counted.
FitMandatory(p) == off + HdrSize[p] <= sz

(* he_<p>_fit: the standard header, and all the optional fields of GRE.    *)
Fit(p) == off + HdrSize[p] + (IF p = "GRE" THEN 12 ELSE 0) <= sz

(* A function takes its header and returns next protocol and length.       *)
Extract(p, next_proto, len) ==
  /\ proto' = next_proto /\ off' = off + len
  /\ covered' = off + HdrSize[p]
  /\ UNCHANGED <<sz, checked>>

At(p) == proto = p /\ Fit(p)

he_eth == At("ETHER") /\ \E type \in ProtocolNames :
  Extract("ETHER", Switch({"IPV4", "TPID", "IPV6", "ARP", "MPLS"}, type), HdrSize["ETHER"])

he_vlan == At("VLAN") /\ \E type \in ProtocolNames :
  Extract("VLAN", Switch({"IPV4", "IPV6", "MPLS"}, type), HdrSize["VLAN"])

he_arp == At("ARP") /\ Extract("ARP", "NONE", HdrSize["ARP"])

\* Faulty variant: the check on the length comes before the switch, which overrides it.
HE_IP4_CHECK_early(next_proto, ver, hl, ttl) ==
  IF ttl <= 1 THEN "IP4_BAD_TTL" ELSE next_proto

HE_IP4_CHECK(next_proto, ver, hl, ttl) ==
  IF ttl <= 1 THEN "IP4_BAD_TTL"
  ELSE IF hl < 5 THEN "IP4_BAD_HL"
  ELSE IF ver # 4 THEN "IP4_BAD_VER" ELSE next_proto

he_ip4 == At("IP4") /\ \E ip \in [ver : {4, 6}, hl : HeaderLengths, ttl : {1, 2},
                                  mf : BOOLEAN, proto : ProtocolNames] :
  LET switched == Switch({"ICMP", "TCP", "UDP", "GRE", "ESP", "AH", "SCTP"}, ip.proto)
      next_proto == IF checked THEN HE_IP4_CHECK(switched, ip.ver, ip.hl, ip.ttl)
                    ELSE switched
  IN Extract("IP4", IF ip.mf THEN "UNKNOWN" ELSE next_proto, 4 * ip.hl)

HE_IP6_CHECK(next_proto, ver, hl) ==
  IF hl <= 1 THEN "IP6_BAD_HOP_LIMIT" ELSE IF ver # 6 THEN "IP6_BAD_VER" ELSE next_proto

he_ip6 == At("IP6") /\ \E ip \in [ver : {4, 6}, hl : {1, 2}, nh : ProtocolNames] :
  LET switched == Switch((DOMAIN IpProtos \ {"ICMP"}) \cup DOMAIN Ip6Options, ip.nh)
  IN Extract("IP6", IF checked THEN HE_IP6_CHECK(switched, ip.ver, ip.hl) ELSE switched,
             HdrSize["IP6"])

he_tcp == At("TCP") /\ \E doff \in HeaderLengths : Extract("TCP", "NONE", 4 * doff)

\* The destination port may be the one that VXLAN uses, if it uses any.
he_udp == At("UDP") /\ \E is_vxln_prt \in BOOLEAN :
  Extract("UDP", IF is_vxln_prt THEN "VXLAN" ELSE "NONE", HdrSize["UDP"])

GreFlags == SUBSET {"CSUM", "KEY", "SEQ"}

\* Faulty variant: only the optional fields are counted.
GreLengthOptional(flags) ==
  (IF "CSUM" \in flags THEN 4 ELSE 0) + (IF "KEY" \in flags THEN 4 ELSE 0)
  + (IF "SEQ" \in flags THEN 4 ELSE 0)

GreLength(flags) ==
  4 + (IF "CSUM" \in flags THEN 4 ELSE 0) + (IF "KEY" \in flags THEN 4 ELSE 0)
  + (IF "SEQ" \in flags THEN 4 ELSE 0)

he_gre == At("GRE") /\ \E proto_field \in ProtocolNames, flags \in GreFlags :
  Extract("GRE", Switch({"TEB", "IPV4", "IPV6", "MPLS"}, proto_field), GreLength(flags))

\* The same for NVGRE, whose extension is extracted, too.
he_gre_nvgre == /\ At("GRE") /\ off' = off + GreLength({"KEY"})
  /\ proto' = Switch({"TEB"}, "TEB")
  /\ covered' = off + HdrSize["GRE"] + 4
  /\ UNCHANGED <<sz, checked>>

he_vxlan == At("VXLAN") /\ Extract("VXLAN", "ETHER", HdrSize["VXLAN"])
he_mpls  == At("MPLS") /\ Extract("MPLS", "NONE", HdrSize["MPLS"])
he_sctp  == At("SCTP") /\ Extract("SCTP", "NONE", HdrSize["SCTP"])
he_icmp  == At("ICMP") /\ Extract("ICMP", "UNKNOWN", HdrSize["ICMP"])
he_esp   == At("ESP") /\ Extract("ESP", "UNKNOWN", HdrSize["ESP"])
he_ah    == At("AH") /\ Extract("AH", "UNKNOWN", HdrSize["AH"])

WalkNext ==
  \/ he_eth \/ he_vlan \/ he_arp \/ he_ip4 \/ he_ip6 \/ he_tcp \/ he_udp \/ he_gre
  \/ he_gre_nvgre \/ he_vxlan \/ he_mpls \/ he_sctp \/ he_icmp \/ he_esp \/ he_ah

WalkSpec == WalkInit /\ [][WalkNext]_hdr

-----------------------------------------------------------------------------
Goes == proto \in Extracted /\ Fit(proto)

(* No function reads beyond the buffer, the extension of NVGRE included.   *)
NoOverread == covered <= sz /\ proto \in he_proto

(* Where the checks are compiled in no byte is extracted twice: the next   *)
(* header begins after the standard part of the one before.                *)
HeadersApart == checked /\ proto \in Extracted => covered <= off

(* The walk ends for every packet, also for one whose IPv4 headers claim a *)
(* length of zero, inside each other's tunnels.                            *)
WalkEnds == <>~Goes
=============================================================================
