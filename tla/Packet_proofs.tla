---------------------------- MODULE Packet_proofs ----------------------------
(***************************************************************************)
(* What the libraries do to one packet is right for every size of the      *)
(* buffers, every content of the headers and every byte.                   *)
(***************************************************************************)
EXTENDS MCPacket, PktModify_proofs, Sums, SequenceTheorems

(***************************************************************************)
(* The walk over the headers.                                              *)
(***************************************************************************)
\* Besides the properties: where the next header begins is a number.
WalkInv == sz \in Nat /\ off \in Nat /\ covered \in Nat /\ NoOverread /\ HeadersApart

LEMMA SizesOfHeaders == \A p \in Extracted : HdrSize[p] \in Nat
BY DEF HdrSize, Extracted

\* The next protocol has a name, whatever the switch is given.
LEMMA SwitchNames ==
  ASSUME NEW cases \in SUBSET ProtocolNames, NEW t, "another" \notin cases
  PROVE  Switch(cases, t) \in Extracted \cup IP6_EXT \cup {"NONE", "UNKNOWN"}
<1>1. CASE t \in cases \ Omitted
  <2>1. t \in DOMAIN EthTypes \cup DOMAIN IpProtos \cup DOMAIN Ip6Options
    BY <1>1 DEF ProtocolNames
  <2>2. CASE t \in DOMAIN EthTypes
    BY <1>1, <2>2 DEF Switch, Case, EthTypes, Extracted, HdrSize
  <2>3. CASE t \notin DOMAIN EthTypes /\ t \in DOMAIN IpProtos
    BY <1>1, <2>3 DEF Switch, Case, IpProtos, Extracted, HdrSize
  <2>4. CASE t \notin DOMAIN EthTypes /\ t \notin DOMAIN IpProtos
    BY <1>1, <2>1, <2>4 DEF Switch, Case, Ip6Options, IP6_EXT
  <2> QED BY <2>2, <2>3, <2>4
<1>2. CASE t \notin cases \ Omitted
  BY <1>2 DEF Switch
<1> QED BY <1>1, <1>2

\* A header of p is extracted whole, and the next one lies n bytes on: behind it,
\* if the next is to be extracted and the lengths are checked.
LEMMA ExtractStep ==
  ASSUME WalkInv, NEW p \in Extracted, At(p), NEW next_proto \in he_proto, NEW n \in Nat,
         checked /\ next_proto \in Extracted => HdrSize[p] <= n,
         Extract(p, next_proto, n)
  PROVE  WalkInv'
<1>1. HdrSize[p] \in Nat /\ off + HdrSize[p] <= sz
  BY SizesOfHeaders DEF At, Fit, WalkInv
<1> QED BY <1>1 DEF WalkInv, Extract, NoOverread, HeadersApart

\* Headers of one length.
LEMMA PlainSteps ==
  ASSUME WalkInv, he_eth \/ he_vlan \/ he_arp \/ he_udp \/ he_vxlan \/ he_mpls \/ he_sctp
                  \/ he_icmp \/ he_esp \/ he_ah
  PROVE  WalkInv'
<1>1. PICK p \in Extracted, next_proto \in he_proto :
        At(p) /\ Extract(p, next_proto, HdrSize[p])
  <2>1. ASSUME NEW cases \in SUBSET ProtocolNames, "another" \notin cases, NEW t
        PROVE  Switch(cases, t) \in he_proto
    BY <2>1, SwitchNames DEF he_proto
  <2>2. CASE he_eth
    <3>1. PICK t \in ProtocolNames :
            Extract("ETHER", Switch({"IPV4", "TPID", "IPV6", "ARP", "MPLS"}, t), HdrSize["ETHER"])
      BY <2>2 DEF he_eth
    <3>2. Switch({"IPV4", "TPID", "IPV6", "ARP", "MPLS"}, t) \in he_proto
      BY <2>1 DEF ProtocolNames, EthTypes
    <3> QED BY <2>2, <3>1, <3>2 DEF he_eth, Extracted, HdrSize
  <2>3. CASE he_vlan
    <3>1. PICK t \in ProtocolNames :
            Extract("VLAN", Switch({"IPV4", "IPV6", "MPLS"}, t), HdrSize["VLAN"])
      BY <2>3 DEF he_vlan
    <3>2. Switch({"IPV4", "IPV6", "MPLS"}, t) \in he_proto
      BY <2>1 DEF ProtocolNames, EthTypes
    <3> QED BY <2>3, <3>1, <3>2 DEF he_vlan, Extracted, HdrSize
  <2>4. {"NONE", "UNKNOWN", "VXLAN", "ETHER"} \subseteq he_proto
    BY DEF he_proto, Extracted, HdrSize
  <2>5. {"ARP", "UDP", "VXLAN", "MPLS", "SCTP", "ICMP", "ESP", "AH"} \subseteq Extracted
    BY DEF Extracted, HdrSize
  <2>6. CASE he_udp
    BY <2>4, <2>5, <2>6 DEF he_udp
  <2>7. CASE he_arp \/ he_vxlan \/ he_mpls \/ he_sctp
    BY <2>4, <2>5, <2>7 DEF he_arp, he_vxlan, he_mpls, he_sctp
  <2>8. CASE he_icmp \/ he_esp \/ he_ah
    BY <2>4, <2>5, <2>8 DEF he_icmp, he_esp, he_ah
  <2> QED BY <2>2, <2>3, <2>6, <2>7, <2>8
<1>2. HdrSize[p] \in Nat
  BY SizesOfHeaders
<1> QED BY <1>1, <1>2, ExtractStep

\* An IPv4 header that is checked and followed by another has at least five words.
LEMMA Ip4Step ==
  ASSUME WalkInv, he_ip4
  PROVE  WalkInv'
<1> DEFINE cases == {"ICMP", "TCP", "UDP", "GRE", "ESP", "AH", "SCTP"}
<1>1. PICK ip \in [ver : {4, 6}, hl : HeaderLengths, ttl : {1, 2}, mf : BOOLEAN, proto : ProtocolNames] :
        LET switched == Switch(cases, ip.proto)
            next_proto == IF checked THEN HE_IP4_CHECK(switched, ip.ver, ip.hl, ip.ttl)
                          ELSE switched
        IN  Extract("IP4", IF ip.mf THEN "UNKNOWN" ELSE next_proto, 4 * ip.hl)
  BY DEF he_ip4
<1> DEFINE s == Switch(cases, ip.proto)
           np == IF ip.mf THEN "UNKNOWN"
                 ELSE IF checked THEN HE_IP4_CHECK(s, ip.ver, ip.hl, ip.ttl) ELSE s
<1>2. s \in Extracted \cup IP6_EXT \cup {"NONE", "UNKNOWN"}
  <2>1. cases \in SUBSET ProtocolNames /\ "another" \notin cases
    BY DEF ProtocolNames, IpProtos
  <2> HIDE DEF cases
  <2> QED BY <2>1, SwitchNames
<1>3. At("IP4") /\ Extract("IP4", np, 4 * ip.hl)
  BY <1>1 DEF he_ip4
<1>4. ip.hl \in 0 .. 15
  BY HeadersAssumption
<1>5. np \in he_proto /\ (checked /\ np \in Extracted => ip.hl >= 5)
  <2> HIDE DEF s
  <2> QED BY <1>2, <1>4 DEF HE_IP4_CHECK, he_proto, HE_ERROR, Extracted, HdrSize
<1>6. "IP4" \in Extracted /\ HdrSize["IP4"] = 20
  BY DEF Extracted, HdrSize
<1> HIDE DEF np
<1>7. 4 * ip.hl \in Nat /\ (ip.hl >= 5 => 20 <= 4 * ip.hl)
  BY <1>4
<1> QED BY <1>3, <1>5, <1>6, <1>7, ExtractStep

LEMMA Ip6Step ==
  ASSUME WalkInv, he_ip6
  PROVE  WalkInv'
<1> DEFINE cases == (DOMAIN IpProtos \ {"ICMP"}) \cup DOMAIN Ip6Options
<1>1. PICK ip \in [ver : {4, 6}, hl : {1, 2}, nh : ProtocolNames] :
        Extract("IP6", IF checked THEN HE_IP6_CHECK(Switch(cases, ip.nh), ip.ver, ip.hl)
                       ELSE Switch(cases, ip.nh), HdrSize["IP6"])
  BY DEF he_ip6
<1> DEFINE s == Switch(cases, ip.nh)
           np == IF checked THEN HE_IP6_CHECK(s, ip.ver, ip.hl) ELSE s
<1>2. s \in Extracted \cup IP6_EXT \cup {"NONE", "UNKNOWN"}
  <2>1. cases \in SUBSET ProtocolNames /\ "another" \notin cases
    BY DEF ProtocolNames, IpProtos, Ip6Options
  <2> HIDE DEF cases
  <2> QED BY <2>1, SwitchNames
<1>3. np \in he_proto
  <2> HIDE DEF s
  <2> QED BY <1>2 DEF HE_IP6_CHECK, he_proto, HE_ERROR
<1>4. "IP6" \in Extracted /\ HdrSize["IP6"] \in Nat
  BY SizesOfHeaders DEF Extracted, HdrSize
<1>5. At("IP6") /\ Extract("IP6", np, HdrSize["IP6"])
  BY <1>1 DEF he_ip6
<1> HIDE DEF np
<1> QED BY <1>3, <1>4, <1>5, ExtractStep

LEMMA TcpStep ==
  ASSUME WalkInv, he_tcp
  PROVE  WalkInv'
<1>1. PICK doff \in HeaderLengths : At("TCP") /\ Extract("TCP", "NONE", 4 * doff)
  BY DEF he_tcp
<1>2. 4 * doff \in Nat
  BY HeadersAssumption
<1>3. "TCP" \in Extracted /\ "NONE" \in he_proto /\ "NONE" \notin Extracted
  BY DEF Extracted, HdrSize, he_proto
<1> QED BY <1>1, <1>2, <1>3, ExtractStep

\* The optional fields of GRE are behind its header.
LEMMA GreStep ==
  ASSUME WalkInv, he_gre
  PROVE  WalkInv'
<1> DEFINE cases == {"TEB", "IPV4", "IPV6", "MPLS"}
<1>1. PICK t \in ProtocolNames, flags \in GreFlags :
        At("GRE") /\ Extract("GRE", Switch(cases, t), GreLength(flags))
  BY DEF he_gre
<1>2. Switch(cases, t) \in he_proto
  <2>1. cases \in SUBSET ProtocolNames /\ "another" \notin cases
    BY DEF ProtocolNames, EthTypes
  <2> HIDE DEF cases
  <2> QED BY <2>1, SwitchNames DEF he_proto
<1>3. GreLength(flags) \in Nat /\ 4 <= GreLength(flags)
  BY DEF GreLength
<1>4. "GRE" \in Extracted /\ HdrSize["GRE"] = 4
  BY DEF Extracted, HdrSize
<1> HIDE DEF cases
<1> QED BY <1>1, <1>2, <1>3, <1>4, ExtractStep

\* Four of the twelve bytes that he_gre_fit asks for are the extension of NVGRE.
LEMMA NvgreStep ==
  ASSUME WalkInv, he_gre_nvgre
  PROVE  WalkInv'
<1>1. off + 16 <= sz
  BY DEF he_gre_nvgre, At, Fit, HdrSize, WalkInv
<1>2. off' = off + 8 /\ covered' = off + 8 /\ UNCHANGED <<sz, checked>>
  BY DEF he_gre_nvgre, GreLength, HdrSize, WalkInv
<1>3. proto' \in he_proto
  <2>1. {"TEB"} \in SUBSET ProtocolNames /\ "another" \notin {"TEB"}
    BY DEF ProtocolNames, EthTypes
  <2> QED BY <2>1, SwitchNames DEF he_gre_nvgre, he_proto
<1> QED BY <1>1, <1>2, <1>3 DEF WalkInv, NoOverread, HeadersApart

LEMMA WalkInitially == WalkInit => WalkInv
BY HeadersAssumption DEF WalkInit, WalkInv, NoOverread, HeadersApart, he_proto, Extracted,
   HdrSize

LEMMA WalkKeeps ==
  ASSUME WalkInv, [WalkNext]_hdr
  PROVE  WalkInv'
<1>1. CASE WalkNext
  BY <1>1, PlainSteps, Ip4Step, Ip6Step, TcpStep, GreStep, NvgreStep DEF WalkNext
<1>2. CASE UNCHANGED hdr
  BY <1>2 DEF hdr, WalkInv, NoOverread, HeadersApart
<1> QED BY <1>1, <1>2

LEMMA WalkSafe == WalkSpec => []WalkInv
BY WalkInitially, WalkKeeps, PTL DEF WalkSpec

(* Whatever the headers say and however long the buffer, no function of    *)
(* hdr_ext.c reads beyond it, once its he_*_fit has said yes.              *)
THEOREM WalkStaysInBuffer == WalkSpec => []NoOverread
<1>1. WalkInv => NoOverread
  BY DEF WalkInv
<1> QED BY <1>1, WalkSafe, PTL

(* With the checks compiled in, whatever the headers say, the next header  *)
(* to be extracted begins behind the standard part of the one before.      *)
THEOREM WalkGoesOn == WalkSpec => []HeadersApart
<1>1. WalkInv => HeadersApart
  BY DEF WalkInv
<1> QED BY <1>1, WalkSafe, PTL

(***************************************************************************)
(* The script and the sizes, along the offsets a packet may start at.      *)
(***************************************************************************)
\* The arguments are ones that pkt_msd_write and the size functions get.
ArgumentsRight == pkt_off \in LegalOffsets /\ len \in Nat /\ size \in 0 .. 3

LEMMA ArgumentsStayRight == PacketSpec => []ArgumentsRight
<1> USE MaxOffAssumption DEF LegalOffsets
<1>1. PacketInit => ArgumentsRight
  <2> SUFFICES ASSUME PacketInit PROVE ArgumentsRight
    OBVIOUS
  <2>1. pkt_off = 16 /\ size \in 0 .. 3 /\ (len \in Lengths \/ len = 0)
    BY Zenon, SMT DEF PacketInit, NoMsd
  <2>2. 16 \in LegalOffsets
    BY SMT
  <2>3. len \in Nat
    <3>1. len \in Lengths => len \in Nat
      BY LengthsAssumption
    <3> QED BY <2>1, <3>1
  <2> QED BY <2>1, <2>2, <2>3 DEF ArgumentsRight
<1>2. ArgumentsRight /\ [PacketNext]_packet_vars => ArgumentsRight'
  <2> SUFFICES ASSUME ArgumentsRight, [PacketNext]_packet_vars PROVE ArgumentsRight'
    OBVIOUS
  <2>1. CASE NextOffset
    BY <2>1 DEF NextOffset, ArgumentsRight
  <2>2. CASE UNCHANGED msd
    BY <2>2 DEF msd, ArgumentsRight
  <2> QED BY <2>1, <2>2 DEF PacketNext, ReadHeaders, AddUp, packet_vars
<1> QED BY <1>1, <1>2, PTL DEF PacketSpec

(* At every offset a packet may start at, on either silicon, the script    *)
(* that pkt_msd_write leaves leads the traffic manager to the packet.      *)
THEOREM ScriptsLeadToPackets == PacketSpec => []ScriptAlwaysSound
<1>1. ArgumentsRight => ScriptAlwaysSound
  BY ScriptReachesPacket DEF ArgumentsRight, ScriptAlwaysSound
<1> QED BY <1>1, ArgumentsStayRight, PTL

(* At every such offset, for every length and size of the CTM buffer, the  *)
(* two size functions account for every byte of the packet.                *)
THEOREM PacketsSplit == PacketSpec => []DataAlwaysSplit
<1>1. ArgumentsRight => DataAlwaysSplit
  <2> SUFFICES ASSUME ArgumentsRight PROVE DataSplit(len, pkt_off, size)
    BY DEF DataAlwaysSplit
  <2>1. PICK k \in 0 .. 3 : k = size
    BY DEF ArgumentsRight
  <2>2. CtmBytes(k) \in {256, 512, 1024, 2048}
    <3>1. k = 0 \/ k = 1 \/ k = 2 \/ k = 3
      BY SMT
    <3> QED BY <3>1, SMT DEF CtmBytes
  <2>3. pkt_off \in 0 .. CtmBytes(k)
    BY <2>2, MaxOffAssumption DEF ArgumentsRight, LegalOffsets
  <2>4. PICK o \in 0 .. CtmBytes(k) : o = pkt_off
    BY <2>3
  <2>5. DataSplit(len, o, k)
    BY SizesAddUp DEF ArgumentsRight
  <2> QED BY <2>1, <2>4, <2>5
<1> QED BY <1>1, ArgumentsStayRight, PTL

(***************************************************************************)
(* Ones' complement arithmetic.                                            *)
(***************************************************************************)
\* Ones' complement sums are sums modulo this.
M == Half - 1

\* Congruent: two sums that are folded to the same checksum, or to its other zero.
Same(a, b) == \E k \in Int : a = b + k * M

\* The words that are added.
W == 0 .. Word - 1

\* Division with a remainder.
LEMMA DivMod ==
  ASSUME NEW a \in Int, NEW m \in Nat \ {0}
  PROVE  a \div m \in Int /\ a % m \in 0 .. m - 1 /\ a = m * (a \div m) + (a % m)
OBVIOUS

\* A word is two halves, and a word of ones is zero modulo Half - 1.
LEMMA Sizes ==
  /\ Byte \in Nat /\ Half \in Nat /\ Half >= 4 /\ Word \in Nat /\ Word >= 16 /\ M \in Nat /\ M > 0
  /\ Word = Half * Half /\ Word - 1 = (Half + 1) * M /\ Half = M + 1 /\ Half = Byte * Byte
  /\ 0 \in W /\ Half < Word /\ \A x \in W : x \in Nat /\ x \in Int
<1>1. Half \in Nat /\ Half >= 4 /\ Byte \in Nat
  BY SumsAssumption DEF Half
<1> HIDE DEF Half
<1>2. PICK d \in Nat : Half = d + 4
  <2>1. Half = (Half - 4) + 4 /\ Half - 4 \in Nat
    BY <1>1
  <2> QED BY <2>1
<1>3. Half * Half = d * d + 8 * d + 16 /\ d * d \in Nat
  BY <1>2
<1>4. Word \in Nat /\ Word >= 16 /\ Half < Word
  BY <1>2, <1>3 DEF Word
<1>5. (Half + 1) * (Half - 1) = Half * Half - 1
  BY <1>1
<1> QED BY <1>1, <1>4, <1>5 DEF Word, M, W, Half

\* The relation is reflexive,
LEMMA SameSelf == ASSUME NEW a \in Int PROVE Same(a, a)
<1>1. a = a + 0 * M
  BY Sizes
<1> QED BY <1>1 DEF Same

\* symmetric,
LEMMA SameBack == ASSUME NEW a \in Int, NEW b \in Int, Same(a, b) PROVE Same(b, a)
<1>1. PICK k \in Int : a = b + k * M
  BY DEF Same
<1>2. b = a + (-k) * M
  BY <1>1, Sizes
<1>3. -k \in Int
  OBVIOUS
<1> QED BY <1>2, <1>3 DEF Same

\* transitive,
LEMMA SameOn ==
  ASSUME NEW a \in Int, NEW b \in Int, NEW c \in Int, Same(a, b), Same(b, c)
  PROVE  Same(a, c)
<1>1. PICK k \in Int, j \in Int : a = b + k * M /\ b = c + j * M
  BY DEF Same
<1>2. a = c + (k + j) * M
  BY <1>1, Sizes
<1>3. k + j \in Int
  OBVIOUS
<1> QED BY <1>2, <1>3 DEF Same

\* goes with sums,
LEMMA SameAdd ==
  ASSUME NEW a \in Int, NEW b \in Int, NEW c \in Int, NEW d \in Int, Same(a, b), Same(c, d)
  PROVE  Same(a + c, b + d)
<1>1. PICK k \in Int, j \in Int : a = b + k * M /\ c = d + j * M
  BY DEF Same
<1>2. a + c = (b + d) + (k + j) * M
  BY <1>1, Sizes
<1>3. k + j \in Int
  OBVIOUS
<1> QED BY <1>2, <1>3 DEF Same

\* and with negatives.
LEMMA SameMinus ==
  ASSUME NEW a \in Int, NEW b \in Int, Same(a, b)
  PROVE  Same(-a, -b)
<1>1. PICK k \in Int : a = b + k * M
  BY DEF Same
<1>2. -a = (-b) + (-k) * M
  BY <1>1, Sizes
<1>3. -k \in Int
  OBVIOUS
<1> QED BY <1>2, <1>3 DEF Same

\* What is congruent to zero is a multiple of the modulus.
LEMMA SameZero ==
  ASSUME NEW a \in Int, Same(a, 0)
  PROVE  a % (Half - 1) = 0
<1>1. PICK k \in Int : a = k * M
  BY Sizes DEF Same
<1>2. M \in Nat /\ M > 0 /\ M = Half - 1
  BY Sizes DEF M
<1> HIDE DEF M
<1>3. PICK q \in Int, r \in 0 .. M - 1 : k * M = M * q + r /\ r = (k * M) % M
  <2>1. k * M \in Int /\ M \in Nat \ {0}
    BY <1>2
  <2>2. /\ (k * M) \div M \in Int /\ (k * M) % M \in 0 .. M - 1
        /\ k * M = M * ((k * M) \div M) + ((k * M) % M)
    BY <2>1, DivMod, Zenon
  <2> QED BY <2>2, Zenon
<1>4. PICK d \in Int : d = k - q
  OBVIOUS
<1>5. d * M = r
  <2>1. d * M = k * M - M * q
    BY <1>2, <1>4
  <2> QED BY <1>2, <1>3, <2>1
<1>6. d >= 1 => d * M >= M
  BY <1>2
<1>7. d <= -1 => d * M <= -M
  BY <1>2
<1>8. r = 0
  BY <1>2, <1>5, <1>6, <1>7
<1> QED BY <1>1, <1>2, <1>3, <1>8

\* The ones' complement sum.
LEMMA AddSame ==
  ASSUME NEW a \in W, NEW b \in W
  PROVE  /\ ones_sum_add(a, b) \in W /\ Same(ones_sum_add(a, b), a + b)
         /\ ones_sum_add(a, b) = 0 <=> a = 0 /\ b = 0
<1>1. a \in Nat /\ b \in Nat /\ a <= Word - 1 /\ b <= Word - 1 /\ Word \in Nat /\ Half + 1 \in Int
  BY Sizes DEF W
<1>2. CASE a + b >= Word
  <2>1. ones_sum_add(a, b) = a + b - Word + 1 /\ a + b \in Int
    BY <1>1, <1>2 DEF ones_sum_add
  <2>2. a + b - Word + 1 = (a + b) + (-(Half + 1)) * M
    <3>1. (-(Half + 1)) * M = -((Half + 1) * M)
      BY Sizes
    <3> QED BY <1>1, <3>1, Sizes
  <2>3. Same(ones_sum_add(a, b), a + b)
    BY <1>1, <2>1, <2>2 DEF Same
  <2>4. ones_sum_add(a, b) \in W /\ ones_sum_add(a, b) > 0
    BY <1>1, <1>2, <2>1 DEF W
  <2>5. ~(a = 0 /\ b = 0)
    BY <1>1, <1>2, Sizes
  <2> QED BY <1>1, <2>1, <2>3, <2>4, <2>5
<1>3. CASE ~(a + b >= Word)
  <2>1. ones_sum_add(a, b) = a + b /\ a + b \in Int /\ a + b \in W
    BY <1>1, <1>3 DEF ones_sum_add, W
  <2> QED BY <1>1, <2>1, SameSelf
<1> QED BY <1>2, <1>3

\* A word counts like its two halves.
LEMMA HalvesSame ==
  ASSUME NEW s \in Nat
  PROVE  /\ s \div Half \in Nat /\ s % Half \in 0 .. Half - 1 /\ s = Half * (s \div Half) + (s % Half)
         /\ (s \div Half) + (s % Half) \in Nat
         /\ Same((s \div Half) + (s % Half), s)
<1>1. Half \in Nat \ {0} /\ M \in Int /\ Half = M + 1
  BY Sizes
<1> HIDE DEF Half
<1>2. PICK q \in Nat, r \in Nat : q = s \div Half /\ r = s % Half /\ r \in 0 .. Half - 1
  BY <1>1
<1>3. s = Half * q + r
  <2>1. s \in Int
    OBVIOUS
  <2>2. s = Half * (s \div Half) + (s % Half)
    BY <1>1, <2>1, DivMod, Zenon
  <2> QED BY <1>2, <2>2
<1>4. q + r = s + (-q) * M
  <2>1. Half * q = M * q + q
    BY <1>1, <1>2
  <2>2. (-q) * M = -(M * q)
    BY <1>1, <1>2
  <2>3. M * q \in Int
    BY <1>1, <1>2
  <2> QED BY <1>2, <1>3, <2>1, <2>2, <2>3
<1>5. -q \in Int /\ q + r \in Nat
  BY <1>2
<1> QED BY <1>2, <1>3, <1>4, <1>5 DEF Same

\* Folded twice, a word is a half that counts the same, and only zero becomes zero.
LEMMA FoldSame ==
  ASSUME NEW s \in W
  PROVE  /\ ones_sum_fold16(s) \in 0 .. Half - 1 /\ Same(ones_sum_fold16(s), s)
         /\ ones_sum_fold16(s) = 0 <=> s = 0
<1>1. PICK once \in Nat : once = (s \div Half) + (s % Half) /\ Same(once, s)
  BY HalvesSame, Sizes
<1>2. once <= 2 * Half - 2 /\ (once = 0 <=> s = 0)
  <2>1. s \div Half <= Half - 1
    <3>1. s < Half * Half /\ s \in Nat /\ Half \in Nat \ {0}
      BY Sizes DEF W
    <3> HIDE DEF Half
    <3>2. PICK q \in Nat, r \in Nat : q = s \div Half /\ s = Half * q + r
      BY <3>1
    <3>3. q < Half
      <4> SUFFICES ASSUME q >= Half PROVE FALSE
        BY <3>1, <3>2
      <4>1. PICK d \in Nat : q = Half + d
        <5>1. q = Half + (q - Half) /\ q - Half \in Nat
          BY <3>1, <3>2
        <5> QED BY <5>1
      <4>2. Half * q = Half * Half + Half * d /\ Half * d \in Nat /\ Half * Half \in Nat
        BY <3>1, <4>1
      <4> QED BY <3>1, <3>2, <4>2
    <3> QED BY <3>1, <3>2, <3>3
  <2>2. /\ s \in Nat /\ s \div Half \in Nat /\ s % Half \in 0 .. Half - 1 /\ Half \in Nat
        /\ s = Half * (s \div Half) + (s % Half)
    BY HalvesSame, Sizes
  <2>3. once = 0 => s \div Half = 0 /\ s % Half = 0
    BY <1>1, <2>2
  <2>4. s = 0 => s \div Half = 0 /\ s % Half = 0
    BY Sizes
  <2> QED BY <1>1, <2>1, <2>2, <2>3, <2>4
<1>3. PICK twice \in Nat : twice = (once \div Half) + (once % Half) /\ Same(twice, once)
  BY HalvesSame
<1>4. twice <= Half - 1 /\ (twice = 0 <=> once = 0)
  <2>1. Half \in Nat /\ Half > 0
    BY Sizes
  <2> HIDE DEF Half
  <2>2. CASE once < Half
    <3>1. once \div Half = 0 /\ once % Half = once
      BY <2>1, <2>2
    <3> QED BY <1>3, <2>1, <2>2, <3>1
  <2>3. CASE once >= Half
    <3>1. once \div Half = 1 /\ once % Half = once - Half
      BY <1>2, <2>1, <2>3
    <3> QED BY <1>2, <1>3, <2>1, <2>3, <3>1
  <2> QED BY <2>1, <2>2, <2>3
<1>5. ones_sum_fold16(s) = twice
  <2>1. twice % Half = twice
    BY <1>4, Sizes
  <2> QED BY <1>1, <1>3, <2>1 DEF ones_sum_fold16
<1>6. Same(twice, s)
  BY <1>1, <1>3, SameOn, Sizes DEF W
<1> QED BY <1>2, <1>4, <1>5, <1>6, Sizes


(***************************************************************************)
(* Sums of words, and of bytes word by word.                               *)
(***************************************************************************)
\* The partial sums of a sequence of words.
LEMMA AddWordsFolds ==
  ASSUME NEW s0 \in W, NEW w \in Seq(W)
  PROVE  \E p \in [0 .. Len(w) -> W] :
           /\ p[0] = s0 /\ p[Len(w)] = AddWords(s0, w)
           /\ \A k \in 0 .. Len(w) : k < Len(w) => p[k + 1] = ones_sum_add(p[k], w[k + 1])
<1> DEFINE n == Len(w)
           g == [z \in (1 .. n) \X W |-> ones_sum_add(z[2], w[z[1]])]
           Folds(it) ==
             it = [s \in SUBSET DOMAIN w |->
                     IF s = {} THEN s0
                     ELSE ones_sum_add(it[s \ {Latest(s)}], w[Latest(s)])]
<1>1. n \in Nat /\ DOMAIN w = 1 .. n /\ \A i \in 1 .. n : w[i] \in W
  OBVIOUS
<1>2. g \in [(1 .. n) \X W -> W]
  BY <1>1, AddSame
<1>3. PICK it \in [SUBSET (1 .. n) -> W] : Folding(it, g, s0, n)
  <2> HIDE DEF g, n
  <2> QED BY <1>1, <1>2, FoldExists
<1>4. Folds(it)
  <2>1. ASSUME NEW s \in SUBSET (1 .. n)
        PROVE  it[s] = IF s = {} THEN s0 ELSE ones_sum_add(it[s \ {Latest(s)}], w[Latest(s)])
    <3>1. CASE s = {}
      BY <1>3, <3>1 DEF Folding
    <3>2. CASE s # {}
      <4>1. Latest(s) \in 1 .. n /\ s \ {Latest(s)} \in SUBSET (1 .. n)
        BY <1>1, <3>2, LatestIn
      <4>2. it[s] = g[<<Latest(s), it[s \ {Latest(s)}]>>]
        <5> HIDE DEF g
        <5> QED BY <1>3, <3>2 DEF Folding
      <4>3. it[s \ {Latest(s)}] \in W
        BY <1>3, <4>1
      <4> QED BY <3>2, <4>1, <4>2, <4>3
    <3> QED BY <3>1, <3>2
  <2>2. it = [s \in SUBSET (1 .. n) |-> it[s]]
    BY <1>3
  <2> QED BY <1>1, <2>1, <2>2
<1>5. AddWords(s0, w) = (CHOOSE jt : Folds(jt))[DOMAIN w]
  BY DEF AddWords, FoldLeft, MapThenFoldSet, Latest, Max
<1>6. PICK jt : Folds(jt) /\ AddWords(s0, w) = jt[DOMAIN w]
  <2> HIDE DEF Folds
  <2> QED BY <1>4, <1>5
<1> DEFINE p == [k \in 0 .. n |-> jt[1 .. k]]
<1>7. jt[1 .. 0] = s0
  <2>1. 1 .. 0 = {}
    OBVIOUS
  <2> QED BY <1>6, <2>1
<1>8. ASSUME NEW k \in 0 .. n, k < n
      PROVE  jt[1 .. k + 1] = ones_sum_add(jt[1 .. k], w[k + 1])
  <2>1. /\ 1 .. k + 1 \in SUBSET (1 .. n) /\ 1 .. k + 1 # {} /\ Latest(1 .. k + 1) = k + 1
        /\ (1 .. k + 1) \ {k + 1} = 1 .. k
    BY <1>1, <1>8, SegmentUp
  <2> QED BY <1>1, <1>6, <2>1
<1>9. \A k \in 0 .. n : jt[1 .. k] \in W
  <2> DEFINE T == {k \in 0 .. n : jt[1 .. k] \in W}
  <2>1. 0 \in T
    BY <1>1, <1>7
  <2>2. ASSUME NEW k \in 0 .. n, k \in T, k < n PROVE k + 1 \in T
    BY <1>1, <1>8, <2>2, AddSame
  <2>3. ASSUME NEW m \in 0 .. n PROVE m \in T
    <3>1. \A k \in 0 .. m : k \in T /\ k < m => k + 1 \in T
      BY <1>1, <2>2
    <3> HIDE DEF T, n
    <3> QED BY <2>1, <3>1, CountUp
  <2> QED BY <2>3
<1>10. p \in [0 .. n -> W] /\ p[0] = s0 /\ p[n] = AddWords(s0, w)
  <2>1. 0 \in 0 .. n /\ n \in 0 .. n /\ jt[1 .. n] = AddWords(s0, w)
    BY <1>1, <1>6
  <2> HIDE DEF n
  <2> QED BY <1>7, <1>9, <2>1
<1>11. \A k \in 0 .. n : k < n => p[k + 1] = ones_sum_add(p[k], w[k + 1])
  BY <1>1, <1>8
<1> QED BY <1>10, <1>11

\* The sum of a sequence of words, in any order; it is zero only if they all are.
LEMMA AddWordsSame ==
  ASSUME NEW s0 \in W, NEW w \in Seq(W)
  PROVE  /\ AddWords(s0, w) \in W
         /\ Same(AddWords(s0, w), s0 + SumFunctionOnSet(w, 1 .. Len(w)))
         /\ AddWords(s0, w) = 0 <=> s0 = 0 /\ \A i \in 1 .. Len(w) : w[i] = 0
<1>1. PICK n \in Nat : n = Len(w)
  OBVIOUS
<1>2. PICK p \in [0 .. n -> W] :
        /\ p[0] = s0 /\ p[n] = AddWords(s0, w)
        /\ \A k \in 0 .. n : k < n => p[k + 1] = ones_sum_add(p[k], w[k + 1])
  BY <1>1, AddWordsFolds
<1>3. \A i \in 1 .. n : w[i] \in W /\ w[i] \in Int
  <2> SUFFICES ASSUME NEW i \in 1 .. n PROVE w[i] \in W /\ w[i] \in Int
    OBVIOUS
  <2>1. w[i] \in W
    BY <1>1
  <2> QED BY <2>1, Sizes
<1> DEFINE Right(k) == /\ Same(p[k], s0 + SumFunctionOnSet(w, 1 .. k))
                       /\ p[k] = 0 <=> s0 = 0 /\ \A i \in 1 .. k : w[i] = 0
           T == {k \in 0 .. n : Right(k)}
<1>4. 0 \in T
  <2>1. s0 + SumFunctionOnSet(w, 1 .. 0) = s0 /\ s0 \in Int
    BY SumNone, Sizes
  <2>2. Same(p[0], s0 + SumFunctionOnSet(w, 1 .. 0))
    BY <1>2, <2>1, SameSelf
  <2>3. p[0] = 0 <=> s0 = 0 /\ \A i \in 1 .. 0 : w[i] = 0
    BY <1>2
  <2> QED BY <2>2, <2>3
<1>5. ASSUME NEW k \in 0 .. n, k \in T, k < n PROVE k + 1 \in T
  <2>1. k \in Nat /\ k + 1 \in 1 .. n /\ k + 1 \in 0 .. n
    BY <1>5
  <2>2. PICK a \in W, b \in W : a = p[k] /\ b = w[k + 1]
    BY <1>2, <1>3, <2>1
  <2>3. p[k + 1] = ones_sum_add(a, b)
    BY <1>2, <1>5, <2>2
  <2>4. /\ ones_sum_add(a, b) \in W /\ Same(ones_sum_add(a, b), a + b)
        /\ ones_sum_add(a, b) = 0 <=> a = 0 /\ b = 0
    BY AddSame
  <2>5. PICK x \in Int : /\ x = SumFunctionOnSet(w, 1 .. k)
                         /\ SumFunctionOnSet(w, 1 .. k + 1) = b + x
    <3>1. \A i \in 1 .. k + 1 : w[i] \in Int
      BY <1>3, <2>1
    <3> QED BY <2>1, <2>2, <3>1, SumUp
  <2>6. Same(a, s0 + x)
    BY <1>5, <2>2, <2>5
  <2>7. a \in Int /\ b \in Int /\ s0 \in Int /\ s0 + x \in Int /\ a + b \in Int
        /\ ones_sum_add(a, b) \in Int
    BY <2>4, <2>5, Sizes
  <2>8. Same(a + b, (s0 + x) + b)
    BY <2>6, <2>7, SameSelf, SameAdd
  <2>9. Same(ones_sum_add(a, b), (s0 + x) + b)
    <3>1. (s0 + x) + b \in Int
      BY <2>7
    <3> QED BY <2>4, <2>7, <2>8, <3>1, SameOn
  <2>10. (s0 + x) + b = s0 + SumFunctionOnSet(w, 1 .. k + 1)
    BY <2>5, <2>7
  <2>11. p[k + 1] = 0 <=> s0 = 0 /\ \A i \in 1 .. k + 1 : w[i] = 0
    <3>1. a = 0 <=> s0 = 0 /\ \A i \in 1 .. k : w[i] = 0
      BY <1>5, <2>2
    <3>2. (\A i \in 1 .. k + 1 : w[i] = 0) <=> (\A i \in 1 .. k : w[i] = 0) /\ w[k + 1] = 0
      <4>1. \A i : i \in 1 .. k + 1 <=> (i \in 1 .. k \/ i = k + 1)
        BY <2>1
      <4> QED BY <4>1, Zenon
    <3> QED BY <2>2, <2>3, <2>4, <3>1, <3>2
  <2>12. Right(k + 1)
    BY <2>3, <2>9, <2>10, <2>11
  <2> QED BY <2>1, <2>12
<1>6. n \in T
  <2> HIDE DEF T
  <2> QED BY <1>4, <1>5, CountUp
<1> QED BY <1>1, <1>2, <1>6

\* What the chain of additions carries: never all ones and a carry.
Carried == {acc \in [sum : W, carry : {0, 1}] : ~(acc.sum = Word - 1 /\ acc.carry = 1)}

\* One addition of the chain, with the carry of the one before.
LEMMA AddCarrySame ==
  ASSUME NEW acc \in Carried, NEW w \in W
  PROVE  /\ AddCarry(acc, w) \in Carried
         /\ Same(AddCarry(acc, w).sum + AddCarry(acc, w).carry, acc.sum + acc.carry + w)
<1>1. PICK a \in W, c \in {0, 1} : a = acc.sum /\ c = acc.carry /\ ~(a = Word - 1 /\ c = 1)
  BY DEF Carried
<1>2. PICK x \in Nat : x = Word /\ x > 0 /\ a \in 0 .. x - 1 /\ w \in 0 .. x - 1
        /\ ~(a = x - 1 /\ c = 1) /\ x - 1 = (Half + 1) * M
  BY <1>1, Sizes DEF W
<1>3. PICK s \in Nat : s = a + w + c
  BY <1>2
<1>4. AddCarry(acc, w) = [sum |-> s % x, carry |-> s \div x]
  BY <1>1, <1>2, <1>3 DEF AddCarry
<1>5. CASE s < x
  <2>1. s % x = s /\ s \div x = 0
    BY <1>2, <1>3, <1>5
  <2>2. AddCarry(acc, w) = [sum |-> s, carry |-> 0]
    BY <1>4, <2>1
  <2>3. AddCarry(acc, w) \in Carried
    BY <1>2, <1>5, <2>2 DEF Carried, W
  <2>4. s + 0 = acc.sum + acc.carry + w /\ s + 0 \in Int
    BY <1>1, <1>2, <1>3
  <2> QED BY <2>2, <2>3, <2>4, SameSelf
<1>6. CASE s >= x
  <2>1. s - x \in 0 .. x - 2
    BY <1>2, <1>3, <1>6
  <2>2. s % x = s - x /\ s \div x = 1
    BY <1>2, <1>6, <2>1
  <2>3. AddCarry(acc, w) = [sum |-> s - x, carry |-> 1]
    BY <1>4, <2>2
  <2>4. AddCarry(acc, w) \in Carried
    BY <1>2, <2>1, <2>3 DEF Carried, W
  <2>5. (s - x) + 1 = s + (-(Half + 1)) * M
    <3>1. (-(Half + 1)) * M = -((Half + 1) * M)
      BY Sizes
    <3> QED BY <1>2, <3>1
  <2>6. Same((s - x) + 1, s)
    <3>1. -(Half + 1) \in Int
      BY Sizes
    <3> QED BY <2>5, <3>1 DEF Same
  <2>7. s = acc.sum + acc.carry + w
    BY <1>1, <1>2, <1>3
  <2> QED BY <2>3, <2>4, <2>6, <2>7
<1> QED BY <1>2, <1>5, <1>6

\* The partial sums of the chain.
LEMMA ChainFolds ==
  ASSUME NEW b, NEW n \in Nat, n = Len(b) \div 4, \A k \in 1 .. n : WordOf(b, k) \in W
  PROVE  \E p \in [0 .. n -> Carried] :
           /\ p[0] = [sum |-> 0, carry |-> 0] /\ p[n] = Chain(b)
           /\ \A k \in 0 .. n : k < n => p[k + 1] = AddCarry(p[k], WordOf(b, k + 1))
<1> DEFINE base == [sum |-> 0, carry |-> 0]
           words == [k \in 1 .. n |-> WordOf(b, k)]
           g == [z \in (1 .. n) \X Carried |-> AddCarry(z[2], words[z[1]])]
           Folds(it) ==
             it = [s \in SUBSET DOMAIN words |->
                     IF s = {} THEN base
                     ELSE AddCarry(it[s \ {Latest(s)}], words[Latest(s)])]
<1>1. DOMAIN words = 1 .. n /\ (\A i \in 1 .. n : words[i] \in W) /\ base \in Carried
  <2>1. base \in Carried
    BY Sizes DEF Carried
  <2> QED BY <2>1
<1>2. g \in [(1 .. n) \X Carried -> Carried]
  <2> HIDE DEF words
  <2> QED BY <1>1, AddCarrySame
<1>3. PICK it \in [SUBSET (1 .. n) -> Carried] : Folding(it, g, base, n)
  <2> HIDE DEF g, base
  <2> QED BY <1>1, <1>2, FoldExists
<1>4. Folds(it)
  <2>1. ASSUME NEW s \in SUBSET (1 .. n)
        PROVE  it[s] = IF s = {} THEN base ELSE AddCarry(it[s \ {Latest(s)}], words[Latest(s)])
    <3> HIDE DEF base, words
    <3>1. CASE s = {}
      BY <1>3, <3>1 DEF Folding
    <3>2. CASE s # {}
      <4>1. Latest(s) \in 1 .. n /\ s \ {Latest(s)} \in SUBSET (1 .. n)
        BY <1>1, <3>2, LatestIn
      <4>2. it[s] = g[<<Latest(s), it[s \ {Latest(s)}]>>]
        <5> HIDE DEF g
        <5> QED BY <1>3, <3>2 DEF Folding
      <4>3. it[s \ {Latest(s)}] \in Carried
        BY <1>3, <4>1
      <4> QED BY <3>2, <4>1, <4>2, <4>3
    <3> QED BY <3>1, <3>2
  <2>2. it = [s \in SUBSET (1 .. n) |-> it[s]]
    BY <1>3
  <2> HIDE DEF base, words
  <2> QED BY <1>1, <2>1, <2>2
<1>5. Chain(b) = (CHOOSE jt : Folds(jt))[DOMAIN words]
  BY DEF Chain, FoldLeft, MapThenFoldSet, Latest, Max
<1>6. PICK jt : Folds(jt) /\ Chain(b) = jt[DOMAIN words]
  <2> HIDE DEF Folds, words
  <2> QED BY <1>4, <1>5
<1> DEFINE p == [k \in 0 .. n |-> jt[1 .. k]]
<1>7. jt[1 .. 0] = base
  <2>1. 1 .. 0 = {}
    OBVIOUS
  <2> HIDE DEF base, words
  <2> QED BY <1>6, <2>1
<1>8. ASSUME NEW k \in 0 .. n, k < n
      PROVE  jt[1 .. k + 1] = AddCarry(jt[1 .. k], WordOf(b, k + 1))
  <2>1. /\ 1 .. k + 1 \in SUBSET (1 .. n) /\ 1 .. k + 1 # {} /\ Latest(1 .. k + 1) = k + 1
        /\ (1 .. k + 1) \ {k + 1} = 1 .. k
    BY <1>8, SegmentUp
  <2>2. jt[1 .. k + 1] = AddCarry(jt[1 .. k], words[k + 1])
    <3> HIDE DEF base, words
    <3> QED BY <1>1, <1>6, <2>1
  <2>3. k + 1 \in 1 .. n
    BY <1>8
  <2> QED BY <2>2, <2>3
<1>9. \A k \in 0 .. n : jt[1 .. k] \in Carried
  <2> DEFINE T == {k \in 0 .. n : jt[1 .. k] \in Carried}
  <2>1. 0 \in T
    BY <1>1, <1>7
  <2>2. ASSUME NEW k \in 0 .. n, k \in T, k < n PROVE k + 1 \in T
    <3>1. k + 1 \in 1 .. n /\ k + 1 \in 0 .. n
      BY <2>2
    <3>2. WordOf(b, k + 1) \in W /\ jt[1 .. k] \in Carried
      BY <2>2, <3>1
    <3> QED BY <1>8, <2>2, <3>1, <3>2, AddCarrySame
  <2>3. ASSUME NEW m \in 0 .. n PROVE m \in T
    <3>1. \A k \in 0 .. m : k \in T /\ k < m => k + 1 \in T
      BY <2>2
    <3> HIDE DEF T
    <3> QED BY <2>1, <3>1, CountUp
  <2> QED BY <2>3
<1>10. p \in [0 .. n -> Carried] /\ p[0] = base /\ p[n] = Chain(b)
  <2>1. 0 \in 0 .. n /\ n \in 0 .. n /\ jt[1 .. n] = Chain(b)
    BY <1>1, <1>6
  <2> HIDE DEF base, words
  <2> QED BY <1>7, <1>9, <2>1
<1>11. \A k \in 0 .. n : k < n => p[k + 1] = AddCarry(p[k], WordOf(b, k + 1))
  BY <1>8
<1> QED BY <1>10, <1>11

\* The chain adds up whatever its words count for.
LEMMA ChainSame ==
  ASSUME NEW b, NEW n \in Nat, n = Len(b) \div 4, NEW e,
         \A k \in 1 .. n : WordOf(b, k) \in W,
         \A k \in 0 .. n : e[k] \in Int,
         e[0] = 0, \A k \in 0 .. n : k < n => Same(WordOf(b, k + 1), e[k + 1] - e[k])
  PROVE  Chain(b) \in Carried /\ Same(Chain(b).sum + Chain(b).carry, e[n])
<1>1. PICK p \in [0 .. n -> Carried] :
        /\ p[0] = [sum |-> 0, carry |-> 0] /\ p[n] = Chain(b)
        /\ \A k \in 0 .. n : k < n => p[k + 1] = AddCarry(p[k], WordOf(b, k + 1))
  BY ChainFolds
<1> DEFINE T == {k \in 0 .. n : Same(p[k].sum + p[k].carry, e[k])}
<1>2. 0 \in T
  <2>1. p[0].sum + p[0].carry = 0 /\ 0 \in 0 .. n /\ 0 \in Int
    BY <1>1
  <2> QED BY <2>1, SameSelf
<1>3. ASSUME NEW k \in 0 .. n, k \in T, k < n PROVE k + 1 \in T
  <2>1. k + 1 \in 1 .. n /\ k + 1 \in 0 .. n
    BY <1>3
  <2>2. PICK acc \in Carried, w \in W : acc = p[k] /\ w = WordOf(b, k + 1)
    BY <1>1, <2>1
  <2>3. p[k + 1] = AddCarry(acc, w)
    BY <1>1, <1>3, <2>2
  <2>4. PICK r \in Carried : r = AddCarry(acc, w) /\ Same(r.sum + r.carry, acc.sum + acc.carry + w)
    BY AddCarrySame
  <2>5. /\ acc.sum \in Int /\ acc.carry \in Int /\ w \in Int /\ r.sum + r.carry \in Int
        /\ acc.sum + acc.carry \in Int /\ acc.sum + acc.carry + w \in Int
    BY Sizes DEF Carried
  <2>6. PICK x \in Int, y \in Int : x = e[k] /\ y = e[k + 1]
    BY <2>1
  <2>7. Same(acc.sum + acc.carry, x) /\ Same(w, y - x) /\ y - x \in Int
    BY <1>3, <2>2, <2>6
  <2>8. Same(acc.sum + acc.carry + w, x + (y - x))
    BY <2>5, <2>6, <2>7, SameAdd
  <2>9. x + (y - x) = y
    BY <2>6
  <2>10. Same(r.sum + r.carry, y)
    BY <2>4, <2>5, <2>6, <2>8, <2>9, SameOn
  <2> QED BY <2>1, <2>3, <2>4, <2>6, <2>10
<1>4. n \in T
  <2> HIDE DEF T
  <2> QED BY <1>2, <1>3, CountUp
<1> QED BY <1>1, <1>4

\* What the bytes of a packet are.
Bytes == 0 .. Byte - 1

\* The bytes at odd places are upper halves.
Weighted(b) == [i \in Nat |-> IF i % 2 = 1 THEN ByteAt(b, i) * Byte ELSE ByteAt(b, i)]

\* Sums over bytes are numbers.
LEMMA WeightedTypes ==
  ASSUME NEW b \in Seq(Bytes)
  PROVE  /\ \A i \in Nat : ByteAt(b, i + 1) \in Bytes
         /\ \A i \in Nat : i > 0 => Weighted(b)[i] \in Int
         /\ \A i \in Nat : i > Len(b) => Weighted(b)[i] = 0
         /\ HalvesOfBytes(b) = Upto(Weighted(b), Len(b)) /\ HalvesOfBytes(b) \in Int
<1>1. Byte \in Nat /\ Byte > 1 /\ 0 \in Bytes /\ Len(b) \in Nat /\ DOMAIN b = 1 .. Len(b)
  BY SumsAssumption DEF Bytes
<1>2. \A i \in Nat : ByteAt(b, i + 1) \in Bytes
  BY <1>1 DEF ByteAt
<1>3. ASSUME NEW i \in Nat, i > 0 PROVE Weighted(b)[i] \in Int
  <2>1. i - 1 \in Nat /\ (i - 1) + 1 = i
    BY <1>3
  <2>2. ByteAt(b, i) \in Bytes
    BY <1>2, <2>1
  <2>3. ByteAt(b, i) \in Int /\ ByteAt(b, i) * Byte \in Int
    BY <1>1, <2>2 DEF Bytes
  <2> QED BY <2>3 DEF Weighted
<1>4. ASSUME NEW i \in Nat, i > Len(b) PROVE Weighted(b)[i] = 0
  <2>1. ByteAt(b, i) = 0
    BY <1>1, <1>4 DEF ByteAt
  <2> QED BY <1>1, <2>1 DEF Weighted
<1>5. HalvesOfBytes(b) = Upto(Weighted(b), Len(b))
  <2> DEFINE h == [n \in DOMAIN b |-> IF n % 2 = 1 THEN b[n] * Byte ELSE b[n]]
  <2>1. HalvesOfBytes(b) = SumFunctionOnSet(h, 1 .. Len(b))
    BY <1>1 DEF HalvesOfBytes, SumFunction
  <2>2. \A i \in 1 .. Len(b) : h[i] = Weighted(b)[i]
    BY <1>1 DEF Weighted, ByteAt
  <2>3. IsFiniteSet(1 .. Len(b))
    BY <1>1, FS_Interval
  <2> HIDE DEF h
  <2> QED BY <2>1, <2>2, <2>3, SumSame DEF Upto
<1>6. HalvesOfBytes(b) \in Int
  <2>1. \A i \in 1 .. Len(b) : Weighted(b)[i] \in Int
    BY <1>3
  <2> QED BY <1>1, <1>5, <2>1, UptoInt
<1> QED BY <1>2, <1>3, <1>4, <1>5, <1>6

\* What bytes are before the ones behind an even number of bytes.
LEMMA HalvesJoin ==
  ASSUME NEW a \in Seq(Bytes), NEW b \in Seq(Bytes), Len(a) % 2 = 0 \/ b = <<>>
  PROVE  a \o b \in Seq(Bytes) /\ HalvesOfBytes(a \o b) = HalvesOfBytes(a) + HalvesOfBytes(b)
<1>1. PICK n \in Nat, m \in Nat : n = Len(a) /\ m = Len(b)
  OBVIOUS
<1>2. PICK c \in Seq(Bytes) : c = a \o b
  <2>1. \A S : a \in Seq(S) /\ b \in Seq(S) => a \o b \in Seq(S)
    OBVIOUS
  <2>2. a \o b \in Seq(Bytes)
    BY <2>1
  <2> QED BY <2>2
<1>3. /\ Len(c) = n + m /\ n + m \in Nat
      /\ \A i \in 1 .. n : c[i] = a[i]
      /\ \A i \in 1 .. m : c[n + i] = b[i]
  BY <1>1, <1>2
<1>4. \A i \in 1 .. n + m : Weighted(c)[i] \in Int
  <2>1. \A i \in Nat : i > 0 => Weighted(c)[i] \in Int
    BY WeightedTypes
  <2> QED BY <1>1, <2>1
<1>5. ASSUME NEW i \in 1 .. m PROVE Weighted(b)[i] = Weighted(c)[n + i]
  <2>0. i \in Nat /\ n + i \in Nat /\ i <= m /\ n + i <= n + m
    OBVIOUS
  <2>1. ByteAt(b, i) = ByteAt(c, n + i)
    <3>1. ByteAt(b, i) = b[i] /\ ByteAt(c, n + i) = c[n + i]
      BY <1>1, <1>3, <2>0 DEF ByteAt
    <3> QED BY <1>3, <3>1
  <2>2. (n + i) % 2 = i % 2
    <3>1. n % 2 = 0
      <4>1. b # <<>>
        BY <1>1, <1>5
      <4> QED BY <1>1, <4>1
    <3> QED BY <1>1, <3>1
  <2> QED BY <2>0, <2>1, <2>2 DEF Weighted
<1>6. Upto(Weighted(c), n + m) = Upto(Weighted(c), n) + Upto(Weighted(b), m)
  <2>1. PICK f, g : f = Weighted(c) /\ g = Weighted(b)
    OBVIOUS
  <2>2. \A i \in 1 .. n + m : f[i] \in Int
    BY <1>4, <2>1
  <2>3. \A i \in 1 .. m : g[i] = f[n + i]
    BY <1>5, <2>1
  <2>4. Upto(f, n + m) = Upto(f, n) + Upto(g, m)
    BY <2>2, <2>3, UptoShift, SMTT(60)
  <2> QED BY <2>1, <2>4
<1>7. Upto(Weighted(c), n) = Upto(Weighted(a), n)
  <2>1. \A i \in 1 .. n : Weighted(c)[i] = Weighted(a)[i]
    <3> SUFFICES ASSUME NEW i \in 1 .. n PROVE Weighted(c)[i] = Weighted(a)[i]
      OBVIOUS
    <3>1. i \in Nat /\ i <= n /\ i <= n + m
      BY <1>1
    <3>2. ByteAt(c, i) = ByteAt(a, i)
      BY <1>1, <1>3, <3>1 DEF ByteAt
    <3> QED BY <3>1, <3>2 DEF Weighted
  <2>2. IsFiniteSet(1 .. n)
    BY FS_Interval
  <2> QED BY <2>1, <2>2, SumSame DEF Upto
<1>8. /\ HalvesOfBytes(a) = Upto(Weighted(a), n) /\ HalvesOfBytes(b) = Upto(Weighted(b), m)
      /\ HalvesOfBytes(c) = Upto(Weighted(c), n + m)
  BY <1>1, <1>3, WeightedTypes
<1> QED BY <1>2, <1>6, <1>7, <1>8

\* Four bytes are a word, of which the upper half counts like the lower.
LEMMA WordSame ==
  ASSUME NEW b \in Seq(Bytes), NEW k \in Nat
  PROVE  /\ WordOf(b, k + 1) \in W
         /\ Upto(Weighted(b), 4 * k) \in Int /\ Upto(Weighted(b), 4 * (k + 1)) \in Int
         /\ Same(WordOf(b, k + 1), Upto(Weighted(b), 4 * (k + 1)) - Upto(Weighted(b), 4 * k))
<1> DEFINE f == Weighted(b)
           n == 4 * k
<1>1. PICK x \in Bytes, y \in Bytes, z \in Bytes, u \in Bytes :
        x = ByteAt(b, n + 1) /\ y = ByteAt(b, n + 2) /\ z = ByteAt(b, n + 3) /\ u = ByteAt(b, n + 4)
  <2>1. n \in Nat /\ n + 1 \in Nat /\ n + 2 \in Nat /\ n + 3 \in Nat
        /\ (n + 1) + 1 = n + 2 /\ (n + 2) + 1 = n + 3 /\ (n + 3) + 1 = n + 4
    OBVIOUS
  <2> HIDE DEF n
  <2>2. ByteAt(b, n + 1) \in Bytes
    BY <2>1, WeightedTypes
  <2>3. ByteAt(b, (n + 1) + 1) \in Bytes
    BY <2>1, WeightedTypes
  <2>4. ByteAt(b, (n + 2) + 1) \in Bytes
    BY <2>1, WeightedTypes
  <2>5. ByteAt(b, (n + 3) + 1) \in Bytes
    BY <2>1, WeightedTypes
  <2> QED BY <2>1, <2>2, <2>3, <2>4, <2>5
<1>2. x \in Nat /\ y \in Nat /\ z \in Nat /\ u \in Nat /\ Byte \in Nat /\ Byte > 1
      /\ x <= Byte - 1 /\ y <= Byte - 1 /\ z <= Byte - 1 /\ u <= Byte - 1
  BY SumsAssumption DEF Bytes
<1>3. WordOf(b, k + 1) = ((x * Byte + y) * Byte + z) * Byte + u
  <2>1. 4 * (k + 1) - 3 = n + 1 /\ 4 * (k + 1) - 2 = n + 2 /\ 4 * (k + 1) - 1 = n + 3
        /\ 4 * (k + 1) = n + 4
    OBVIOUS
  <2> HIDE DEF n
  <2> QED BY <1>1, <2>1 DEF WordOf
<1>4. f[n + 1] = x * Byte /\ f[n + 2] = y /\ f[n + 3] = z * Byte /\ f[n + 4] = u
  <2>1. /\ (n + 1) % 2 = 1 /\ (n + 2) % 2 = 0 /\ (n + 3) % 2 = 1 /\ (n + 4) % 2 = 0
        /\ n + 1 \in Nat /\ n + 2 \in Nat /\ n + 3 \in Nat /\ n + 4 \in Nat
    OBVIOUS
  <2> HIDE DEF n
  <2> QED BY <1>1, <2>1 DEF Weighted
<1>5. /\ Upto(f, n) \in Int /\ Upto(f, n + 4) \in Int
      /\ Upto(f, n + 4) - Upto(f, n) = f[n + 1] + f[n + 2] + f[n + 3] + f[n + 4]
  <2>1. n \in Nat /\ n + 1 \in Nat /\ n + 2 \in Nat /\ n + 3 \in Nat
        /\ (n + 1) + 1 = n + 2 /\ (n + 2) + 1 = n + 3 /\ (n + 3) + 1 = n + 4
    OBVIOUS
  <2>2. \A i \in Nat : i > 0 => f[i] \in Int
    BY WeightedTypes
  <2>8. (n + 1) + 1 = n + 2 /\ (n + 2) + 1 = n + 3 /\ (n + 3) + 1 = n + 4
    OBVIOUS
  <2> HIDE DEF n, f
  <2>3. \A j \in Nat : \A i \in 1 .. j : f[i] \in Int
    BY <2>2
  <2>4. Upto(f, n + 1) = f[n + 1] + Upto(f, n) /\ f[n + 1] \in Int /\ Upto(f, n) \in Int
    BY <2>1, <2>3, UptoUp
  <2>5. Upto(f, n + 2) = f[n + 2] + Upto(f, n + 1) /\ f[n + 2] \in Int
    <3>1. n + 1 \in Nat /\ \A i \in 1 .. (n + 1) + 1 : f[i] \in Int
      BY <2>1, <2>2
    <3>2. /\ Upto(f, (n + 1) + 1) = f[(n + 1) + 1] + Upto(f, n + 1)
          /\ f[(n + 1) + 1] \in Int
      BY <3>1, UptoUp
    <3> QED BY <2>8, <3>2
  <2>6. Upto(f, n + 3) = f[n + 3] + Upto(f, n + 2) /\ f[n + 3] \in Int
    <3>1. n + 2 \in Nat /\ \A i \in 1 .. (n + 2) + 1 : f[i] \in Int
      BY <2>1, <2>2
    <3>2. /\ Upto(f, (n + 2) + 1) = f[(n + 2) + 1] + Upto(f, n + 2)
          /\ f[(n + 2) + 1] \in Int
      BY <3>1, UptoUp
    <3> QED BY <2>8, <3>2
  <2>7. Upto(f, n + 4) = f[n + 4] + Upto(f, n + 3) /\ f[n + 4] \in Int
    <3>1. n + 3 \in Nat /\ \A i \in 1 .. (n + 3) + 1 : f[i] \in Int
      BY <2>1, <2>2
    <3>2. /\ Upto(f, (n + 3) + 1) = f[(n + 3) + 1] + Upto(f, n + 3)
          /\ f[(n + 3) + 1] \in Int
      BY <3>1, UptoUp
    <3> QED BY <2>8, <3>2
  <2> QED BY <2>4, <2>5, <2>6, <2>7
<1>6. PICK hi \in Nat, lo \in Nat : hi = x * Byte + y /\ lo = z * Byte + u
  <2>1. x * Byte + y \in Nat /\ z * Byte + u \in Nat
    BY <1>2
  <2> QED BY <2>1
<1>7. WordOf(b, k + 1) = hi * Half + lo
  <2>1. PICK t \in Nat : t = hi * Byte
    BY <1>2
  <2>2. (t + z) * Byte + u = t * Byte + lo
    BY <1>2, <1>6
  <2>3. t * Byte = hi * (Byte * Byte)
    BY <1>2, <2>1
  <2> QED BY <1>3, <1>6, <2>1, <2>2, <2>3, Sizes
<1>8. Same(WordOf(b, k + 1), hi + lo)
  <2>1. hi * Half + lo = (hi + lo) + hi * M
    BY Sizes
  <2> QED BY <1>7, <2>1 DEF Same
<1>9. hi <= Half - 1 /\ lo <= Half - 1
  <2>1. ASSUME NEW v \in Nat, NEW w \in Nat, v <= Byte - 1, w <= Byte - 1
        PROVE  v * Byte + w <= Byte * Byte - 1
    <3>1. PICK d \in Nat : Byte - 1 = v + d
      <4>1. Byte - 1 = v + (Byte - 1 - v) /\ Byte - 1 - v \in Nat
        BY <1>2, <2>1
      <4> QED BY <4>1
    <3>2. (v + d) * Byte = v * Byte + d * Byte /\ d * Byte \in Nat /\ v * Byte \in Nat
      BY <1>2
    <3>3. (Byte - 1) * Byte = Byte * Byte - Byte /\ Byte * Byte \in Nat
      BY <1>2
    <3> QED BY <1>2, <2>1, <3>1, <3>2, <3>3
  <2> QED BY <1>2, <1>6, <2>1, Sizes
<1>10. hi * Half + lo \in W
  <2>1. PICK d \in Nat : Half - 1 = hi + d
    <3>1. Half - 1 = hi + (Half - 1 - hi) /\ Half - 1 - hi \in Nat
      BY <1>9, Sizes
    <3> QED BY <3>1
  <2>2. PICK h \in Nat : h = Half /\ Word = h * h /\ lo <= h - 1 /\ h - 1 = hi + d
    BY <1>9, <2>1, Sizes
  <2>3. (hi + d) * h = hi * h + d * h /\ d * h \in Nat /\ hi * h \in Nat
    OBVIOUS
  <2>4. (h - 1) * h = h * h - h
    OBVIOUS
  <2>5. hi * h + lo <= h * h - 1 /\ hi * h + lo \in Nat /\ h * h \in Nat
    BY <2>2, <2>3, <2>4
  <2> QED BY <2>2, <2>5 DEF W
<1>11. hi + lo = Upto(f, n + 4) - Upto(f, n)
  <2>1. x * Byte \in Nat /\ z * Byte \in Nat
    BY <1>2
  <2> HIDE DEF f, n
  <2> QED BY <1>2, <1>4, <1>5, <1>6, <2>1
<1>12. 4 * (k + 1) = n + 4
  OBVIOUS
<1>13. /\ WordOf(b, k + 1) \in W
       /\ Upto(f, n) \in Int /\ Upto(f, n + 4) \in Int
       /\ Same(WordOf(b, k + 1), Upto(f, n + 4) - Upto(f, n))
  <2> HIDE DEF f, n
  <2> QED BY <1>5, <1>7, <1>8, <1>10, <1>11
<1>14. 4 * (k + 1) = n + 4 /\ 4 * k = n
  BY <1>12
<1> QED BY <1>13, <1>14

\* The sum of an array of bytes, word by word, is that of its halves.
LEMMA WarrSame ==
  ASSUME NEW b \in Seq(Bytes)
  PROVE  ones_sum_warr(b) \in W /\ Same(ones_sum_warr(b), HalvesOfBytes(b))
<1> DEFINE f == Weighted(b)
           e == [k \in Nat |-> Upto(f, 4 * k)]
<1>1. PICK l \in Nat, n \in Nat, r \in 0 .. 3 :
        l = Len(b) /\ n = Len(b) \div 4 /\ r = Len(b) % 4 /\ l = 4 * n + r
  BY Z3
<1>2. \A k \in Nat : /\ WordOf(b, k + 1) \in W /\ e[k] \in Int /\ e[k + 1] \in Int
                     /\ Same(WordOf(b, k + 1), e[k + 1] - e[k])
  <2> SUFFICES ASSUME NEW k \in Nat
               PROVE  /\ WordOf(b, k + 1) \in W /\ e[k] \in Int /\ e[k + 1] \in Int
                      /\ Same(WordOf(b, k + 1), e[k + 1] - e[k])
    OBVIOUS
  <2>1. e[k] = Upto(f, 4 * k) /\ e[k + 1] = Upto(f, 4 * (k + 1))
    OBVIOUS
  <2> HIDE DEF e
  <2> QED BY <2>1, WordSame
<1>3. e[0] = 0
  BY SumNone DEF Upto
<1>4. \A i \in Nat : (i > 0 => f[i] \in Int) /\ (i > l => f[i] = 0)
  BY <1>1, WeightedTypes
<1>5. HalvesOfBytes(b) = Upto(f, l) /\ HalvesOfBytes(b) \in Int
  BY <1>1, WeightedTypes
<1>6. e[n] = Upto(f, 4 * n) /\ e[n + 1] = Upto(f, 4 * (n + 1))
  OBVIOUS
<1> HIDE DEF e, f
<1>7. Chain(b) \in Carried /\ Same(Chain(b).sum + Chain(b).carry, e[n])
  <2>1. \A k \in 1 .. n : WordOf(b, k) \in W
    <3> SUFFICES ASSUME NEW k \in 1 .. n PROVE WordOf(b, k) \in W
      OBVIOUS
    <3>1. k - 1 \in Nat /\ (k - 1) + 1 = k
      OBVIOUS
    <3> QED BY <1>2, <3>1
  <2>2. \A k \in 0 .. n : e[k] \in Int
    BY <1>2
  <2>3. \A k \in 0 .. n : k < n => Same(WordOf(b, k + 1), e[k + 1] - e[k])
    BY <1>2
  <2> QED BY <1>1, <1>3, <2>1, <2>2, <2>3, ChainSame
<1> DEFINE whole == (Chain(b).sum + Chain(b).carry) % Word
<1>8. whole \in W /\ Same(whole, e[n])
  <2>1. PICK s \in W, c \in {0, 1} : s = Chain(b).sum /\ c = Chain(b).carry /\ ~(s = Word - 1 /\ c = 1)
    BY <1>7 DEF Carried
  <2>2. PICK x \in Nat : x = Word /\ s \in 0 .. x - 1
    BY Sizes DEF W
  <2>3. s + c \in 0 .. x - 1
    BY <2>1, <2>2
  <2>4. (s + c) % x = s + c
    BY <2>3
  <2> QED BY <1>7, <2>1, <2>2, <2>3, <2>4 DEF W
<1>9. ones_sum_warr(b) = IF r = 0 THEN whole ELSE ones_sum_add(whole, WordOf(b, n + 1))
  BY <1>1 DEF ones_sum_warr
<1> HIDE DEF whole
<1>10. CASE r = 0
  <2>1. e[n] = HalvesOfBytes(b)
    BY <1>1, <1>5, <1>6, <1>10
  <2> QED BY <1>8, <1>9, <1>10, <2>1
<1>11. CASE r # 0
  <2>1. PICK m \in Nat : 4 * (n + 1) = l + m
    <3>1. 4 * (n + 1) = l + (4 - r) /\ 4 - r \in Nat
      BY <1>1
    <3> QED BY <3>1
  <2>2. Upto(f, l + m) = Upto(f, l)
    <3>1. \A i \in 1 .. l : f[i] \in Int
      BY <1>4
    <3>2. \A i \in l + 1 .. l + m : f[i] = 0
      BY <1>4
    <3> QED BY <3>1, <3>2, UptoZeros
  <2>3. e[n + 1] = HalvesOfBytes(b)
    BY <1>5, <1>6, <2>1, <2>2
  <2>4. PICK w \in W : w = WordOf(b, n + 1)
    BY <1>2
  <2>5. PICK x \in Int, y \in Int : x = e[n] /\ y = e[n + 1] /\ y - x \in Int /\ Same(w, y - x)
    <3>1. e[n] \in Int /\ e[n + 1] \in Int /\ Same(w, e[n + 1] - e[n])
      BY <1>2, <2>4
    <3>2. e[n + 1] - e[n] \in Int
      BY <3>1
    <3> QED BY <3>1, <3>2
  <2>6. PICK v \in W : v = whole /\ v \in Int /\ w \in Int /\ v + w \in Int /\ Same(v, x)
    BY <1>8, <2>4, <2>5, Sizes
  <2>7. Same(v + w, x + (y - x)) /\ x + (y - x) = y
    <3>1. x + (y - x) = y
      BY <2>5
    <3>2. v \in Int /\ x \in Int /\ w \in Int /\ y - x \in Int /\ Same(v, x) /\ Same(w, y - x)
      BY <2>5, <2>6
    <3>3. Same(v + w, x + (y - x))
      BY <3>2, SameAdd, Zenon
    <3> QED BY <3>1, <3>3
  <2>8. ones_sum_add(v, w) \in W /\ Same(ones_sum_add(v, w), v + w)
    BY AddSame
  <2>9. PICK z \in W : z = ones_sum_add(v, w) /\ z \in Int /\ Same(z, v + w)
    BY <2>8, Sizes
  <2>10. Same(v + w, y)
    BY <2>7
  <2>11. Same(z, y)
    BY <2>5, <2>6, <2>9, <2>10, SameOn
  <2>12. ones_sum_warr(b) = z /\ HalvesOfBytes(b) = y
    BY <1>9, <1>11, <2>3, <2>4, <2>5, <2>6, <2>9
  <2> QED BY <2>9, <2>11, <2>12
<1> QED BY <1>10, <1>11


(***************************************************************************)
(* Headers.                                                                *)
(***************************************************************************)
\* The halves of the words of a part of a header.
Header(h, n, m) == HalvesOfHeader(h, n .. m)

\* The same for every word.
Halves(h) == [i \in Int |-> HalvesOfWord(h[i])]

\* The sum of a part of a header.
LEMMA HeaderIs ==
  ASSUME NEW n \in Int, NEW m \in Int, NEW h
  PROVE  Header(h, n, m) = SumFunctionOnSet(Halves(h), n .. m)
<1> DEFINE f == [i \in n .. m |-> HalvesOfWord(h[i])]
<1>1. Header(h, n, m) = SumFunctionOnSet(f, n .. m)
  BY DEF Header, HalvesOfHeader, SumFunction
<1>2. \A i \in n .. m : f[i] = Halves(h)[i]
  BY DEF Halves
<1>3. IsFiniteSet(n .. m)
  BY FS_Interval
<1> HIDE DEF f
<1> QED BY <1>1, <1>2, <1>3, SumSame

\* The words of a header count like their halves.
LEMMA HalvesInt ==
  ASSUME NEW h, NEW n \in Int, NEW m \in Int, \A i \in n .. m : h[i] \in W
  PROVE  \A i \in n .. m : Halves(h)[i] \in Int /\ Same(h[i], Halves(h)[i])
<1> SUFFICES ASSUME NEW i \in n .. m PROVE Halves(h)[i] \in Int /\ Same(h[i], Halves(h)[i])
  OBVIOUS
<1>1. PICK w \in W : w = h[i]
  OBVIOUS
<1>2. w \in Nat /\ w \in Int
  BY Sizes
<1>3. PICK x \in Nat : x = (w \div Half) + (w % Half) /\ Same(x, w)
  BY <1>2, HalvesSame
<1>4. Halves(h)[i] = x
  BY <1>1, <1>3 DEF Halves, HalvesOfWord
<1>5. x \in Int /\ Same(w, x)
  BY <1>2, <1>3, SameBack
<1> QED BY <1>1, <1>4, <1>5

\* One word more.
LEMMA HeaderUp ==
  ASSUME NEW h, NEW n \in Int, NEW m \in Int, n <= m, \A i \in n .. m : h[i] \in W
  PROVE  /\ Header(h, n, m) = Halves(h)[m] + Header(h, n, m - 1)
         /\ Header(h, n, m - 1) \in Int /\ Header(h, n, m) \in Int /\ Halves(h)[m] \in Int
<1> DEFINE f == Halves(h)
<1>1. \A i \in n .. m : f[i] \in Int
  BY HalvesInt
<1>2. Header(h, n, m) = SumFunctionOnSet(f, n .. m)
  BY HeaderIs
<1>3. Header(h, n, m - 1) = SumFunctionOnSet(f, n .. m - 1)
  BY HeaderIs
<1>4. m \in n .. m /\ (n .. m) \ {m} = n .. m - 1
  OBVIOUS
<1>5. IsFiniteSet(n .. m) /\ IsFiniteSet(n .. m - 1)
  BY FS_Interval
<1> HIDE DEF f
<1>6. SumFunctionOnSet(f, n .. m) = f[m] + SumFunctionOnSet(f, (n .. m) \ {m})
  BY <1>1, <1>4, <1>5, SumTake
<1>7. \A i \in n .. m - 1 : f[i] \in Int
  BY <1>1
<1>8. SumFunctionOnSet(f, n .. m) \in Int /\ SumFunctionOnSet(f, n .. m - 1) \in Int
  BY <1>1, <1>5, <1>7, SumInt
<1> QED BY <1>1, <1>2, <1>3, <1>4, <1>6, <1>8 DEF f

\* No words.
LEMMA HeaderNone ==
  ASSUME NEW h, NEW n \in Int
  PROVE  Header(h, n, n - 1) = 0
<1>1. n .. n - 1 = {}
  OBVIOUS
<1>2. Header(h, n, n - 1) = SumFunctionOnSet(Halves(h), n .. n - 1)
  BY HeaderIs
<1> QED BY <1>1, <1>2, SumEmpty

\* A part of a header that is split.
LEMMA HeaderJoin ==
  ASSUME NEW h, NEW n \in Int, NEW k \in Int, NEW m \in Int, n <= k + 1, k <= m,
         \A i \in n .. m : h[i] \in W
  PROVE  /\ Header(h, n, m) = Header(h, n, k) + Header(h, k + 1, m)
         /\ Header(h, n, k) \in Int /\ Header(h, k + 1, m) \in Int
<1> DEFINE Joined(j) == /\ Header(h, n, k + j) = Header(h, n, k) + Header(h, k + 1, k + j)
                        /\ Header(h, n, k) \in Int /\ Header(h, k + 1, k + j) \in Int
           T == {j \in 0 .. m - k : Joined(j)}
<1>1. PICK d \in Nat : d = m - k /\ k + d = m
  <2>1. m - k \in Nat /\ k + (m - k) = m
    OBVIOUS
  <2> QED BY <2>1
<1>2. Header(h, n, k) \in Int
  <2>1. CASE n = k + 1
    <3>1. Header(h, n, n - 1) = 0 /\ n - 1 = k
      BY <2>1, HeaderNone
    <3> QED BY <3>1
  <2>2. CASE n <= k
    <3>1. \A i \in n .. k : h[i] \in W
      OBVIOUS
    <3> QED BY <2>2, <3>1, HeaderUp
  <2> QED BY <2>1, <2>2
<1>3. 0 \in T
  <2>1. Header(h, k + 1, (k + 1) - 1) = 0
    BY HeaderNone
  <2>2. (k + 1) - 1 = k /\ k + 0 = k /\ 0 \in 0 .. m - k
    BY <1>1
  <2>3. Header(h, k + 1, k) = 0
    BY <2>1, <2>2
  <2>4. Joined(0)
    BY <1>2, <2>2, <2>3
  <2> HIDE DEF Joined
  <2> QED BY <2>2, <2>4
<1>4. ASSUME NEW j \in 0 .. d, j \in T, j < d PROVE j + 1 \in T
  <2>1. PICK q \in Int : q = k + (j + 1) /\ q - 1 = k + j /\ n <= q /\ k + 1 <= q /\ q <= m
    <3>1. k + (j + 1) \in Int /\ (k + (j + 1)) - 1 = k + j /\ n <= k + (j + 1)
          /\ k + 1 <= k + (j + 1) /\ k + (j + 1) <= m
      BY <1>1, <1>4
    <3> QED BY <3>1
  <2>2. \A i \in n .. q : h[i] \in W
    BY <2>1
  <2>3. \A i \in k + 1 .. q : h[i] \in W
    BY <2>1
  <2>4. /\ Header(h, n, q) = Halves(h)[q] + Header(h, n, q - 1)
        /\ Header(h, n, q - 1) \in Int /\ Header(h, n, q) \in Int /\ Halves(h)[q] \in Int
    BY <2>1, <2>2, HeaderUp
  <2>5. /\ Header(h, k + 1, q) = Halves(h)[q] + Header(h, k + 1, q - 1)
        /\ Header(h, k + 1, q - 1) \in Int /\ Header(h, k + 1, q) \in Int
    <3>1. k + 1 \in Int
      OBVIOUS
    <3> QED BY <2>1, <2>3, <3>1, HeaderUp
  <2>6. Header(h, n, q - 1) = Header(h, n, k) + Header(h, k + 1, q - 1)
    BY <1>4, <2>1
  <2>7. Header(h, n, q) = Header(h, n, k) + Header(h, k + 1, q)
    BY <1>2, <2>4, <2>5, <2>6
  <2>8. Joined(j + 1)
    BY <1>2, <2>1, <2>5, <2>7
  <2>9. j + 1 \in 0 .. m - k
    BY <1>1, <1>4
  <2> HIDE DEF Joined
  <2> QED BY <2>8, <2>9
<1>5. d \in T
  <2> HIDE DEF T
  <2> QED BY <1>3, <1>4, CountUp
<1> QED BY <1>1, <1>5

\* A sequence of words whose sum counts like x.
Counts(s, x) == s \in Seq(W) /\ x \in Int /\ Upto(s, Len(s)) \in Int /\ Same(Upto(s, Len(s)), x)

\* No words count for nothing,
LEMMA CountsNone == Counts(<<>>, 0)
<1>1. Upto(<<>>, 0) = 0 /\ Len(<<>>) = 0 /\ <<>> \in Seq(W)
  BY SumNone DEF Upto
<1>2. Same(0, 0)
  BY SameSelf
<1> QED BY <1>1, <1>2 DEF Counts

\* one for itself,
LEMMA CountsOne ==
  ASSUME NEW w \in W, NEW x \in Int, Same(w, x)
  PROVE  Counts(<<w>>, x)
<1> DEFINE s == <<w>>
<1>1. s \in Seq(W) /\ Len(s) = 1 /\ s[0 + 1] = w /\ w \in Int
  BY Sizes
<1> HIDE DEF s
<1>2. \A i \in 1 .. 0 + 1 : s[i] \in Int
  BY <1>1
<1>3. Upto(s, 0 + 1) = s[0 + 1] + Upto(s, 0)
  BY <1>2, UptoUp
<1>4. Upto(s, 0) = 0
  BY SumNone DEF Upto
<1>5. Upto(s, 1) = w
  BY <1>1, <1>3, <1>4
<1>6. Counts(s, x)
  BY <1>1, <1>5 DEF Counts
<1> QED BY <1>6 DEF s

\* and sequences one after another for their sum.
LEMMA CountsJoin ==
  ASSUME NEW s, NEW x, NEW t, NEW y, Counts(s, x), Counts(t, y)
  PROVE  Counts(s \o t, x + y)
<1>1. PICK n \in Nat, m \in Nat : n = Len(s) /\ m = Len(t)
  BY DEF Counts
<1>2. s \in Seq(W) /\ t \in Seq(W) /\ x \in Int /\ y \in Int
  BY DEF Counts
<1>3. PICK c \in Seq(W) : c = s \o t
  <2>1. \A S : s \in Seq(S) /\ t \in Seq(S) => s \o t \in Seq(S)
    OBVIOUS
  <2>2. s \o t \in Seq(W)
    BY <1>2, <2>1
  <2> QED BY <2>2
<1>4. Len(c) = n + m /\ n + m \in Nat
  BY <1>1, <1>2, <1>3
<1>5. \A i \in 1 .. n : c[i] = s[i]
  BY <1>1, <1>2, <1>3
<1>6. \A i \in 1 .. m : t[i] = c[n + i]
  BY <1>1, <1>2, <1>3
<1>7. \A i \in 1 .. n + m : c[i] \in Int
  <2>1. \A i \in 1 .. n + m : c[i] \in W
    BY <1>4
  <2> QED BY <2>1, Sizes
<1>8. Upto(c, n + m) = Upto(c, n) + Upto(t, m)
  <2>1. \A f, g : /\ \A i \in 1 .. n + m : f[i] \in Int
                  /\ \A i \in 1 .. m : g[i] = f[n + i]
                  => Upto(f, n + m) = Upto(f, n) + Upto(g, m)
    BY UptoShift, SMTT(60)
  <2> QED BY <1>6, <1>7, <2>1
<1>9. Upto(c, n) = Upto(s, n)
  <2>1. IsFiniteSet(1 .. n)
    BY FS_Interval
  <2> QED BY <1>5, <2>1, SumSame DEF Upto
<1>10. PICK a \in Int, b \in Int : a = Upto(s, n) /\ b = Upto(t, m) /\ Same(a, x) /\ Same(b, y)
  BY <1>1 DEF Counts
<1>11. Same(a + b, x + y) /\ a + b \in Int /\ x + y \in Int
  <2>1. x \in Int /\ y \in Int /\ a \in Int /\ b \in Int /\ Same(a, x) /\ Same(b, y)
    BY <1>2, <1>10
  <2>2. Same(a + b, x + y)
    BY <2>1, SameAdd, Zenon
  <2> QED BY <2>1, <2>2
<1> QED BY <1>3, <1>4, <1>8, <1>9, <1>10, <1>11 DEF Counts

\* Words taken from a header.
LEMMA WordsCount ==
  ASSUME NEW h, NEW n \in Int, NEW m \in Int, n <= m + 1, \A i \in n .. m : h[i] \in W
  PROVE  Counts(Words(h, n, m), Header(h, n, m))
<1> DEFINE w == Words(h, n, m)
<1>1. PICK d \in Nat : d = m - n + 1 /\ n + d - 1 = m
  <2>1. m - n + 1 \in Nat /\ n + (m - n + 1) - 1 = m
    OBVIOUS
  <2> QED BY <2>1
<1>2. \A j \in 1 .. d : w[j] = h[n + j - 1] /\ n + j - 1 \in n .. m
  BY <1>1 DEF Words
<1>3. w \in Seq(W) /\ Len(w) = d
  <2>1. w = [j \in 1 .. d |-> h[n + j - 1]]
    BY <1>1 DEF Words
  <2>2. \A j \in 1 .. d : h[n + j - 1] \in W
    BY <1>2
  <2> HIDE DEF w
  <2> QED BY <2>1, <2>2
<1> HIDE DEF w
<1> DEFINE Right(j) == /\ Upto(w, j) \in Int /\ Header(h, n, n + j - 1) \in Int
                       /\ Same(Upto(w, j), Header(h, n, n + j - 1))
           T == {j \in 0 .. d : Right(j)}
<1>4. 0 \in T
  <2>1. Upto(w, 0) = 0
    BY SumNone DEF Upto
  <2>2. Header(h, n, n - 1) = 0 /\ n + 0 - 1 = n - 1
    BY HeaderNone
  <2>3. Same(0, 0)
    BY SameSelf
  <2>4. Header(h, n, n + 0 - 1) = 0
    BY <2>2
  <2>5. 0 \in 0 .. d
    OBVIOUS
  <2> QED BY <2>1, <2>3, <2>4, <2>5
<1>5. ASSUME NEW j \in 0 .. d, j \in T, j < d PROVE j + 1 \in T
  <2>1. PICK q \in Int : q = n + j /\ q = n + (j + 1) - 1 /\ q - 1 = n + j - 1 /\ n <= q /\ q <= m
    <3>1. n + j \in Int /\ n + j = n + (j + 1) - 1 /\ (n + j) - 1 = n + j - 1
          /\ n <= n + j /\ n + j <= m
      BY <1>1, <1>5
    <3> QED BY <3>1
  <2>2. \A i \in n .. q : h[i] \in W
    BY <2>1
  <2>3. /\ Header(h, n, q) = Halves(h)[q] + Header(h, n, q - 1)
        /\ Header(h, n, q - 1) \in Int /\ Header(h, n, q) \in Int /\ Halves(h)[q] \in Int
    BY <2>1, <2>2, HeaderUp
  <2>4. j + 1 \in 1 .. d /\ j \in Nat /\ j + 1 \in 0 .. d
    BY <1>5
  <2>5. w[j + 1] = h[q] /\ q \in n .. q /\ w[j + 1] \in W
    <3>1. w[j + 1] = h[n + (j + 1) - 1]
      BY <1>2, <2>4
    <3> QED BY <2>1, <2>2, <3>1
  <2>6. Same(w[j + 1], Halves(h)[q])
    <3>1. Same(h[q], Halves(h)[q])
      BY <2>1, <2>2, <2>5, HalvesInt
    <3> QED BY <2>5, <3>1
  <2>7. \A i \in 1 .. j + 1 : w[i] \in Int
    <3> SUFFICES ASSUME NEW i \in 1 .. j + 1 PROVE w[i] \in Int
      OBVIOUS
    <3>1. i \in 1 .. d
      BY <2>4
    <3>2. w[i] \in W
      BY <1>3, <3>1
    <3> QED BY <3>2, Sizes
  <2>8. Upto(w, j + 1) = w[j + 1] + Upto(w, j) /\ w[j + 1] \in Int /\ Upto(w, j) \in Int
        /\ Upto(w, j + 1) \in Int
    BY <2>4, <2>7, UptoUp
  <2>9. Same(Upto(w, j), Header(h, n, q - 1))
    BY <1>5, <2>1
  <2>10. Same(w[j + 1] + Upto(w, j), Halves(h)[q] + Header(h, n, q - 1))
    BY <2>3, <2>6, <2>8, <2>9, SameAdd
  <2>11. Same(Upto(w, j + 1), Header(h, n, q))
    BY <2>3, <2>8, <2>10
  <2>12. Right(j + 1)
    BY <2>1, <2>3, <2>8, <2>11
  <2> HIDE DEF Right
  <2> QED BY <2>4, <2>12
<1>6. d \in T
  <2> HIDE DEF T
  <2> QED BY <1>4, <1>5, CountUp
<1>7. Counts(w, Header(h, n, m))
  BY <1>1, <1>3, <1>6 DEF Counts
<1> QED BY <1>7 DEF w

\* What is added to zero.
LEMMA AddCounted ==
  ASSUME NEW s, NEW x, Counts(s, x)
  PROVE  AddWords(0, s) \in W /\ x \in Int /\ Same(AddWords(0, s), x)
<1>1. s \in Seq(W) /\ x \in Int
  BY DEF Counts
<1>2. PICK u \in Int : u = Upto(s, Len(s)) /\ Same(u, x)
  BY DEF Counts
<1>3. 0 \in W
  BY Sizes
<1>4. AddWords(0, s) \in W /\ Same(AddWords(0, s), 0 + SumFunctionOnSet(s, 1 .. Len(s)))
  BY <1>1, <1>3, AddWordsSame
<1>5. 0 + SumFunctionOnSet(s, 1 .. Len(s)) = u
  BY <1>2 DEF Upto
<1>6. PICK v \in W : v = AddWords(0, s) /\ v \in Int /\ Same(v, u)
  BY <1>4, <1>5, Sizes
<1>7. Same(v, x)
  BY <1>1, <1>2, <1>6, SameOn
<1> QED BY <1>1, <1>6, <1>7

\* What the packet counts for besides its bytes in memory.
HeaderSum(p) ==
  Header(p.ip, IF p.type = "IPV6" THEN 2 ELSE 3, IF p.type = "IPV6" THEN 9 ELSE 4)
  + Header(p.l4_hdr, 0, IF p.protocol = "UDP" THEN 1 ELSE 4)
  + Protocol[p.protocol] + L4Length(p)

\* Words of a header.
AllWords(h, n, m) == \A i \in n .. m : h[i] \in W

\* A part of a header that is split, for constants.
SplitAt(h, n, k, j, m) ==
  /\ Header(h, n, m) = Header(h, n, k) + Header(h, j, m)
  /\ Header(h, n, k) \in Int /\ Header(h, j, m) \in Int

\* One word counts like its halves.
LEMMA HalfInt ==
  ASSUME NEW h, NEW i \in Int, h[i] \in W
  PROVE  Halves(h)[i] \in Int /\ Same(h[i], Halves(h)[i])
<1>1. \A j \in i .. i : h[j] \in W
  OBVIOUS
<1>2. \A j \in i .. i : Halves(h)[j] \in Int /\ Same(h[j], Halves(h)[j])
  BY <1>1, HalvesInt
<1>3. i \in i .. i
  OBVIOUS
<1> QED BY <1>2, <1>3

\* HeaderJoin in these terms.
LEMMA HeaderSplit ==
  ASSUME NEW h, NEW n \in Int, NEW k \in Int, NEW j \in Int, NEW m \in Int,
         j = k + 1, n <= j, k <= m, AllWords(h, n, m)
  PROVE  SplitAt(h, n, k, j, m)
BY HeaderJoin DEF SplitAt, AllWords

\* What packets are made of.
LEMMA PacketTypes ==
  ASSUME NEW p \in Packets
  PROVE  /\ p.type \in {"IPV4", "IPV6"} /\ p.protocol \in {"UDP", "TCP"}
         /\ \A i \in 0 .. 9 : p.ip[i] \in W
         /\ \A i \in 0 .. 4 : p.l4_hdr[i] \in W
         /\ p.ctm \in Seq(Bytes) /\ p.mem \in Seq(Bytes)
         /\ Protocol[p.protocol] \in Nat /\ L4Length(p) \in Nat
         /\ Protocol[p.protocol] * Half + L4Length(p) < Word
<1>1. /\ p.type \in {"IPV4", "IPV6"} /\ p.protocol \in {"UDP", "TCP"}
      /\ p.ip \in [0 .. 9 -> W] /\ p.l4_hdr \in [0 .. 4 -> W]
      /\ p.ctm \in Seq(Bytes) /\ p.mem \in Seq(Bytes)
      /\ Protocol[p.protocol] \in 0 .. Half - 1 /\ L4Length(p) < Half
  BY PacketsAssumption DEF W, Bytes
<1>2. L4Length(p) \in Nat
  <2>1. PICK w \in W : w = p.l4_hdr[1]
    BY <1>1
  <2>2. w \div Half \in Nat
    BY HalvesSame, Sizes
  <2>3. Len(p.ctm) \in Nat /\ Len(p.mem) \in Nat
    BY <1>1
  <2>4. PICK u \in Nat, a \in Nat, b \in Nat :
          u = p.l4_hdr[1] \div Half /\ a = Len(p.ctm) /\ b = Len(p.mem)
    BY <2>1, <2>2, <2>3
  <2>5. L4Length(p) = IF p.protocol = "UDP" THEN u ELSE L4HeaderBytes(p.protocol) + a + b
    BY <2>4 DEF L4Length
  <2>6. L4HeaderBytes(p.protocol) \in Nat
    BY DEF L4HeaderBytes
  <2> QED BY <2>5, <2>6
<1>3. Protocol[p.protocol] * Half + L4Length(p) < Word
  <2>1. PICK h \in Nat, v \in Nat, l \in Nat :
          /\ h = Half /\ v = Protocol[p.protocol] /\ l = L4Length(p)
          /\ Word = h * h /\ v <= h - 1 /\ l <= h - 1
    <3>1. PICK h \in Nat : h = Half /\ Word = h * h
      BY Sizes
    <3>2. PICK v, l : v = Protocol[p.protocol] /\ l = L4Length(p)
      OBVIOUS
    <3>3. v \in 0 .. h - 1 /\ l \in Nat /\ l < h
      BY <1>1, <1>2, <3>1, <3>2
    <3>4. v \in Nat /\ v <= h - 1 /\ l <= h - 1
      BY <3>3
    <3> QED BY <3>1, <3>2, <3>3, <3>4
  <2>2. PICK d \in Nat : h - 1 = v + d
    <3>1. h - 1 = v + (h - 1 - v) /\ h - 1 - v \in Nat
      BY <2>1
    <3> QED BY <3>1
  <2>3. (v + d) * h = v * h + d * h /\ v * h \in Nat /\ d * h \in Nat
    OBVIOUS
  <2>4. (h - 1) * h = h * h - h /\ h * h \in Nat
    OBVIOUS
  <2>5. v * h + l < h * h
    BY <2>1, <2>2, <2>3, <2>4
  <2> QED BY <2>1, <2>5
<1>4. Protocol[p.protocol] \in Nat
  BY <1>1, Sizes
<1> QED BY <1>1, <1>2, <1>3, <1>4

\* The pseudo header and the header of the upper layer, as ones_sum_pseudo adds them up.
LEMMA PseudoSame ==
  ASSUME NEW p \in Packets
  PROVE  LET s == ones_sum_pseudo(p.type, p.protocol, p.ip, p.l4_hdr, L4Length(p))
         IN  s \in W /\ HeaderSum(p) \in Int /\ Same(s, HeaderSum(p))
<1>0. PICK ip, l4 : ip = p.ip /\ l4 = p.l4_hdr
  OBVIOUS
<1> DEFINE s1 == Words(ip, 3, 4)
           s2 == IF p.type = "IPV6" THEN <<ip[2]>> \o Words(ip, 5, 9) ELSE <<>>
           s3 == Words(l4, 0, 1)
           s4 == IF p.type = "IPV6" THEN <<Protocol[p.protocol]>> ELSE <<>>
           s5 == IF p.protocol = "TCP" THEN Words(l4, 2, 4) ELSE <<>>
           s6 == IF p.type = "IPV6" THEN <<L4Length(p)>>
                 ELSE <<Protocol[p.protocol] * Half + L4Length(p)>>
           x1 == Header(ip, 3, 4)
           x2 == IF p.type = "IPV6" THEN Header(ip, 2, 2) + Header(ip, 5, 9) ELSE 0
           x3 == Header(l4, 0, 1)
           x4 == IF p.type = "IPV6" THEN Protocol[p.protocol] ELSE 0
           x5 == IF p.protocol = "TCP" THEN Header(l4, 2, 4) ELSE 0
           x6 == IF p.type = "IPV6" THEN L4Length(p) ELSE Protocol[p.protocol] + L4Length(p)
<1>1. PICK prot \in Nat, length \in Nat :
        prot = Protocol[p.protocol] /\ length = L4Length(p) /\ prot * Half + length < Word
  BY PacketTypes
<1>2. prot \in W /\ length \in W /\ prot * Half + length \in W
  <2>1. PICK h \in Nat : h = Half /\ h >= 1
    BY Sizes
  <2>2. prot * h \in Nat /\ prot * h >= prot
    BY <2>1
  <2> QED BY <1>1, <2>1, <2>2, Sizes DEF W
<1>3. /\ p.type \in {"IPV4", "IPV6"} /\ p.protocol \in {"UDP", "TCP"}
      /\ \A i \in 0 .. 9 : ip[i] \in W
      /\ \A i \in 0 .. 4 : l4[i] \in W
  BY <1>0, PacketTypes
<1>4. Counts(s1, x1)
  <2>1. \A i \in 3 .. 4 : ip[i] \in W
    BY <1>3
  <2> QED BY <2>1, WordsCount
<1>5. Counts(s2, x2)
  <2>1. CASE p.type = "IPV6"
    <3>1. Counts(<<ip[2]>>, Header(ip, 2, 2))
      <4>1. \A i \in 2 .. 2 : ip[i] \in W
        BY <1>3
      <4>2. ip[2] \in W /\ 2 \in 2 .. 2
        BY <1>3
      <4>3. Same(ip[2], Halves(ip)[2]) /\ Halves(ip)[2] \in Int
        BY <4>2, HalfInt
      <4>4. Header(ip, 2, 2) = Halves(ip)[2] + Header(ip, 2, 2 - 1)
        BY <4>1, HeaderUp
      <4>5. Header(ip, 2, 2 - 1) = 0
        BY HeaderNone
      <4>6. Header(ip, 2, 2) = Halves(ip)[2]
        BY <4>3, <4>4, <4>5
      <4> QED BY <4>2, <4>3, <4>6, CountsOne
    <3>2. Counts(Words(ip, 5, 9), Header(ip, 5, 9))
      <4>1. \A i \in 5 .. 9 : ip[i] \in W
        BY <1>3
      <4> QED BY <4>1, WordsCount
    <3>3. Counts(<<ip[2]>> \o Words(ip, 5, 9), Header(ip, 2, 2) + Header(ip, 5, 9))
      BY <3>1, <3>2, CountsJoin
    <3> QED BY <2>1, <3>3
  <2>2. CASE p.type # "IPV6"
    BY <2>2, CountsNone
  <2> QED BY <2>1, <2>2
<1>6. Counts(s3, x3)
  <2>1. \A i \in 0 .. 1 : l4[i] \in W
    BY <1>3
  <2> QED BY <2>1, WordsCount
<1>7. Counts(s4, x4)
  <2>1. Counts(<<prot>>, prot)
    BY <1>2, SameSelf, CountsOne
  <2> QED BY <1>1, <2>1, CountsNone
<1>8. Counts(s5, x5)
  <2>1. \A i \in 2 .. 4 : l4[i] \in W
    BY <1>3
  <2>2. Counts(Words(l4, 2, 4), Header(l4, 2, 4))
    BY <2>1, WordsCount
  <2> QED BY <2>2, CountsNone
<1>9. Counts(s6, x6)
  <2>1. Counts(<<length>>, length)
    BY <1>2, SameSelf, CountsOne
  <2>2. Same(prot * Half + length, prot + length)
    <3>1. prot * Half + length = (prot + length) + prot * M
      BY Sizes
    <3>2. prot \in Int
      OBVIOUS
    <3> QED BY <3>1, <3>2 DEF Same
  <2>3. Counts(<<prot * Half + length>>, prot + length)
    <3>1. prot + length \in Int
      OBVIOUS
    <3> QED BY <1>2, <2>2, <3>1, CountsOne
  <2> QED BY <1>1, <2>1, <2>3
<1>10. ones_sum_pseudo(p.type, p.protocol, p.ip, p.l4_hdr, L4Length(p))
         = AddWords(0, s1 \o s2 \o s3 \o s4 \o s5 \o s6)
  BY <1>0 DEF ones_sum_pseudo
<1>11. x1 + x2 + x3 + x4 + x5 + x6 = HeaderSum(p)
  <2>1. p.type = "IPV6" =>
          Header(ip, 2, 9) = Header(ip, 2, 2) + Header(ip, 3, 4) + Header(ip, 5, 9)
          /\ Header(ip, 2, 2) \in Int /\ Header(ip, 5, 9) \in Int
    <3>1. AllWords(ip, 2, 9)
      BY <1>3 DEF AllWords
    <3>2. AllWords(ip, 2, 4)
      BY <1>3 DEF AllWords
    <3>3. SplitAt(ip, 2, 4, 5, 9)
      BY <3>1, HeaderSplit
    <3>4. SplitAt(ip, 2, 2, 3, 4)
      BY <3>2, HeaderSplit
    <3> QED BY <3>3, <3>4 DEF SplitAt
  <2>2. /\ Header(l4, 0, 4) = Header(l4, 0, 1) + Header(l4, 2, 4)
        /\ Header(l4, 0, 1) \in Int /\ Header(l4, 2, 4) \in Int
    <3>1. AllWords(l4, 0, 4)
      BY <1>3 DEF AllWords
    <3>2. SplitAt(l4, 0, 1, 2, 4)
      BY <3>1, HeaderSplit
    <3> QED BY <3>2 DEF SplitAt
  <2>3. x1 \in Int
    BY <1>4 DEF Counts
  <2>4. x1 + x2 = Header(ip, IF p.type = "IPV6" THEN 2 ELSE 3, IF p.type = "IPV6" THEN 9 ELSE 4)
        /\ x2 \in Int
    BY <2>1, <2>3
  <2>5. x3 + x5 = Header(l4, 0, IF p.protocol = "UDP" THEN 1 ELSE 4)
        /\ x3 \in Int /\ x5 \in Int
    <3>1. CASE p.protocol = "UDP"
      BY <2>2, <3>1
    <3>2. CASE p.protocol = "TCP"
      BY <2>2, <3>2
    <3> QED BY <1>3, <3>1, <3>2
  <2>6. x4 + x6 = Protocol[p.protocol] + L4Length(p) /\ x4 \in Int /\ x6 \in Int
    BY <1>1
  <2> HIDE DEF x1, x2, x3, x4, x5, x6
  <2>7. HeaderSum(p) = (x1 + x2) + (x3 + x5) + prot + length
    BY <1>0, <1>1, <2>4, <2>5 DEF HeaderSum
  <2> QED BY <1>1, <2>3, <2>4, <2>5, <2>6, <2>7
<1> HIDE DEF s1, s2, s3, s4, s5, s6, x1, x2, x3, x4, x5, x6
<1>12. Counts(s1 \o s2 \o s3 \o s4 \o s5 \o s6, x1 + x2 + x3 + x4 + x5 + x6)
  <2>1. Counts(s1 \o s2, x1 + x2)
    BY <1>4, <1>5, CountsJoin
  <2>2. Counts(s1 \o s2 \o s3, x1 + x2 + x3)
    BY <2>1, <1>6, CountsJoin
  <2>3. Counts(s1 \o s2 \o s3 \o s4, x1 + x2 + x3 + x4)
    BY <2>2, <1>7, CountsJoin
  <2>4. Counts(s1 \o s2 \o s3 \o s4 \o s5, x1 + x2 + x3 + x4 + x5)
    BY <2>3, <1>8, CountsJoin
  <2> QED BY <2>4, <1>9, CountsJoin
<1>13. PICK s : s = s1 \o s2 \o s3 \o s4 \o s5 \o s6
  OBVIOUS
<1>14. Counts(s, HeaderSum(p))
  BY <1>11, <1>12, <1>13
<1> QED BY <1>10, <1>13, <1>14, AddCounted


(***************************************************************************)
(* The loop over the memory of a packet.                                   *)
(***************************************************************************)
\* A turn of the loop takes an even number of bytes, or all of them.
LEMMA ChunkSplits ==
  ASSUME NEW b \in Seq(Bytes), b # <<>>,
         NEW c, c = IF Len(b) > ChunkBytes THEN ChunkBytes ELSE Len(b)
  PROVE  /\ SubSeq(b, 1, c) \in Seq(Bytes) /\ SubSeq(b, c + 1, Len(b)) \in Seq(Bytes)
         /\ HalvesOfBytes(b) = HalvesOfBytes(SubSeq(b, 1, c)) + HalvesOfBytes(SubSeq(b, c + 1, Len(b)))
<1>1. Len(b) \in Nat /\ c \in 0 .. Len(b) /\ ChunkBytes \in Nat /\ ChunkBytes % 2 = 0
  BY SumsAssumption
<1>2. PICK u, v : u = SubSeq(b, 1, c) /\ v = SubSeq(b, c + 1, Len(b))
  OBVIOUS
<1>3. u \in Seq(Bytes) /\ Len(u) = c
  <2>1. 1 \in Int /\ c \in Int /\ \A i \in 1 .. c : b[i] \in Bytes
    BY <1>1
  <2>2. /\ SubSeq(b, 1, c) \in Seq(Bytes)
        /\ Len(SubSeq(b, 1, c)) = IF 1 <= c THEN c - 1 + 1 ELSE 0
    BY <2>1, SubSeqProperties
  <2> QED BY <1>1, <1>2, <2>2
<1>4. v \in Seq(Bytes)
  <2>1. Len(b) \in Int /\ c + 1 \in Int /\ \A i \in c + 1 .. Len(b) : b[i] \in Bytes
    BY <1>1
  <2> QED BY <1>2, <2>1, SubSeqProperties
<1>5. u \o v = b
  <2>1. SubSeq(b, 1, c) \o SubSeq(b, c + 1, Len(b)) = SubSeq(b, 1, Len(b))
    <3>1. 1 \in 1 .. Len(b) + 1 /\ c \in 1 - 1 .. Len(b) /\ Len(b) \in c .. Len(b)
      BY <1>1
    <3> QED BY <3>1, ConcatAdjacentSubSeq
  <2> QED BY <1>2, <2>1, SubSeqFull
<1>6. Len(u) % 2 = 0 \/ v = <<>>
  <2>1. CASE c = ChunkBytes
    BY <1>1, <1>3, <2>1
  <2>2. CASE c = Len(b)
    <3>1. Len(b) \in Int /\ c + 1 \in Int /\ Len(b) < c + 1
      BY <1>1, <2>2
    <3>2. v = <<>>
      BY <1>2, <3>1, SubSeqEmpty
    <3> QED BY <3>2
  <2> QED BY <2>1, <2>2
<1>7. HalvesOfBytes(u \o v) = HalvesOfBytes(u) + HalvesOfBytes(v)
  BY <1>3, <1>4, <1>6, HalvesJoin
<1> QED BY <1>2, <1>3, <1>4, <1>5, <1>7

\* No bytes count for nothing.
LEMMA NoBytes == HalvesOfBytes(<<>>) = 0 /\ <<>> \in Seq(Bytes)
<1>1. <<>> \in Seq(Bytes) /\ Len(<<>>) = 0
  OBVIOUS
<1>2. HalvesOfBytes(<<>>) = Upto(Weighted(<<>>), 0)
  BY <1>1, WeightedTypes
<1> QED BY <1>1, <1>2, SumNone DEF Upto

\* What the bytes that are still to be read count for.
BytesLeft ==
  IF loop = "ctm" THEN HalvesOfBytes(bytes) + HalvesOfBytes(pkt.mem)
  ELSE IF loop = "mem" THEN HalvesOfBytes(bytes) ELSE 0

\* What the whole packet counts for.
AllOf(p) == HeaderSum(p) + HalvesOfBytes(p.ctm) + HalvesOfBytes(p.mem)

\* The inductive invariant: the two sums and what is left of the packet count like all of it.
SumInv ==
  /\ pkt \in Packets /\ loop \in {"ctm", "mem", "done"} /\ bytes \in Seq(Bytes)
  /\ sum \in W /\ region_sum \in W
  /\ loop = "done" => region_sum = 0
  /\ Same(sum + region_sum + BytesLeft, AllOf(pkt))

\* These are numbers.
LEMMA AllTypes ==
  ASSUME NEW p \in Packets
  PROVE  /\ HeaderSum(p) \in Int /\ HalvesOfBytes(p.ctm) \in Int /\ HalvesOfBytes(p.mem) \in Int
         /\ AllOf(p) \in Int
<1>1. HeaderSum(p) \in Int
  BY PseudoSame
<1>2. HalvesOfBytes(p.ctm) \in Int /\ HalvesOfBytes(p.mem) \in Int
  BY PacketTypes, WeightedTypes
<1> QED BY <1>1, <1>2 DEF AllOf

\* At the start all bytes are left.
LEMMA SumInvInit == SumInit => SumInv
<1> SUFFICES ASSUME SumInit PROVE SumInv
  OBVIOUS
<1>1. PICK p \in Packets : p = pkt
  BY DEF SumInit
<1>2. /\ loop = "ctm" /\ bytes = p.ctm /\ region_sum = 0
      /\ sum = ones_sum_pseudo(p.type, p.protocol, p.ip, p.l4_hdr, L4Length(p))
  BY <1>1 DEF SumInit
<1>3. sum \in W /\ Same(sum, HeaderSum(p))
  BY <1>2, PseudoSame
<1>4. PICK s \in W, h \in Int, a \in Int, b \in Int :
        /\ s = sum /\ h = HeaderSum(p) /\ a = HalvesOfBytes(p.ctm) /\ b = HalvesOfBytes(p.mem)
        /\ Same(s, h) /\ s \in Int
  BY <1>3, AllTypes, Sizes
<1>5. BytesLeft = a + b
  BY <1>1, <1>2, <1>4 DEF BytesLeft
<1>6. Same(s + (a + b), h + (a + b))
  <2>1. a + b \in Int /\ Same(a + b, a + b)
    BY SameSelf
  <2> QED BY <1>4, <2>1, SameAdd
<1>7. s + (a + b) = sum + region_sum + BytesLeft /\ h + (a + b) = AllOf(p)
  BY <1>2, <1>4, <1>5 DEF AllOf
<1>8. bytes \in Seq(Bytes)
  BY <1>2, PacketTypes
<1> QED BY <1>1, <1>2, <1>3, <1>6, <1>7, <1>8, Sizes DEF SumInv

\* A turn of the loop moves some of them into the sum of the region.
LEMMA ChunkKeepsSum == SumInv /\ SumChunk => SumInv'
<1> SUFFICES ASSUME SumInv, SumChunk PROVE SumInv'
  OBVIOUS
<1>1. PICK c : c = IF Len(bytes) > ChunkBytes THEN ChunkBytes ELSE Len(bytes)
  OBVIOUS
<1>2. PICK u, v : u = SubSeq(bytes, 1, c) /\ v = SubSeq(bytes, c + 1, Len(bytes))
  OBVIOUS
<1>3. /\ loop \in {"ctm", "mem"} /\ bytes # <<>>
      /\ region_sum' = ones_sum_add(region_sum, ones_sum_warr(u)) /\ bytes' = v
      /\ pkt' = pkt /\ loop' = loop /\ sum' = sum
  BY <1>1, <1>2 DEF SumChunk
<1>4. /\ u \in Seq(Bytes) /\ v \in Seq(Bytes)
      /\ HalvesOfBytes(bytes) = HalvesOfBytes(u) + HalvesOfBytes(v)
  BY <1>1, <1>2, <1>3, ChunkSplits DEF SumInv
<1>5. PICK x \in Int, y \in Int : x = HalvesOfBytes(u) /\ y = HalvesOfBytes(v)
  BY <1>4, WeightedTypes
<1>6. PICK w \in W : w = ones_sum_warr(u) /\ w \in Int /\ Same(w, x)
  BY <1>4, <1>5, WarrSame, Sizes
<1>7. PICK r \in W, s \in W : r = region_sum /\ s = sum /\ r \in Int /\ s \in Int
  BY Sizes DEF SumInv
<1>8. PICK t \in W : t = ones_sum_add(r, w) /\ t \in Int /\ Same(t, r + w) /\ t = region_sum'
  BY <1>3, <1>6, <1>7, AddSame, Sizes
<1>9. PICK m \in Int : /\ BytesLeft = (x + y) + m /\ BytesLeft' = y + m
  <2>1. HalvesOfBytes(bytes') = y /\ HalvesOfBytes(bytes) = x + y
    BY <1>3, <1>4, <1>5
  <2>2. PICK m \in Int : m = HalvesOfBytes(pkt.mem)
    BY AllTypes DEF SumInv
  <2>3. HalvesOfBytes(pkt'.mem) = m
    BY <1>3, <2>2
  <2>4. CASE loop = "ctm"
    <3>1. BytesLeft = (x + y) + m /\ BytesLeft' = y + m
      BY <1>3, <2>1, <2>2, <2>3, <2>4 DEF BytesLeft
    <3> QED BY <3>1
  <2>5. CASE loop = "mem"
    <3>1. BytesLeft = (x + y) + 0 /\ BytesLeft' = y + 0
      BY <1>3, <2>1, <2>5 DEF BytesLeft
    <3> QED BY <3>1
  <2> QED BY <1>3, <2>4, <2>5
<1>10. PICK all \in Int : all = AllOf(pkt) /\ Same(s + r + ((x + y) + m), all)
  BY <1>7, <1>9, AllTypes DEF SumInv
<1>11. Same(t, r + x)
  <2>1. r + w \in Int /\ r + x \in Int /\ r \in Int /\ w \in Int /\ Same(r, r) /\ Same(w, x)
    BY <1>6, <1>7, SameSelf
  <2>2. Same(r + w, r + x)
    BY <2>1, SameAdd, Zenon
  <2> QED BY <1>8, <2>1, <2>2, SameOn, Zenon
<1>12. PICK z \in Int, e \in Int, d \in Int :
         /\ d = s + t + (y + m) /\ e = s + r + ((x + y) + m)
         /\ d = t + z /\ e = (r + x) + z
  <2>1. /\ s + (y + m) \in Int /\ s + t + (y + m) \in Int /\ s + r + ((x + y) + m) \in Int
        /\ s + t + (y + m) = t + (s + (y + m))
        /\ s + r + ((x + y) + m) = (r + x) + (s + (y + m))
    BY <1>7, <1>8
  <2> QED BY <2>1
<1>13. Same(s + t + (y + m), all)
  <2>1. t \in Int /\ r + x \in Int /\ Same(z, z)
    BY <1>7, <1>8, SameSelf
  <2>2. Same(t + z, (r + x) + z)
    BY <1>11, <2>1, SameAdd, Zenon
  <2>3. Same(d, e) /\ Same(e, all)
    BY <1>10, <1>12, <2>2, Zenon
  <2>4. Same(d, all)
    BY <2>3, SameOn, Zenon
  <2> QED BY <1>12, <2>4, Zenon
<1>14. sum' = s /\ region_sum' = t /\ BytesLeft' = y + m /\ AllOf(pkt') = all /\ loop' # "done"
  BY <1>3, <1>7, <1>8, <1>9, <1>10
<1>15. Same(sum' + region_sum' + BytesLeft', AllOf(pkt'))
  BY <1>13, <1>14
<1> QED BY <1>3, <1>4, <1>14, <1>15 DEF SumInv

\* The end of a region moves that into the sum of the packet.
LEMMA RegionKeepsSum == SumInv /\ EndOfRegion => SumInv'
<1> SUFFICES ASSUME SumInv, EndOfRegion PROVE SumInv'
  OBVIOUS
<1>1. /\ loop \in {"ctm", "mem"} /\ bytes = <<>> /\ pkt' = pkt /\ region_sum' = 0
      /\ sum' = ones_sum_add(sum, region_sum)
      /\ \/ loop = "ctm" /\ loop' = "mem" /\ bytes' = pkt.mem
         \/ loop = "mem" /\ loop' = "done" /\ bytes' = bytes
  BY DEF EndOfRegion
<1>2. PICK r \in W, s \in W : r = region_sum /\ s = sum /\ r \in Int /\ s \in Int
  BY Sizes DEF SumInv
<1>3. PICK t \in W : t = sum' /\ t \in Int /\ Same(t, s + r)
  BY <1>1, <1>2, AddSame, Sizes
<1>4. PICK l \in Int : l = BytesLeft /\ l = BytesLeft'
  <2>1. PICK m \in Int : m = HalvesOfBytes(pkt.mem)
    BY AllTypes DEF SumInv
  <2>2. HalvesOfBytes(bytes) = 0
    BY <1>1, NoBytes
  <2>3. CASE loop = "ctm"
    <3>1. HalvesOfBytes(bytes') = m
      BY <1>1, <2>1, <2>3
    <3>2. BytesLeft = 0 + m /\ BytesLeft' = m
      BY <1>1, <2>1, <2>2, <2>3, <3>1 DEF BytesLeft
    <3> QED BY <3>2
  <2>4. CASE loop = "mem"
    <3>1. BytesLeft = 0 /\ BytesLeft' = 0
      BY <1>1, <2>2, <2>4 DEF BytesLeft
    <3> QED BY <3>1
  <2> QED BY <1>1, <2>3, <2>4
<1>5. PICK all \in Int : all = AllOf(pkt) /\ Same(s + r + l, all)
  BY <1>2, <1>4, AllTypes DEF SumInv
<1>6. Same(t + 0 + l, all)
  <2>1. PICK d \in Int, e \in Int, q \in Int :
          d = t + 0 + l /\ d = t + l /\ q = s + r /\ e = q + l /\ e = s + r + l
    <3>1. t + 0 + l = t + l /\ t + l \in Int /\ s + r \in Int /\ s + r + l \in Int
      BY <1>2, <1>3
    <3> QED BY <3>1
  <2>2. Same(l, l) /\ t \in Int /\ Same(t, q)
    BY <1>3, <2>1, SameSelf
  <2>3. Same(t + l, q + l)
    BY <2>2, SameAdd, Zenon
  <2>4. Same(d, e) /\ Same(e, all)
    BY <1>5, <2>1, <2>3, Zenon
  <2>5. Same(d, all)
    BY <2>4, SameOn, Zenon
  <2> QED BY <2>1, <2>5, Zenon
<1>7. sum' = t /\ region_sum' = 0 /\ BytesLeft' = l /\ AllOf(pkt') = all
  BY <1>1, <1>3, <1>4, <1>5
<1>8. Same(sum' + region_sum' + BytesLeft', AllOf(pkt'))
  BY <1>6, <1>7
<1>9. bytes' \in Seq(Bytes) /\ pkt' \in Packets /\ loop' \in {"ctm", "mem", "done"}
  <2>1. pkt.mem \in Seq(Bytes) /\ bytes \in Seq(Bytes) /\ pkt \in Packets
    BY PacketTypes DEF SumInv
  <2> QED BY <1>1, <2>1
<1> QED BY <1>3, <1>7, <1>8, <1>9, Sizes DEF SumInv

\* Nothing else changes them.
LEMMA SumInvStays == SumInv /\ UNCHANGED sums => SumInv'
BY DEF SumInv, sums, BytesLeft

\* So nothing is lost or added twice.
LEMMA SumInvHolds == SumSpec => []SumInv
<1>1. SumInv /\ [SumNext]_sums => SumInv'
  BY ChunkKeepsSum, RegionKeepsSum, SumInvStays DEF SumNext
<1> QED BY <1>1, SumInvInit, PTL DEF SumSpec

\* The parts in CTM and in external memory are one packet.
LEMMA TrueSumIs ==
  ASSUME NEW p \in Packets, Len(p.ctm) % 2 = 0 \/ p.mem = <<>>
  PROVE  TrueSum(p) = AllOf(p)
<1>1. HalvesOfBytes(p.ctm \o p.mem) = HalvesOfBytes(p.ctm) + HalvesOfBytes(p.mem)
  BY PacketTypes, HalvesJoin
<1>2. HalvesOfHeader(p.ip, IF p.type = "IPV6" THEN 2 .. 9 ELSE 3 .. 4)
        = Header(p.ip, IF p.type = "IPV6" THEN 2 ELSE 3, IF p.type = "IPV6" THEN 9 ELSE 4)
  <2>1. CASE p.type = "IPV6"
    BY <2>1 DEF Header
  <2>2. CASE p.type # "IPV6"
    BY <2>2 DEF Header
  <2> QED BY <2>1, <2>2
<1>3. HalvesOfHeader(p.l4_hdr, IF p.protocol = "UDP" THEN 0 .. 1 ELSE 0 .. 4)
        = Header(p.l4_hdr, 0, IF p.protocol = "UDP" THEN 1 ELSE 4)
  <2>1. CASE p.protocol = "UDP"
    BY <2>1 DEF Header
  <2>2. CASE p.protocol # "UDP"
    BY <2>2 DEF Header
  <2> QED BY <2>1, <2>2
<1>4. TrueSum(p) = HeaderSum(p) + HalvesOfBytes(p.ctm \o p.mem)
  BY <1>2, <1>3 DEF TrueSum, HeaderSum
<1>5. HeaderSum(p) \in Int /\ HalvesOfBytes(p.ctm) \in Int /\ HalvesOfBytes(p.mem) \in Int
  BY AllTypes
<1> QED BY <1>1, <1>4, <1>5 DEF AllOf

\* The complement counts like the negative.
LEMMA ComplementSame ==
  ASSUME NEW s \in W
  PROVE  /\ Complement(ones_sum_fold16(s)) \in 0 .. Half - 1
         /\ Same(Complement(ones_sum_fold16(s)), -s)
         /\ s \in Int /\ Complement(ones_sum_fold16(s)) \in Int
<1>1. PICK f \in 0 .. Half - 1 : f = ones_sum_fold16(s) /\ Same(f, s) /\ f \in Int
  BY FoldSame
<1>2. s \in Int /\ Half \in Nat /\ M = Half - 1 /\ M \in Int
  BY Sizes DEF M
<1>3. Complement(ones_sum_fold16(s)) = M - f /\ M - f \in 0 .. Half - 1 /\ M - f \in Int
  BY <1>1, <1>2 DEF Complement
<1>4. Same(M - f, -f)
  <2>1. M - f = -f + 1 * M
    BY <1>1, <1>2
  <2> QED BY <2>1 DEF Same
<1>5. Same(-f, -s) /\ -f \in Int /\ -s \in Int
  BY <1>1, <1>2, SameMinus
<1>6. Same(M - f, -s)
  BY <1>3, <1>4, <1>5, SameOn, Zenon
<1> QED BY <1>2, <1>3, <1>6

(* Whatever the headers, the bytes, the size of the chunks and the split   *)
(* between the memories (the part in CTM being even, unless it is all),    *)
(* the checksum that net_csum_l4_ip computes is that of the whole packet.  *)
THEOREM ChecksumIsRight == SumSpec => []ChecksumRight
<1>1. SumInv => ChecksumRight
  <2> SUFFICES ASSUME SumInv, loop = "done", Len(pkt.ctm) % 2 = 0 \/ pkt.mem = <<>>
               PROVE  Agree(net_csum_l4_ip, TrueSum(pkt))
    BY DEF ChecksumRight
  <2>1. PICK s \in W : s = sum /\ s \in Int
    BY Sizes DEF SumInv
  <2>2. PICK all \in Int : all = TrueSum(pkt) /\ all = AllOf(pkt)
    BY TrueSumIs, AllTypes DEF SumInv
  <2>3. Same(s, all)
    <3>1. sum + region_sum + BytesLeft = s
      BY <2>1 DEF SumInv, BytesLeft
    <3> QED BY <2>2, <3>1 DEF SumInv
  <2>4. PICK c \in 0 .. Half - 1 : c = net_csum_l4_ip /\ c \in Int /\ Same(c, -s)
    BY <2>1, ComplementSame DEF net_csum_l4_ip
  <2>5. Same(c + all, -s + s)
    <3>1. Same(all, s) /\ -s \in Int
      BY <2>1, <2>3, SameBack
    <3> QED BY <2>1, <2>4, <3>1, SameAdd, Zenon
  <2>6. -s + s = 0 /\ c + all \in Int
    BY <2>1, <2>4
  <2>7. Same(c + all, 0)
    BY <2>5, <2>6, Zenon
  <2>8. (c + all) % (Half - 1) = 0
    BY <2>6, <2>7, SameZero, Zenon
  <2> QED BY <2>2, <2>4, <2>8 DEF Agree
<1> QED BY <1>1, SumInvHolds, PTL


(***************************************************************************)
(* Checksums that are corrected, or filled in.                             *)
(***************************************************************************)
\* The correction of a checksum for a number that has changed.
LEMMA ModSame ==
  ASSUME NEW c \in 0 .. Half - 1, NEW o \in 0 .. Half - 1, NEW n \in 0 .. Half - 1
  PROVE  /\ net_csum_mod(c, o, n) \in 0 .. Half - 1
         /\ (net_csum_mod(c, o, n) + n - (c + o)) % (Half - 1) = 0
<1>1. PICK h \in Nat : h = Half /\ h >= 4 /\ Word = h * h /\ M = h - 1 /\ c \in 0 .. h - 1
                       /\ o \in 0 .. h - 1 /\ n \in 0 .. h - 1
  BY Sizes DEF M
<1>2. PICK t \in W : t = Complement(c) + Complement(o) + n /\ t = 2 * M - c - o + n /\ t \in Int
  <2>1. Complement(c) + Complement(o) + n = (h - 1 - c) + (h - 1 - o) + n
    BY <1>1 DEF Complement
  <2>2. (h - 1 - c) + (h - 1 - o) + n \in 0 .. 3 * h
    BY <1>1
  <2>3. 4 * h <= h * h
    <3>1. PICK d \in Nat : h = 4 + d
      <4>1. h = 4 + (h - 4) /\ h - 4 \in Nat
        BY <1>1
      <4> QED BY <4>1
    <3>2. h * h = 4 * h + d * h /\ d * h \in Nat
      BY <3>1
    <3> QED BY <3>2
  <2>4. (h - 1 - c) + (h - 1 - o) + n \in W
    <3>1. h * h \in Nat
      OBVIOUS
    <3> QED BY <1>1, <2>2, <2>3, <3>1 DEF W
  <2>5. (h - 1 - c) + (h - 1 - o) + n = 2 * M - c - o + n
    BY <1>1
  <2> QED BY <2>1, <2>2, <2>4, <2>5
<1>3. PICK r \in 0 .. h - 1 : r = net_csum_mod(c, o, n) /\ r \in Int /\ Same(r, -t)
  <2>1. net_csum_mod(c, o, n) = Complement(ones_sum_fold16(t))
    BY <1>2 DEF net_csum_mod
  <2> QED BY <1>1, <2>1, ComplementSame
<1>4. PICK k \in Int : r = -t + k * M
  BY <1>3 DEF Same
<1>5. r + n - (c + o) = 0 + (k - 2) * M
  <2>1. (k - 2) * M = k * M - 2 * M /\ k * M \in Int
    BY <1>1
  <2> QED BY <1>1, <1>2, <1>3, <1>4, <2>1
<1>6. Same(r + n - (c + o), 0) /\ r + n - (c + o) \in Int
  <2>1. k - 2 \in Int /\ r + n - (c + o) \in Int
    BY <1>3
  <2> QED BY <1>5, <2>1 DEF Same
<1>7. (r + n - (c + o)) % (Half - 1) = 0
  BY <1>6, SameZero, Zenon
<1> QED BY <1>1, <1>3, <1>7

\* The sum over the header of an IPv4 packet.
Ipv4Sum(h, o) ==
  IF o = <<>> THEN AddWords(0, Words(h, 0, 4))
  ELSE ones_sum_add(AddWords(0, Words(h, 0, 4)), ones_sum_warr(o))

\* The part of an IPv4 header without the options,
LEMMA StdSum ==
  ASSUME NEW h, \A i \in 0 .. 4 : h[i] \in W
  PROVE  /\ AddWords(0, Words(h, 0, 4)) \in W /\ Header(h, 0, 4) \in Int
         /\ Same(AddWords(0, Words(h, 0, 4)), Header(h, 0, 4))
         /\ AddWords(0, Words(h, 0, 4)) = 0 <=> \A i \in 0 .. 4 : h[i] = 0
<1>1. Counts(Words(h, 0, 4), Header(h, 0, 4))
  BY WordsCount
<1>2. PICK w \in Seq(W) : w = Words(h, 0, 4)
  BY <1>1 DEF Counts
<1>3. AddWords(0, w) = 0 <=> \A i \in 1 .. Len(w) : w[i] = 0
  BY AddWordsSame, Sizes
<1>4. Len(w) = 5 /\ \A j \in 1 .. 5 : w[j] = h[j - 1]
  BY <1>2 DEF Words
<1>5. (\A i \in 1 .. Len(w) : w[i] = 0) <=> \A i \in 0 .. 4 : h[i] = 0
  <2>1. ASSUME \A i \in 0 .. 4 : h[i] = 0, NEW j \in 1 .. Len(w) PROVE w[j] = 0
    <3>1. j - 1 \in 0 .. 4 /\ w[j] = h[j - 1]
      BY <1>4
    <3> QED BY <2>1, <3>1
  <2>2. ASSUME \A j \in 1 .. Len(w) : w[j] = 0, NEW i \in 0 .. 4 PROVE h[i] = 0
    <3>1. i + 1 \in 1 .. Len(w) /\ (i + 1) - 1 = i
      BY <1>4
    <3>2. w[i + 1] = h[(i + 1) - 1]
      BY <1>4, <3>1
    <3> QED BY <2>2, <3>1, <3>2
  <2> QED BY <2>1, <2>2
<1> QED BY <1>1, <1>2, <1>3, <1>5, AddCounted

\* and with them.
LEMMA Ipv4Same ==
  ASSUME NEW h, \A i \in 0 .. 4 : h[i] \in W, NEW o \in Seq(Bytes)
  PROVE  /\ Ipv4Sum(h, o) \in W /\ Ipv4Sum(h, o) \in Int
         /\ Header(h, 0, 4) \in Int /\ HalvesOfBytes(o) \in Int
         /\ Same(Ipv4Sum(h, o), Header(h, 0, 4) + HalvesOfBytes(o))
         /\ Ipv4Sum(h, o) = 0 <=>
              (\A i \in 0 .. 4 : h[i] = 0) /\ (o = <<>> \/ ones_sum_warr(o) = 0)
<1>1. PICK s \in W, x \in Int :
        /\ s = AddWords(0, Words(h, 0, 4)) /\ x = Header(h, 0, 4) /\ Same(s, x) /\ s \in Int
        /\ s = 0 <=> \A i \in 0 .. 4 : h[i] = 0
  BY StdSum, Sizes
<1>2. CASE o = <<>>
  <2>1. HalvesOfBytes(o) = 0 /\ Ipv4Sum(h, o) = s /\ x + 0 = x
    BY <1>1, <1>2, NoBytes DEF Ipv4Sum
  <2>2. Same(Ipv4Sum(h, o), x + HalvesOfBytes(o))
    BY <1>1, <2>1
  <2> QED BY <1>1, <1>2, <2>1, <2>2
<1>3. CASE o # <<>>
  <2>1. PICK y \in Int, v \in W :
          y = HalvesOfBytes(o) /\ v = ones_sum_warr(o) /\ v \in Int /\ Same(v, y)
    BY WarrSame, WeightedTypes, Sizes
  <2>2. PICK t \in W : t = Ipv4Sum(h, o) /\ t \in Int /\ Same(t, s + v)
                       /\ (t = 0 <=> s = 0 /\ v = 0)
    <3>1. Ipv4Sum(h, o) = ones_sum_add(s, v)
      BY <1>1, <1>3, <2>1 DEF Ipv4Sum
    <3>2. /\ ones_sum_add(s, v) \in W /\ Same(ones_sum_add(s, v), s + v)
          /\ ones_sum_add(s, v) = 0 <=> s = 0 /\ v = 0
      BY AddSame
    <3> QED BY <3>1, <3>2, Sizes
  <2>3. s + v \in Int /\ x + y \in Int
    BY <1>1, <2>1
  <2>4. Same(s + v, x + y)
    BY <1>1, <2>1, SameAdd, Zenon
  <2>5. Same(t, x + y)
    BY <2>2, <2>3, <2>4, SameOn, Zenon
  <2> QED BY <1>1, <1>3, <2>1, <2>2, <2>5
<1> QED BY <1>2, <1>3

\* The checksum in these terms.
LEMMA Ipv4Csum == ASSUME NEW h, NEW o
                  PROVE  net_csum_ipv4(h, o) = Complement(ones_sum_fold16(Ipv4Sum(h, o)))
BY DEF net_csum_ipv4, Ipv4Sum

\* A number added to one word of a header.
Raised(h, k, n, m, y, c) ==
  /\ \A i \in n .. m : h[i] \in W /\ k[i] \in W
  /\ y \in n .. m /\ k[y] = h[y] + c
  /\ \A i \in (n .. m) \ {y} : k[i] = h[i]

\* A number added to one word is added to the sum of the header.
LEMMA HeaderChange ==
  ASSUME NEW n \in Int, NEW m \in Int, NEW y, NEW h, NEW k, NEW c \in Int,
         Raised(h, k, n, m, y, c)
  PROVE  Same(Header(k, n, m), Header(h, n, m) + c)
<1>0. /\ \A i \in n .. m : h[i] \in W
      /\ \A i \in n .. m : k[i] \in W
      /\ y \in n .. m /\ k[y] = h[y] + c
      /\ \A i \in (n .. m) \ {y} : k[i] = h[i]
  BY DEF Raised
<1>1. PICK f, g : f = Halves(h) /\ g = Halves(k)
  OBVIOUS
<1>2. \A i \in n .. m : f[i] \in Int
  BY <1>0, <1>1, HalvesInt
<1>3. \A i \in n .. m : g[i] \in Int
  BY <1>0, <1>1, HalvesInt
<1>4. \A i \in (n .. m) \ {y} : g[i] = f[i]
  BY <1>0, <1>1 DEF Halves
<1>5. IsFiniteSet(n .. m)
  BY FS_Interval
<1>6. SumFunctionOnSet(g, n .. m) = SumFunctionOnSet(f, n .. m) - f[y] + g[y]
  <2>1. PICK S : S = n .. m
    OBVIOUS
  <2>2. /\ y \in S /\ IsFiniteSet(S) /\ \A i \in S : f[i] \in Int
        /\ g[y] \in Int /\ \A i \in S \ {y} : g[i] = f[i]
    BY <1>0, <1>2, <1>3, <1>4, <1>5, <2>1
  <2>3. SumFunctionOnSet(g, S) = SumFunctionOnSet(f, S) - f[y] + g[y]
    BY <2>2, SumChange
  <2> QED BY <2>1, <2>3
<1>7. PICK x \in Int, z \in Int : x = SumFunctionOnSet(f, n .. m) /\ z = SumFunctionOnSet(g, n .. m)
  BY <1>2, <1>3, <1>5, SumInt
<1>8. Header(h, n, m) = x /\ Header(k, n, m) = z
  BY <1>1, <1>7, HeaderIs
<1>9. PICK p \in Int, q \in Int : p = f[y] /\ q = g[y] /\ z = x - p + q
  BY <1>0, <1>2, <1>3, <1>6, <1>7
<1>10. PICK a \in Int : a = h[y] /\ k[y] = a + c
  <2>1. h[y] \in W
    BY <1>0
  <2> QED BY <1>0, <2>1, Sizes
<1>11. Same(a, p) /\ Same(a + c, q)
  <2>1. y \in Int /\ h[y] \in W /\ k[y] \in W
    BY <1>0
  <2> QED BY <1>1, <1>9, <1>10, <2>1, HalfInt
<1>12. PICK i \in Int, j \in Int : a = p + i * M /\ a + c = q + j * M
  BY <1>11 DEF Same
<1>13. PICK im \in Int, jm \in Int : im = i * M /\ jm = j * M /\ (i - j) * M = im - jm
  BY Sizes
<1>14. z = (x + c) + (i - j) * M
  BY <1>9, <1>10, <1>12, <1>13
<1>15. i - j \in Int
  OBVIOUS
<1> QED BY <1>8, <1>14, <1>15 DEF Same

\* The header, its checksum added, counts for nothing.
LEMMA SameCancels ==
  ASSUME NEW u \in Int, NEW z \in Int, NEW y \in Int, NEW x \in Int, NEW c \in Int, NEW t \in Int,
         Same(u, z + y), Same(z, x + c), Same(c, -t), Same(t, x + y)
  PROVE  Same(u, 0)
<1>1. PICK i \in Int, j \in Int, k \in Int, l \in Int :
        u = (z + y) + i * M /\ z = (x + c) + j * M /\ c = -t + k * M /\ t = (x + y) + l * M
  BY DEF Same
<1>2. PICK im \in Int, jm \in Int, km \in Int, lm \in Int :
        im = i * M /\ jm = j * M /\ km = k * M /\ lm = l * M
  BY Sizes
<1>3. (i + j + k - l) * M = im + jm + km - lm
  BY <1>2, Sizes
<1>4. u = 0 + (i + j + k - l) * M
  BY <1>1, <1>2, <1>3
<1>5. i + j + k - l \in Int
  OBVIOUS
<1> QED BY <1>4, <1>5 DEF Same

\* The header with its checksum in it sums up to zero.
LEMMA Ipv4Zero ==
  ASSUME NEW ip \in [0 .. 9 -> W], NEW o \in Seq(Bytes),
         NEW cleared, cleared = [ip EXCEPT ![2] = Half * (@ \div Half)],
         NEW filled, filled = [cleared EXCEPT ![2] = @ + net_csum_ipv4(cleared, o)]
  PROVE  net_csum_ipv4(filled, o) = 0
<1>1. PICK w \in W : w = ip[2]
  OBVIOUS
<1>2. PICK h \in Nat : h = Half /\ h >= 4 /\ Word = h * h /\ M = h - 1 /\ M \in Nat
  BY Sizes DEF M
<1>3. PICK a \in Nat : a = h * (w \div h) /\ a <= h * h - h
  <2>1. w \in Nat /\ w < h * h /\ h \in Nat \ {0}
    BY <1>2, Sizes DEF W
  <2>2. PICK q \in Nat, r \in Nat : q = w \div h /\ w = h * q + r
    <3>1. /\ w \div Half \in Nat /\ w % Half \in 0 .. Half - 1
          /\ w = Half * (w \div Half) + (w % Half)
      BY <2>1, HalvesSame
    <3>2. w % Half \in Nat
      BY <3>1
    <3> QED BY <1>2, <3>1, <3>2, Zenon
  <2>3. q <= h - 1
    <3> SUFFICES ASSUME q >= h PROVE FALSE
      BY <2>1, <2>2
    <3>1. PICK d \in Nat : q = h + d
      <4>1. q = h + (q - h) /\ q - h \in Nat
        BY <2>1, <2>2
      <4> QED BY <4>1
    <3>2. h * q = h * h + h * d /\ h * d \in Nat /\ h * h \in Nat
      BY <2>1, <3>1
    <3> QED BY <2>1, <2>2, <3>2
  <2>4. PICK d \in Nat : h - 1 = q + d
    <3>1. h - 1 = q + (h - 1 - q) /\ h - 1 - q \in Nat
      BY <2>1, <2>3
    <3> QED BY <3>1
  <2>5. h * (q + d) = h * q + h * d /\ h * q \in Nat /\ h * d \in Nat
    BY <2>1
  <2>6. h * (h - 1) = h * h - h /\ h * h \in Nat
    OBVIOUS
  <2> QED BY <2>2, <2>4, <2>5, <2>6
<1>4. cleared = [ip EXCEPT ![2] = a] /\ a \in W
  <2>1. h * h \in Nat
    OBVIOUS
  <2> QED BY <1>1, <1>2, <1>3, <2>1 DEF W
<1>5. \A i \in 0 .. 4 : cleared[i] \in W
  BY <1>4
<1>6. PICK t \in W, x \in Int, y \in Int :
        /\ t = Ipv4Sum(cleared, o) /\ x = Header(cleared, 0, 4) /\ y = HalvesOfBytes(o)
        /\ t \in Int /\ Same(t, x + y)
        /\ t = 0 <=> (\A i \in 0 .. 4 : cleared[i] = 0) /\ (o = <<>> \/ ones_sum_warr(o) = 0)
  BY <1>5, Ipv4Same
<1>7. PICK c \in 0 .. h - 1 :
        /\ c = net_csum_ipv4(cleared, o) /\ Same(c, -t) /\ c \in Int
        /\ (t = 0 => c = h - 1)
  <2>1. net_csum_ipv4(cleared, o) = Complement(ones_sum_fold16(t))
    BY <1>6, Ipv4Csum
  <2>2. t = 0 => Complement(ones_sum_fold16(t)) = h - 1
    BY <1>2, FoldSame DEF Complement
  <2> QED BY <1>2, <2>1, <2>2, ComplementSame
<1>8. filled = [ip EXCEPT ![2] = a + c] /\ a + c \in W
  <2>1. cleared[2] = a
    BY <1>4
  <2>2. filled = [cleared EXCEPT ![2] = a + c]
    BY <1>7, <2>1
  <2>3. PICK n \in Nat : n = h * h /\ n = Word
    BY <1>2
  <2>4. a + c \in 0 .. n - 1
    BY <1>2, <1>3, <1>7, <2>3
  <2>5. filled = [ip EXCEPT ![2] = a + c]
    BY <1>4, <2>2
  <2> QED BY <2>3, <2>4, <2>5 DEF W
<1>9. \A i \in 0 .. 4 : filled[i] \in W
  BY <1>8
<1>10. PICK u \in W, z \in Int :
        /\ u = Ipv4Sum(filled, o) /\ z = Header(filled, 0, 4)
        /\ u \in Int /\ Same(u, z + y)
        /\ u = 0 <=> (\A i \in 0 .. 4 : filled[i] = 0) /\ (o = <<>> \/ ones_sum_warr(o) = 0)
  BY <1>6, <1>9, Ipv4Same
<1>11. Same(z, x + c)
  <2>1. Raised(cleared, filled, 0, 4, 2, c)
    BY <1>4, <1>5, <1>8, <1>9 DEF Raised
  <2>2. Same(Header(filled, 0, 4), Header(cleared, 0, 4) + c)
    BY <1>7, <2>1, HeaderChange
  <2> QED BY <1>6, <1>10, <2>2
<1>12. Same(u, 0)
  <2>1. Same(u, z + y) /\ Same(z, x + c) /\ Same(c, -t) /\ Same(t, x + y)
    BY <1>6, <1>7, <1>10, <1>11
  <2> QED BY <1>6, <1>7, <1>10, <2>1, SameCancels, Zenon
<1>13. u # 0
  <2> SUFFICES ASSUME u = 0 PROVE FALSE
    OBVIOUS
  <2>1. (\A i \in 0 .. 4 : filled[i] = 0) /\ (o = <<>> \/ ones_sum_warr(o) = 0)
    BY <1>10
  <2>2. a = 0 /\ c = 0
    <3>1. filled[2] = a + c
      BY <1>8
    <3> QED BY <1>3, <1>7, <2>1, <3>1
  <2>3. \A i \in 0 .. 4 : cleared[i] = 0
    BY <1>4, <1>8, <2>1, <2>2
  <2> QED BY <1>2, <1>6, <1>7, <2>1, <2>2, <2>3
<1>14. PICK f \in 0 .. h - 1 : f = ones_sum_fold16(u) /\ Same(f, 0) /\ f # 0
  <2>1. PICK f \in 0 .. h - 1 : f = ones_sum_fold16(u) /\ Same(f, u) /\ f # 0 /\ f \in Int
    <3>1. PICK f : f = ones_sum_fold16(u)
      OBVIOUS
    <3>2. f \in 0 .. Half - 1 /\ Same(f, u) /\ (f = 0 <=> u = 0)
      BY <3>1, FoldSame
    <3>3. f \in 0 .. h - 1 /\ f \in Int
      BY <1>2, <3>2
    <3> QED BY <1>13, <3>1, <3>2, <3>3
  <2>2. Same(f, 0)
    BY <1>10, <1>12, <2>1, SameOn
  <2> QED BY <2>1, <2>2
<1>15. f = h - 1
  <2>1. PICK k \in Int : f = k * M
    BY <1>2, <1>14 DEF Same
  <2>2. M \in Nat
    BY <1>2
  <2>3. k >= 1 => k * M >= M
    BY <2>2
  <2>4. k <= 0 => k * M <= 0
    BY <2>2
  <2>5. f \in Nat /\ f # 0 /\ f <= M /\ M = h - 1
    BY <1>2, <1>14
  <2>6. PICK n \in Int : n = k * M
    BY <2>2
  <2> QED BY <2>1, <2>3, <2>4, <2>5, <2>6
<1>16. net_csum_ipv4(filled, o) = Complement(f)
  BY <1>10, <1>14, Ipv4Csum
<1> QED BY <1>2, <1>15, <1>16 DEF Complement

(* Whatever the packet, a checksum that net_csum_mod corrects is that of   *)
(* the changed header, and an IPv4 header with options into which the      *)
(* result of net_csum_ipv4 is put sums up to zero.                         *)
THEOREM CorrectionIsRight == SumSpec => []CorrectionRight
<1>1. SumInv => CorrectionRight
  <2> SUFFICES ASSUME SumInv PROVE CorrectionRight
    OBVIOUS
  <2>1. net_csum_l4_ip \in 0 .. Half - 1
    BY ComplementSame DEF SumInv, net_csum_l4_ip
  <2>2. ASSUME NEW old \in 0 .. Half - 1, NEW new \in 0 .. Half - 1
        PROVE  LET csum == net_csum_l4_ip
                   mod  == net_csum_mod(csum, old, new)
               IN  mod \in 0 .. Half - 1 /\ (mod + new - (csum + old)) % (Half - 1) = 0
    <3> HIDE DEF net_csum_l4_ip, net_csum_mod
    <3> QED BY <2>1, ModSame
  <2>3. ASSUME pkt.type = "IPV4"
        PROVE  LET options == SubSeq(pkt.ctm, 1, 4 * (Len(pkt.ctm) \div 4))
                   cleared == [pkt.ip EXCEPT ![2] = Half * (@ \div Half)]
                   filled  == [cleared EXCEPT ![2] = @ + net_csum_ipv4(cleared, options)]
               IN  net_csum_ipv4(filled, options) = 0
    <3>1. pkt \in Packets
      BY DEF SumInv
    <3>2. pkt.ip \in [0 .. 9 -> W] /\ pkt.ctm \in Seq(Bytes)
      BY <3>1, PacketsAssumption DEF W, Bytes
    <3>3. SubSeq(pkt.ctm, 1, 4 * (Len(pkt.ctm) \div 4)) \in Seq(Bytes)
      <4>1. PICK b \in Seq(Bytes), l \in Nat, m \in Int :
              b = pkt.ctm /\ l = Len(b) /\ m = 4 * (l \div 4) /\ m <= l
        BY <3>2
      <4>2. 1 \in Int /\ \A i \in 1 .. m : b[i] \in Bytes
        <5> SUFFICES ASSUME NEW i \in 1 .. m PROVE b[i] \in Bytes
          OBVIOUS
        <5>1. i \in 1 .. Len(b)
          <6>1. m <= l /\ l = Len(b)
            BY <4>1
          <6>2. i \in Int /\ 1 <= i /\ i <= m
            OBVIOUS
          <6> QED BY <6>1, <6>2
        <5>2. \A j \in 1 .. Len(b) : b[j] \in Bytes
          OBVIOUS
        <5> QED BY <5>1, <5>2
      <4>3. SubSeq(b, 1, m) \in Seq(Bytes)
        BY <4>1, <4>2, SubSeqProperties
      <4> QED BY <4>1, <4>3
    <3> QED BY <3>2, <3>3, Ipv4Zero
  <2> QED BY <2>2, <2>3 DEF CorrectionRight
<1> QED BY <1>1, SumInvHolds, PTL
=============================================================================
