-------------------------------- MODULE Csum --------------------------------
(***************************************************************************)
(* Checksums (microc/lib/net/csum.h): one's complement sums of 32-bit      *)
(* words with the carry put back, folded to 16 bits at the end.  A step is *)
(* one turn of the loop over a region of memory: the bytes of a packet lie *)
(* in two, CTM and external memory, and are read in chunks.                *)
(* A byte has Byte values, so that small sums carry, too.                  *)
(***************************************************************************)
EXTENDS Integers, SequencesExt

CONSTANTS
  Byte,         \* 256
  ChunkBytes,   \* bytes in the transfer registers, 64; a multiple of 4
  Protocol,     \* numbers of the protocols
  Packets       \* the packets to sum up

ASSUME SumsAssumption ==
  Byte \in Nat \ {0, 1} /\ ChunkBytes \in Nat \ {0} /\ ChunkBytes % 4 = 0

VARIABLES
  pkt,    \* type and protocol, words of the headers in registers, bytes in memory
  loop,   \* region being summed
  bytes,  \* what is left of it
  region_sum,
  sum

sums == <<pkt, loop, bytes, region_sum, sum>>

Half  == Byte * Byte
Word  == Half * Half

\* Faulty variant: the carry is dropped.
ones_sum_add_modulo(sum1, sum2) == (sum1 + sum2) % Word

ones_sum_add(sum1, sum2) ==
  IF sum1 + sum2 >= Word THEN sum1 + sum2 - Word + 1 ELSE sum1 + sum2

\* Faulty variant: folded once only.
ones_sum_fold16_once(s) == ((s \div Half) + (s % Half)) % Half

ones_sum_fold16(s) ==
  LET once == (s \div Half) + (s % Half)
  IN  ((once \div Half) + (once % Half)) % Half

AddWords(s, words) == FoldLeft(ones_sum_add, s, words)

\* Words n, n + 1 ... m of a header.
Words(hdr, n, m) == [j \in 1 .. m - n + 1 |-> hdr[n + j - 1]]

ones_sum_pseudo(ip_type, protocol, ip, l4_hdr, l4_len) ==
  AddWords(0, Words(ip, 3, 4)
    \o (IF ip_type = "IPV6" THEN <<ip[2]>> \o Words(ip, 5, 9) ELSE <<>>)
    \o Words(l4_hdr, 0, 1)
    \o (IF ip_type = "IPV6" THEN <<Protocol[protocol]>> ELSE <<>>)
    \o (IF protocol = "TCP" THEN Words(l4_hdr, 2, 4) ELSE <<>>)
    \o (IF ip_type = "IPV6" THEN <<l4_len>> ELSE <<Protocol[protocol] * Half + l4_len>>))

(* Word k of an array of bytes; those past the end are masked off.         *)
ByteAt(b, n) == IF n <= Len(b) THEN b[n] ELSE 0
WordOf(b, k) ==
  ((ByteAt(b, 4*k - 3) * Byte + ByteAt(b, 4*k - 2)) * Byte + ByteAt(b, 4*k - 1)) * Byte
  + ByteAt(b, 4*k)

(* The chain of additions, each with the carry of the one before; the last *)
(* adds nothing but the carry, and its own is not looked at.               *)
AddCarry(acc, w) ==
  LET s == acc.sum + w + acc.carry
  IN  [sum |-> s % Word, carry |-> s \div Word]

Chain(b) ==
  FoldLeft(AddCarry, [sum |-> 0, carry |-> 0], [k \in 1 .. Len(b) \div 4 |-> WordOf(b, k)])

ones_sum_warr(b) ==
  LET whole == (Chain(b).sum + Chain(b).carry) % Word
  IN  IF Len(b) % 4 = 0 THEN whole
      ELSE ones_sum_add(whole, WordOf(b, Len(b) \div 4 + 1))

Complement(s) == Half - 1 - s

net_csum_mod(orig_csum, orig_val, new_val) ==
  Complement(ones_sum_fold16(Complement(orig_csum) + Complement(orig_val) + new_val))

\* The options lie in memory, before the payload.
net_csum_ipv4(ip, options) ==
  LET std == AddWords(0, Words(ip, 0, 4))
  IN  Complement(ones_sum_fold16(IF options = <<>> THEN std
                                 ELSE ones_sum_add(std, ones_sum_warr(options))))

-----------------------------------------------------------------------------
(* net_csum_l4_ip: the header is summed from registers and skipped in      *)
(* memory, in CTM if there is any of the packet.                           *)
L4HeaderBytes(protocol) == IF protocol = "UDP" THEN 8 ELSE 20

L4Length(p) == IF p.protocol = "UDP" THEN p.l4_hdr[1] \div Half
               ELSE L4HeaderBytes(p.protocol) + Len(p.ctm) + Len(p.mem)

(* Packets are made of words and bytes; the number of the protocol and the *)
(* length, which the code joins by a bitwise or, have half a word each.    *)
ASSUME PacketsAssumption ==
  \A p \in Packets :
    /\ p.type \in {"IPV4", "IPV6"} /\ p.protocol \in {"UDP", "TCP"}
    /\ p.ip \in [0 .. 9 -> 0 .. Word - 1] /\ p.l4_hdr \in [0 .. 4 -> 0 .. Word - 1]
    /\ p.ctm \in Seq(0 .. Byte - 1) /\ p.mem \in Seq(0 .. Byte - 1)
    /\ Protocol[p.protocol] \in 0 .. Half - 1 /\ L4Length(p) < Half

SumInit ==
  /\ pkt \in Packets
  /\ loop = "ctm" /\ bytes = pkt.ctm /\ region_sum = 0
  /\ sum = ones_sum_pseudo(pkt.type, pkt.protocol, pkt.ip, pkt.l4_hdr, L4Length(pkt))

\* One turn of the loop of ones_sum_mem.
SumChunk ==
  /\ loop \in {"ctm", "mem"} /\ bytes # <<>>
  /\ LET curr_len == IF Len(bytes) > ChunkBytes THEN ChunkBytes ELSE Len(bytes)
     IN  /\ region_sum' = ones_sum_add(region_sum, ones_sum_warr(SubSeq(bytes, 1, curr_len)))
         /\ bytes' = SubSeq(bytes, curr_len + 1, Len(bytes))
  /\ UNCHANGED <<pkt, loop, sum>>

EndOfRegion ==
  /\ loop \in {"ctm", "mem"} /\ bytes = <<>>
  /\ sum' = ones_sum_add(sum, region_sum) /\ region_sum' = 0
  /\ \/ loop = "ctm" /\ loop' = "mem" /\ bytes' = pkt.mem
     \/ loop = "mem" /\ loop' = "done" /\ UNCHANGED bytes
  /\ UNCHANGED pkt

SumNext == SumChunk \/ EndOfRegion

SumSpec == SumInit /\ [][SumNext]_sums

net_csum_l4_ip == Complement(ones_sum_fold16(sum))

-----------------------------------------------------------------------------
(* The definition: the sum of all 16-bit numbers modulo Half - 1.          *)
HalvesOfWord(w) == (w \div Half) + (w % Half)
HalvesOfBytes(b) ==
  SumFunction([n \in DOMAIN b |-> IF n % 2 = 1 THEN b[n] * Byte ELSE b[n]])
HalvesOfHeader(hdr, ns) == SumFunction([n \in ns |-> HalvesOfWord(hdr[n])])

TrueSum(p) ==
  HalvesOfHeader(p.ip, IF p.type = "IPV6" THEN 2 .. 9 ELSE 3 .. 4)
  + HalvesOfHeader(p.l4_hdr, IF p.protocol = "UDP" THEN 0 .. 1 ELSE 0 .. 4)
  + Protocol[p.protocol] + L4Length(p)
  + HalvesOfBytes(p.ctm \o p.mem)

Agree(csum, true_sum) == csum \in 0 .. Half - 1 /\ (csum + true_sum) % (Half - 1) = 0

(* Whatever the bytes, the split between the two memories and the size of  *)
(* the chunks, the checksum is that of the packet as a whole, provided the *)
(* part in CTM has an even number of bytes, as one that ends at the end of *)
(* a buffer and begins at an even address does (csum.h).                   *)
ChecksumRight ==
  loop = "done" /\ (Len(pkt.ctm) % 2 = 0 \/ pkt.mem = <<>>) =>
    Agree(net_csum_l4_ip, TrueSum(pkt))

(* A checksum corrected for one changed number is that of the changed      *)
(* header, so that the receiver accepts it; and the checksum of an IPv4    *)
(* header, with options, put into the header, makes its sum zero.          *)
CorrectionRight ==
  loop = "done" =>
    /\ LET csum == net_csum_l4_ip
       IN  \A old, new \in 0 .. Half - 1 :
             LET mod == net_csum_mod(csum, old, new)
             IN  mod \in 0 .. Half - 1 /\ (mod + new - (csum + old)) % (Half - 1) = 0
    /\ pkt.type = "IPV4" =>
         LET options == SubSeq(pkt.ctm, 1, 4 * (Len(pkt.ctm) \div 4))
             cleared == [pkt.ip EXCEPT ![2] = Half * (@ \div Half)]
             filled  == [cleared EXCEPT ![2] = @ + net_csum_ipv4(cleared, options)]
         IN  net_csum_ipv4(filled, options) = 0
=============================================================================
