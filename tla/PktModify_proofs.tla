-------------------------- MODULE PktModify_proofs --------------------------
(* What the arithmetic of PktModify guarantees for every offset, length and
   silicon revision. *)
EXTENDS PktModify, TLAPS

(* A script that deletes is aligned, behind the metadata, and at most 16 bytes
   from the packet: what the four bits of the byte count can express. *)
LEMMA DeleteInReach ==
  ASSUME NEW off \in LegalOffsets, ~NoOpScript(off)
  PROVE  /\ DeleteOffset(off) \in 8 .. (MS_MAX_OFF - 8)
         /\ DeleteOffset(off) % 8 = 0
         /\ off - DeleteOffset(off) - 8 \in 1 .. 16
<1>1. CASE off < MS_MAX_OFF
  BY <1>1, MaxOffAssumption, SMT DEF LegalOffsets, NoOpScript, DeleteOffset
<1>2. CASE ~(off < MS_MAX_OFF)
  BY <1>2, MaxOffAssumption, SMT DEF LegalOffsets, NoOpScript, DeleteOffset
<1> QED BY <1>1, <1>2

(* Wherever a packet starts (any offset the run-time assertion of
   pkt_msd_write admits, on either silicon), the script it writes leads the
   traffic manager to the packet and touches neither metadata nor data. *)
THEOREM ScriptReachesPacket ==
  ASSUME NEW off \in LegalOffsets
  PROVE  ScriptSound(off)
<1> USE MaxOffAssumption DEF LegalOffsets
<1>1. CASE NoOpScript(off)
  BY <1>1, SMT DEF NoOpScript, ScriptSound, pkt_msd_write, MsOff, ScriptAt, PacketStart
<1>2. CASE ~NoOpScript(off)
  <2> DEFINE d == DeleteOffset(off)
  <2>1. d \in 8 .. (MS_MAX_OFF - 8) /\ d % 8 = 0 /\ off - d - 8 \in 1 .. 16
    BY <1>2, DeleteInReach
  <2>2. ByteCount(off - d - 8) = off - d - 8
    BY <2>1, SMT DEF ByteCount
  <2>3. (d \div 8 - 1) % 32 = d \div 8 - 1 /\ 8 * (d \div 8) = d
    <3> HIDE DEF d
    <3> QED BY <2>1, SMT
  <2> HIDE DEF d
  <2>4. pkt_msd_write(off) = [at |-> d, delete |-> off - d - 8,
                              off_enc |-> d \div 8 - 1, len_adj |-> off]
    BY <1>2, <2>2 DEF pkt_msd_write, d
  <2> QED
    BY <2>1, <2>3, <2>4, SMT DEF ScriptSound, MsOff, ScriptAt, PacketStart
<1> QED BY <1>1, <1>2

(* A packet that starts inside its CTM buffer is accounted for to the last
   byte by the two size functions, and the CTM buffer is filled before the MU
   buffer is used. *)
THEOREM SizesAddUp ==
  ASSUME NEW size \in 0 .. 3, NEW off \in 0 .. CtmBytes(size), NEW len \in Nat
  PROVE  DataSplit(len, off, size)
<1> DEFINE b == CtmBytes(size)
<1>1. b \in {256, 512, 1024, 2048}
  <2>1. size = 0 \/ size = 1 \/ size = 2 \/ size = 3
    BY SMT
  <2> QED BY <2>1, SMT DEF CtmBytes
<1>2. off \in 0 .. b
  OBVIOUS
<1>3. TBytes(off, size) = (b - off) % UIntMod
  BY DEF TBytes
<1> HIDE DEF b
<1>4. TBytes(off, size) = b - off
  BY <1>1, <1>2, <1>3, UIntAssumption, SMT
<1>5. /\ pkt_ctm_data_size(len, off, size) = IF len > b - off THEN b - off ELSE len
      /\ pkt_emem_data_size(len, off, size) = IF len > b - off THEN len - (b - off) ELSE 0
  BY <1>4 DEF pkt_ctm_data_size, pkt_emem_data_size
<1>6. CtmBytes(size) = b
  BY DEF b
<1> QED
  BY <1>1, <1>2, <1>5, <1>6, SMT DEF DataSplit
=============================================================================
