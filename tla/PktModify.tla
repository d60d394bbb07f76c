----------------------------- MODULE PktModify -----------------------------
(* The arithmetic of microc/lib/pkt/libpkt.c: where the bytes of a packet
   lie in its CTM buffer and its MU buffer, and the modification script that
   tells the traffic manager where the packet starts. *)
EXTENDS Integers

CONSTANTS
  MS_MAX_OFF,     \* highest offset of a packet without a long script
  UIntMod         \* 2^32, or less where TLC evaluates

(* 64 up to silicon A1, 128 from B0 on. *)
ASSUME MaxOffAssumption == MS_MAX_OFF \in {64, 128}

(* Larger than any packet (14 bits of length) and any buffer. *)
ASSUME UIntAssumption == UIntMod \in Nat /\ UIntMod > 16384

-----------------------------------------------------------------------------
\* Sizes: the front of a packet is in the CTM buffer, the rest in the MU.

(* 256 << size, for the four sizes of PKT_CTM_SIZE. *)
CtmBytes(size) == <<256, 512, 1024, 2048>>[size + 1]

(* Faulty variant: the offset is not subtracted. *)
TBytesWhole(pkt_offset, size) == CtmBytes(size) % UIntMod

(* Room in a CTM buffer after pkt_offset bytes, as an unsigned int. *)
TBytes(pkt_offset, size) == (CtmBytes(size) - pkt_offset) % UIntMod

pkt_ctm_data_size(pkt_len, pkt_offset, size) ==
  IF pkt_len > TBytes(pkt_offset, size) THEN TBytes(pkt_offset, size) ELSE pkt_len

pkt_emem_data_size(pkt_len, pkt_offset, size) ==
  IF pkt_len > TBytes(pkt_offset, size) THEN pkt_len - TBytes(pkt_offset, size) ELSE 0

-----------------------------------------------------------------------------
\* The direct modification script.

LegalOffsets == 16 .. (MS_MAX_OFF + 16)         \* the run-time assertion

NoOpScript(off) == off <= MS_MAX_OFF /\ off % 8 = 0

(* The byte count of an instruction has four bits, and stands for one more. *)
ByteCount(bytes) == ((bytes - 1) % 16) + 1

(* Faulty variant: the reach of the encoding is forgotten. *)
DeleteOffsetUnbounded(off) == off - (off % 8) - 8

(* Where a script that deletes is put: the last aligned place that leaves room
   for itself, within the reach of the encoding. *)
DeleteOffset(off) ==
  (IF off < MS_MAX_OFF THEN off - (off % 8) ELSE MS_MAX_OFF) - 8

(* What is written (at which offset, how many bytes it deletes) and what is
   returned for pkt_nbi_send. *)
pkt_msd_write(off) ==
  IF NoOpScript(off)
  THEN [at |-> off - 8, delete |-> 0,
        off_enc |-> off \div 8 - 2, len_adj |-> off]
  ELSE [at |-> DeleteOffset(off), delete |-> ByteCount(off - DeleteOffset(off) - 8),
        off_enc |-> DeleteOffset(off) \div 8 - 1, len_adj |-> off]

(* The send command carries five bits of off_enc. *)
MsOff(msi) == msi.off_enc % 32

-----------------------------------------------------------------------------
\* What the traffic manager makes of it (pkt.h, "NBI Packet Modify").

ScriptAt(ms_off) == 8 * (ms_off + 1)

PacketStart(ms_off, delete) == ScriptAt(ms_off) + 8 + delete

(* The script is aligned, clear of the metadata in the first eight bytes and
   of the packet; the encoded offset leads to it, and the packet starts, for
   the traffic manager, where it was said to start. *)
ScriptSound(off) ==
  LET msi == pkt_msd_write(off)
  IN  /\ msi.at % 8 = 0 /\ msi.at >= 8 /\ msi.at + 8 <= off
      /\ ScriptAt(MsOff(msi)) = msi.at
      /\ PacketStart(MsOff(msi), msi.delete) = off

(* Every byte of a packet that starts inside the CTM buffer is in one of the
   two buffers, and the CTM buffer is not overrun. *)
DataSplit(len, off, size) ==
  LET ctm  == pkt_ctm_data_size(len, off, size)
      emem == pkt_emem_data_size(len, off, size)
  IN  /\ ctm \in Nat /\ emem \in Nat /\ ctm + emem = len
      /\ off + ctm <= CtmBytes(size)
      /\ emem > 0 => off + ctm = CtmBytes(size)

=============================================================================
