-------------------------------- MODULE Wire --------------------------------
(* The forwarding application (apps/lab5/wire_main.c): threads that take a
   packet each from the packet engine of the CTM, set its priority, put a
   command for the MAC and a modification script in front of it, and hand it
   to the traffic manager, which reads and frees the buffer when it likes. *)
EXTENDS PktModify, Sequences

CONSTANTS
  Threads,        \* contexts of the microengines that run wire_obj
  Bufs,           \* CTM packet buffers, named by packet number
  Frames,         \* what may arrive: [port, tpid, tci, len]
  MaxPackets      \* bound: how many packets arrive

(* 16 bits of tag control information. *)
Tci == {n \in Nat : n < 65536}

ASSUME FramesAssumption ==
  /\ MaxPackets \in Nat
  /\ \A f \in Frames : f.tci \in Tci /\ f.len \in Nat /\ f.port \in Nat

PKT_NBI_OFFSET == 64                    \* from config.h, included first
MAC_PREPEND_BYTES == 4
PORT_TO_CHANNEL(port) == port * 8

VARIABLES
  arrived,    \* the frames that came in; the place is the sequence number
  ctm,        \* per buffer, its contents
  free,       \* buffers the NBI may fill
  work,       \* buffers ready for a thread, oldest first
  thread,     \* per thread, where it is and its registers
  ready,      \* per buffer handed to the traffic manager, the command
  departed    \* what left, in order

vars == <<arrived, ctm, free, work, thread, ready, departed>>

-----------------------------------------------------------------------------
\* Bits of the tag control information: 3 of priority, 1, 12 of VLAN.

Vlan(tci) == tci % 4096
Priority(tci) == tci \div 8192
WithPriority(tci, p) == (tci % 8192) + p * 8192

IsTagged(hdr) == hdr.tpid = "8100"

Idle == [pc |-> "receive"]

(* What a buffer holds where no script was written yet. *)
NoScript == [at |-> 0, delete |-> 0]

Init ==
  /\ arrived = <<>>
  /\ ctm = [b \in Bufs |-> [seq |-> 0, tci |-> 0, tpid |-> "", cmd |-> FALSE,
                            script |-> NoScript]]
  /\ free = Bufs
  /\ work = <<>>
  /\ thread = [t \in Threads |-> Idle]
  /\ ready = [b \in {} |-> <<>>]
  /\ departed = <<>>

-----------------------------------------------------------------------------
\* The NBI.

(* The NBI's DMA fills a free buffer: the data from PKT_NBI_OFFSET on.  What
   lies before it stays, a script of an earlier packet included. *)
Arrive(f, b) ==
  /\ Len(arrived) < MaxPackets /\ b \in free
  /\ arrived' = Append(arrived, f)
  /\ ctm' = [ctm EXCEPT ![b] = [@ EXCEPT !.seq = Len(arrived) + 1, !.tci = f.tci,
                                         !.tpid = f.tpid, !.cmd = FALSE]]
  /\ free' = free \ {b}
  /\ work' = Append(work, b)
  /\ UNCHANGED <<thread, ready, departed>>

(* The sequencer passes packets on in the order of their numbers; the traffic
   manager reads each as the command and the script in the buffer tell it, and
   the buffer is free again. *)
Depart(b) ==
  /\ b \in DOMAIN ready /\ ready[b].seq = Len(departed) + 1
  /\ LET cmd == ready[b]
         found == ctm[b].script.at = ScriptAt(cmd.ms_off)
         start == IF found THEN PacketStart(cmd.ms_off, ctm[b].script.delete) ELSE 0
     IN  departed' = Append(departed,
           [seq |-> ctm[b].seq, txq |-> cmd.txq, tci |-> ctm[b].tci,
            cmd |-> ctm[b].cmd, start |-> start, end |-> cmd.end])
  /\ ready' = [c \in DOMAIN ready \ {b} |-> ready[c]]
  /\ free' = free \cup {b}
  /\ UNCHANGED <<arrived, ctm, work, thread>>

-----------------------------------------------------------------------------
\* A thread.  It gives up the microengine at each access to the CTM.

Goto(t, pc) == thread' = [thread EXCEPT ![t].pc = pc]

(* pkt_nbi_recv: wait for a packet, and take over its metadata. *)
Receive(t) ==
  /\ thread[t].pc = "receive" /\ work # <<>>
  /\ LET b == Head(work)
         s == ctm[b].seq
     IN  thread' = [thread EXCEPT ![t] =
           [pc |-> "header", pnum |-> b, seq |-> s, len |-> arrived[s].len,
            port |-> arrived[s].port, vlan |-> 0, tci |-> 0]]
  /\ work' = Tail(work)
  /\ UNCHANGED <<arrived, ctm, free, ready, departed>>

(* Where rewrite_packet goes for a header: only VLANs 2 and 4 have their tag
   rewritten; the branch for VLAN 3 declares a function and does nothing. *)
AfterHeader(hdr) ==
  IF IsTagged(hdr) /\ Vlan(hdr.tci) \in {2, 4} THEN "load" ELSE "command"

(* Faulty variant: VLAN 3 is dropped without a word to the traffic manager. *)
ReadHeaderDrops(t) ==
  /\ thread[t].pc = "header"
  /\ LET hdr == ctm[thread[t].pnum]
     IN  thread' = [thread EXCEPT ![t] =
           IF IsTagged(hdr) /\ Vlan(hdr.tci) = 3 THEN Idle
           ELSE [@ EXCEPT !.vlan = Vlan(hdr.tci), !.pc = AfterHeader(hdr)]]
  /\ UNCHANGED <<arrived, ctm, free, work, ready, departed>>

(* receive_packet reads the header, and rewrite_packet looks at that copy. *)
ReadHeader(t) ==
  /\ thread[t].pc = "header"
  /\ LET hdr == ctm[thread[t].pnum]
     IN  thread' = [thread EXCEPT ![t].vlan = Vlan(hdr.tci), ![t].pc = AfterHeader(hdr)]
  /\ UNCHANGED <<arrived, ctm, free, work, ready, departed>>

(* The tag is read again, from the packet, ... *)
LoadTci(t) ==
  /\ thread[t].pc = "load"
  /\ thread' = [thread EXCEPT ![t].tci = ctm[thread[t].pnum].tci, ![t].pc = "store"]
  /\ UNCHANGED <<arrived, ctm, free, work, ready, departed>>

NewTci(vlan, tci) == WithPriority(tci, IF vlan = 2 THEN 0 ELSE 2)

(* ... and written back with another priority. *)
StoreTci(t) ==
  /\ thread[t].pc = "store"
  /\ ctm' = [ctm EXCEPT ![thread[t].pnum].tci = NewTci(thread[t].vlan, thread[t].tci)]
  /\ Goto(t, "command")
  /\ UNCHANGED <<arrived, free, work, ready, departed>>

PktOff == PKT_NBI_OFFSET + 2 * MAC_PREPEND_BYTES

(* pkt_mac_egress_cmd_write: the last four bytes before the packet. *)
WriteCommand(t) ==
  /\ thread[t].pc = "command"
  /\ ctm' = [ctm EXCEPT ![thread[t].pnum].cmd = TRUE]
  /\ Goto(t, "script")
  /\ UNCHANGED <<arrived, free, work, ready, departed>>

(* Faulty variant: the command word is left out of the packet. *)
ScriptInfoAfterCommand == pkt_msd_write(PktOff)

(* The script goes before the command word, which travels with the packet. *)
ScriptInfo == pkt_msd_write(PktOff - MAC_PREPEND_BYTES)

WriteScript(t) ==
  /\ thread[t].pc = "script"
  /\ ctm' = [ctm EXCEPT ![thread[t].pnum].script =
               [at |-> ScriptInfo.at, delete |-> ScriptInfo.delete]]
  /\ Goto(t, "send")
  /\ UNCHANGED <<arrived, free, work, ready, departed>>

TxQueue(port) == IF PORT_TO_CHANNEL(port) # 0 THEN 0 ELSE 128

(* Faulty variant: the sequence number of the next packet. *)
PacketReadyNextSeq(r) ==
  [seq |-> r.seq + 1, txq |-> TxQueue(r.port), ms_off |-> MsOff(ScriptInfo),
   end |-> r.len - MAC_PREPEND_BYTES + ScriptInfo.len_adj]

(* The command tells queue, sequence number, the place of the script and where
   the packet ends. *)
PacketReady(r) ==
  [seq |-> r.seq, txq |-> TxQueue(r.port), ms_off |-> MsOff(ScriptInfo),
   end |-> r.len - MAC_PREPEND_BYTES + ScriptInfo.len_adj]

HandOver(r) ==
  ready' = [b \in DOMAIN ready \cup {r.pnum} |->
              IF b = r.pnum THEN PacketReady(r) ELSE ready[b]]

(* Faulty variant: the next turn of the loop does not wait for a packet. *)
SendAgain(t) ==
  /\ thread[t].pc = "send"
  /\ HandOver(thread[t])
  /\ Goto(t, "header")
  /\ UNCHANGED <<arrived, ctm, free, work, departed>>

(* pkt_nbi_send, which nobody waits for, and the next turn of the loop. *)
Send(t) ==
  /\ thread[t].pc = "send"
  /\ HandOver(thread[t])
  /\ thread' = [thread EXCEPT ![t] = Idle]
  /\ UNCHANGED <<arrived, ctm, free, work, departed>>

Step(t) ==
  \/ Receive(t) \/ ReadHeader(t) \/ LoadTci(t) \/ StoreTci(t)
  \/ WriteCommand(t) \/ WriteScript(t) \/ Send(t)

Next ==
  \/ \E f \in Frames, b \in Bufs : Arrive(f, b)
  \/ \E b \in Bufs : Depart(b)
  \/ \E t \in Threads : Step(t)

Spec == Init /\ [][Next]_vars

(* Every context gets its turn and the traffic manager sends what it is given. *)
Fairness ==
  /\ \A t \in Threads : WF_vars(Step(t))
  /\ \A b \in Bufs : WF_vars(Depart(b))

FairSpec == Spec /\ Fairness

-----------------------------------------------------------------------------
\* Properties.

Labels == {"receive", "header", "load", "store", "command", "script", "send"}

(* Registers, buffers and queues hold what they may hold. *)
TypeOK ==
  /\ Len(arrived) <= MaxPackets /\ \A s \in DOMAIN arrived : arrived[s] \in Frames
  /\ \A b \in Bufs : ctm[b].seq \in 0 .. Len(arrived) /\ ctm[b].tci \in Tci
  /\ free \subseteq Bufs
  /\ \A i \in DOMAIN work : work[i] \in Bufs
  /\ \A t \in Threads : thread[t].pc \in Labels
  /\ DOMAIN ready \subseteq Bufs
  /\ \A b \in DOMAIN ready : ready[b].seq \in DOMAIN arrived
  /\ Len(departed) <= Len(arrived)

Held == {t \in Threads : thread[t].pc # "receive"}

(* A buffer is in one hand at a time: free, waiting for a thread, a thread's,
   or the traffic manager's.  Nobody writes a packet that has been sent. *)
OneOwner ==
  /\ \A t, u \in Held : t # u => thread[t].pnum # thread[u].pnum
  /\ \A t \in Held : /\ thread[t].pnum \notin free \cup DOMAIN ready
                     /\ ctm[thread[t].pnum].seq = thread[t].seq
                     /\ \A i \in DOMAIN work : work[i] # thread[t].pnum
  /\ free \cap DOMAIN ready = {}
  /\ \A i \in DOMAIN work : work[i] \notin free \cup DOMAIN ready

(* The port a frame should leave by: the ports in use are 0 and 16. *)
OtherPort(p) == IF p = 0 THEN 16 ELSE 0

(* The priority a frame should leave with: lowest for VLAN 2, two for VLAN 4. *)
WantedPriority(f) ==
  IF IsTagged(f) /\ Vlan(f.tci) = 2 THEN 0
  ELSE IF IsTagged(f) /\ Vlan(f.tci) = 4 THEN 2
  ELSE Priority(f.tci)

(* What leaves is what came in, whole: the MAC's command word, then every byte
   after the two prepended words, to the queue of the other port.  The tag
   leaves as rewrite_packet has it, with another priority and the same VLAN. *)
SentAsReceived ==
  \A s \in DOMAIN departed :
    LET in == arrived[s]
        out == departed[s]
        data == PKT_NBI_OFFSET + 2 * MAC_PREPEND_BYTES
    IN  /\ out.seq = s
        /\ out.cmd /\ out.start = data - 4
        /\ out.end = PKT_NBI_OFFSET + in.len
        /\ out.txq = PORT_TO_CHANNEL(OtherPort(in.port))
        /\ out.tci % 8192 = in.tci % 8192
        /\ Priority(out.tci) = WantedPriority(in)

(* "If the VLAN is 2 or 3 then it toggles the bottom bit of the tag in the
   packet data itself" (apps/lab5/README.md:460-462): a frame of one of the two
   leaves with the other. *)
VlansExchanged ==
  \A s \in DOMAIN departed :
    LET vlan == Vlan(arrived[s].tci)
    IN  IsTagged(arrived[s]) /\ vlan \in {2, 3} => Vlan(departed[s].tci) = 5 - vlan

(* Every packet that arrives is sent: no sequence number is kept from the
   sequencer, which would hold back every packet after it, whatever the VLAN. *)
EveryPacketDeparts ==
  \A s \in 1 .. MaxPackets : Len(arrived) >= s ~> Len(departed) >= s
=============================================================================
