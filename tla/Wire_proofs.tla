----------------------------- MODULE Wire_proofs -----------------------------
(* The forwarding application is correct for any number of threads, buffers
   and packets: IInv is inductive, and the safety properties follow from it. *)
EXTENDS WireInvariant, PktModify_proofs, SequenceTheorems

(* The script of every packet is put 12 bytes before the MAC's command word
   and deletes the four bytes between. *)
LEMMA ScriptFacts ==
  /\ ScriptInfo = [at |-> 56, delete |-> 4, off_enc |-> 6, len_adj |-> 68]
  /\ PktOff = 72 /\ MsOff(ScriptInfo) = 6
  /\ ScriptAt(6) = 56 /\ PacketStart(6, 4) = 68
<1>1. PktOff = 72
  BY SMT DEF PktOff, PKT_NBI_OFFSET, MAC_PREPEND_BYTES
<1>2. ~NoOpScript(68) /\ DeleteOffset(68) = 56
  BY MaxOffAssumption, SMT DEF NoOpScript, DeleteOffset
<1>3. ByteCount(4) = 4
  BY SMT DEF ByteCount
<1>4. pkt_msd_write(68) = [at |-> 56, delete |-> 4, off_enc |-> 6, len_adj |-> 68]
  BY <1>2, <1>3, SMT DEF pkt_msd_write
<1>5. ScriptInfo = pkt_msd_write(68)
  BY <1>1, SMT DEF ScriptInfo, MAC_PREPEND_BYTES
<1> QED
  BY <1>1, <1>4, <1>5, SMT DEF MsOff, ScriptAt, PacketStart

(* What the constants make of a script and of a command. *)
LEMMA ScriptValue == Script = [at |-> 56, delete |-> 4] /\ Script \in [at : Nat, delete : Nat]
BY ScriptFacts DEF Script

(* Rewriting a tag keeps it within 16 bits. *)
LEMMA TagTypes ==
  ASSUME NEW v, NEW tci \in Tci
  PROVE  NewTci(v, tci) \in Tci
<1>1. tci \in Nat /\ tci % 8192 \in Nat /\ tci % 8192 <= 8191
  BY DEF Tci
<1>2. CASE v = 2
  BY <1>1, <1>2 DEF Tci, NewTci, WithPriority
<1>3. CASE v # 2
  BY <1>1, <1>3 DEF Tci, NewTci, WithPriority
<1> QED
  BY <1>2, <1>3

LEMMA RewrittenTypes ==
  ASSUME NEW f \in Frames
  PROVE  Rewritten(f) \in Tci
<1>1. f.tci \in Tci
  BY FramesAssumption
<1>2. NewTci(Vlan(f.tci), f.tci) \in Tci
  BY <1>1, TagTypes
<1> QED
  BY <1>1, <1>2 DEF Rewritten

(* A thread that holds a packet has its registers loaded. *)
LEMMA HeldRegs ==
  ASSUME Types, NEW t \in Threads
  PROVE  /\ t \in Held => thread[t] \in Regs
         /\ t \notin Held => thread[t] = Idle
         /\ Idle.pc = "receive"
         /\ \A r \in Regs : r.pc # "receive"
BY DEF Types, Held, Regs, Idle, Labels

-----------------------------------------------------------------------------
\* The steps of a thread between receiving a packet and sending it.

(* A step of one thread on the packet it holds, which leaves alone the frame's
   number and type, preserves the invariant if what is known of the packet is
   true again afterwards: no other thread and no queue has that buffer. *)
LEMMA OwnStep ==
  ASSUME IInv, NEW t \in Held, NEW b, b = thread[t].pnum,
         thread' = [thread EXCEPT ![t] = thread'[t]], thread'[t] \in Regs,
         thread'[t].pnum = b, thread'[t].seq = thread[t].seq,
         ctm' = [ctm EXCEPT ![b] = ctm'[b]], ctm'[b] \in Buffers,
         ctm'[b].seq = ctm[b].seq, Work(thread[t])',
         UNCHANGED <<arrived, free, work, ready, departed>>
  PROVE  IInv'
<1> USE DEF IInv
<1>1. t \in Threads /\ thread[t] \in Regs /\ b \in Bufs
  BY HeldRegs DEF Held, Regs
<1>2. /\ thread' \in [Threads -> {Idle} \cup Regs]
      /\ \A u \in Threads \ {t} : thread'[u] = thread[u]
  BY <1>1 DEF Types
<1>3. /\ ctm' \in [Bufs -> Buffers]
      /\ \A c \in Bufs \ {b} : ctm'[c] = ctm[c]
      /\ \A c \in Bufs : ctm'[c].seq = ctm[c].seq
  BY <1>1 DEF Types
<1>4. Held' = Held
  BY <1>1, <1>2, HeldRegs DEF Held
<1>5. Types'
  BY <1>2, <1>3 DEF Types
<1>6. \A u \in Held : u \in Threads /\ thread[u] \in Regs /\ thread[u].pnum \in Bufs
                      /\ thread'[u].pnum = thread[u].pnum /\ thread'[u].seq = thread[u].seq
  BY <1>1, <1>2, HeldRegs DEF Held, Regs
<1>7. OneOwner'
  BY <1>3, <1>4, <1>6 DEF OneOwner
<1>8. /\ \A i \in DOMAIN work : work[i] \in Bufs \ {b}
      /\ \A c \in DOMAIN ready : c \in Bufs \ {b}
      /\ \A u \in Held \ {t} : thread[u].pnum # b
  BY <1>6 DEF OneOwner, Types
<1>9. WorkInv'
  BY <1>3, <1>8 DEF WorkInv, Raw, Holds
<1>10. ThreadInv'
  <2> SUFFICES ASSUME NEW u \in Held, u # t
               PROVE  Work(thread[u])'
    BY <1>4 DEF ThreadInv
  <2>1. thread'[u] = thread[u] /\ ctm'[thread[u].pnum] = ctm[thread[u].pnum]
    BY <1>2, <1>3, <1>6, <1>8
  <2> QED
    BY <2>1 DEF ThreadInv, Work, Holds, Raw, Done, Framed
<1>11. ReadyInv'
  BY <1>3, <1>8 DEF ReadyInv, Framed, Done, Holds, Command
<1>12. WorkOnce' /\ DepartedInv'
  BY DEF WorkOnce, DepartedInv, Departure
<1> QED
  BY <1>5, <1>7, <1>9, <1>10, <1>11, <1>12

(* What the steps below share: the registers and the buffer of a thread. *)
LEMMA Own ==
  ASSUME IInv, NEW t \in Held
  PROVE  /\ t \in Threads /\ thread[t] \in Regs /\ Work(thread[t])
         /\ thread[t].pnum \in Bufs /\ ctm[thread[t].pnum] \in Buffers
         /\ arrived[thread[t].seq] \in Frames /\ thread \in [Threads -> {Idle} \cup Regs]
<1>1. t \in Threads /\ thread[t] \in Regs /\ Work(thread[t])
  BY HeldRegs DEF IInv, Held, ThreadInv
<1>2. thread[t].seq \in DOMAIN arrived
  BY <1>1 DEF Work, Holds
<1> QED
  BY <1>1, <1>2 DEF IInv, Types, Regs

LEMMA ReadHeaderKeeps ==
  ASSUME IInv, NEW t \in Threads, ReadHeader(t)
  PROVE  IInv'
<1> DEFINE b == thread[t].pnum
<1>1. t \in Held /\ thread[t].pc = "header"
  BY DEF ReadHeader, Held
<1>2. /\ thread[t] \in Regs /\ Work(thread[t]) /\ ctm[b] \in Buffers
      /\ thread \in [Threads -> {Idle} \cup Regs]
  BY <1>1, Own
<1>3. thread' = [thread EXCEPT ![t] =
                   [thread[t] EXCEPT !.vlan = Vlan(ctm[b].tci), !.pc = AfterHeader(ctm[b])]]
  BY DEF ReadHeader
<1>4. Vlan(ctm[b].tci) \in Nat /\ AfterHeader(ctm[b]) \in {"load", "command"}
  <2>1. ctm[b].tci \in Tci
    BY <1>2 DEF Buffers
  <2>2. ctm[b].tci \in Nat
    BY <2>1 DEF Tci
  <2>3. Vlan(ctm[b].tci) \in Nat
    BY <2>2 DEF Vlan
  <2> QED
    BY <2>3 DEF AfterHeader
<1>5. /\ thread'[t] \in Regs /\ thread'[t].vlan = Vlan(ctm[b].tci)
      /\ thread'[t].pc = AfterHeader(ctm[b]) /\ thread'[t].pnum = b
      /\ thread'[t].seq = thread[t].seq /\ thread'[t].len = thread[t].len
      /\ thread'[t].port = thread[t].port
  BY <1>2, <1>3, <1>4 DEF Regs, Labels
<1>6. thread' = [thread EXCEPT ![t] = thread'[t]] /\ ctm' = [ctm EXCEPT ![b] = ctm'[b]]
  BY <1>2, <1>3 DEF ReadHeader, IInv, Types
<1>7. UNCHANGED <<arrived, ctm, free, work, ready, departed>>
  BY DEF ReadHeader
<1>8. Raw(b, thread[t].seq)
  BY <1>1, <1>2 DEF Work
<1>9. /\ AfterHeader(ctm[b]) = AfterHeader(arrived[thread[t].seq])
      /\ Vlan(ctm[b].tci) = Vlan(arrived[thread[t].seq].tci)
  BY <1>8 DEF Raw, Holds, AfterHeader, IsTagged
<1>10. thread'[t].pc = "command" => Done(b, thread[t].seq)
  BY <1>5, <1>8, <1>9 DEF Done, Raw, Rewritten
<1>11. Work(thread[t])'
  BY <1>2, <1>4, <1>5, <1>7, <1>8, <1>9, <1>10 DEF Work, Holds, Raw, Done
<1> QED
  BY <1>1, <1>2, <1>5, <1>6, <1>7, <1>11, OwnStep

LEMMA LoadTciKeeps ==
  ASSUME IInv, NEW t \in Threads, LoadTci(t)
  PROVE  IInv'
<1> DEFINE b == thread[t].pnum
<1>1. t \in Held /\ thread[t].pc = "load"
  BY DEF LoadTci, Held
<1>2. /\ thread[t] \in Regs /\ Work(thread[t]) /\ ctm[b] \in Buffers
      /\ thread \in [Threads -> {Idle} \cup Regs]
  BY <1>1, Own
<1>3. thread' = [thread EXCEPT ![t] =
                   [thread[t] EXCEPT !.tci = ctm[b].tci, !.pc = "store"]]
  BY DEF LoadTci
<1>4. /\ thread'[t] \in Regs /\ thread'[t].tci = ctm[b].tci
      /\ thread'[t].pc = "store" /\ thread'[t].pnum = b
      /\ thread'[t].seq = thread[t].seq /\ thread'[t].len = thread[t].len
      /\ thread'[t].port = thread[t].port /\ thread'[t].vlan = thread[t].vlan
  BY <1>2, <1>3 DEF Regs, Labels, Buffers
<1>5. thread' = [thread EXCEPT ![t] = thread'[t]] /\ ctm' = [ctm EXCEPT ![b] = ctm'[b]]
  BY <1>2, <1>3 DEF LoadTci, IInv, Types
<1>6. UNCHANGED <<arrived, ctm, free, work, ready, departed>>
  BY DEF LoadTci
<1>7. Work(thread[t])'
  BY <1>1, <1>2, <1>4, <1>6 DEF Work, Holds, Raw
<1> QED
  BY <1>1, <1>2, <1>4, <1>5, <1>6, <1>7, OwnStep

(* The three steps that write to the buffer move the thread on by Goto. *)
LEMMA GotoFacts ==
  ASSUME IInv, NEW t \in Held, NEW pc \in Labels \ {"receive"}, Goto(t, pc)
  PROVE  /\ thread' = [thread EXCEPT ![t] = thread'[t]] /\ thread'[t] \in Regs
         /\ thread'[t].pc = pc /\ thread'[t].pnum = thread[t].pnum
         /\ thread'[t].seq = thread[t].seq /\ thread'[t].len = thread[t].len
         /\ thread'[t].port = thread[t].port /\ thread'[t].vlan = thread[t].vlan
         /\ thread'[t].tci = thread[t].tci
<1>1. t \in Threads /\ thread[t] \in Regs /\ thread \in [Threads -> {Idle} \cup Regs]
  BY Own
<1>2. thread' = [thread EXCEPT ![t] = [thread[t] EXCEPT !.pc = pc]]
  BY DEF Goto
<1> QED
  BY <1>1, <1>2 DEF Regs

LEMMA StoreTciKeeps ==
  ASSUME IInv, NEW t \in Threads, StoreTci(t)
  PROVE  IInv'
<1> DEFINE b == thread[t].pnum
           f == arrived[thread[t].seq]
<1>1. t \in Held /\ thread[t].pc = "store" /\ Goto(t, "command")
  BY DEF StoreTci, Held
<1>2. /\ thread[t] \in Regs /\ Work(thread[t]) /\ b \in Bufs /\ ctm[b] \in Buffers
      /\ f \in Frames
  BY <1>1, Own
<1>3. /\ thread' = [thread EXCEPT ![t] = thread'[t]] /\ thread'[t] \in Regs
      /\ thread'[t].pc = "command" /\ thread'[t].pnum = b
      /\ thread'[t].seq = thread[t].seq /\ thread'[t].len = thread[t].len
      /\ thread'[t].port = thread[t].port
  BY <1>1, GotoFacts DEF Labels
<1>4. NewTci(thread[t].vlan, thread[t].tci) = Rewritten(f) /\ Rewritten(f) \in Tci
  BY <1>1, <1>2, RewrittenTypes DEF Work, Rewritten
<1>5. ctm' = [ctm EXCEPT ![b] = [ctm[b] EXCEPT !.tci = Rewritten(f)]]
  BY <1>4 DEF StoreTci
<1>6. /\ ctm' = [ctm EXCEPT ![b] = ctm'[b]] /\ ctm'[b] \in Buffers
      /\ ctm'[b].seq = ctm[b].seq /\ ctm'[b].tpid = ctm[b].tpid
      /\ ctm'[b].tci = Rewritten(f)
  BY <1>2, <1>4, <1>5 DEF Buffers, IInv, Types
<1>7. UNCHANGED <<arrived, free, work, ready, departed>>
  BY DEF StoreTci
<1>8. Work(thread[t])'
  BY <1>2, <1>3, <1>6, <1>7 DEF Work, Holds, Done
<1> QED
  BY <1>1, <1>3, <1>6, <1>7, <1>8, OwnStep

LEMMA WriteCommandKeeps ==
  ASSUME IInv, NEW t \in Threads, WriteCommand(t)
  PROVE  IInv'
<1> DEFINE b == thread[t].pnum
<1>1. t \in Held /\ thread[t].pc = "command" /\ Goto(t, "script")
  BY DEF WriteCommand, Held
<1>2. /\ thread[t] \in Regs /\ Work(thread[t]) /\ b \in Bufs /\ ctm[b] \in Buffers
  BY <1>1, Own
<1>3. /\ thread' = [thread EXCEPT ![t] = thread'[t]] /\ thread'[t] \in Regs
      /\ thread'[t].pc = "script" /\ thread'[t].pnum = b
      /\ thread'[t].seq = thread[t].seq /\ thread'[t].len = thread[t].len
      /\ thread'[t].port = thread[t].port
  BY <1>1, GotoFacts DEF Labels
<1>4. ctm' = [ctm EXCEPT ![b] = [ctm[b] EXCEPT !.cmd = TRUE]]
  BY DEF WriteCommand
<1>5. /\ ctm' = [ctm EXCEPT ![b] = ctm'[b]] /\ ctm'[b] \in Buffers
      /\ ctm'[b].seq = ctm[b].seq /\ ctm'[b].tpid = ctm[b].tpid
      /\ ctm'[b].tci = ctm[b].tci /\ ctm'[b].cmd
  BY <1>2, <1>4 DEF Buffers, IInv, Types
<1>6. UNCHANGED <<arrived, free, work, ready, departed>>
  BY DEF WriteCommand
<1>7. Work(thread[t])'
  BY <1>1, <1>2, <1>3, <1>5, <1>6 DEF Work, Holds, Done
<1> QED
  BY <1>1, <1>3, <1>5, <1>6, <1>7, OwnStep

LEMMA WriteScriptKeeps ==
  ASSUME IInv, NEW t \in Threads, WriteScript(t)
  PROVE  IInv'
<1> DEFINE b == thread[t].pnum
<1>1. t \in Held /\ thread[t].pc = "script" /\ Goto(t, "send")
  BY DEF WriteScript, Held
<1>2. /\ thread[t] \in Regs /\ Work(thread[t]) /\ b \in Bufs /\ ctm[b] \in Buffers
  BY <1>1, Own
<1>3. /\ thread' = [thread EXCEPT ![t] = thread'[t]] /\ thread'[t] \in Regs
      /\ thread'[t].pc = "send" /\ thread'[t].pnum = b
      /\ thread'[t].seq = thread[t].seq /\ thread'[t].len = thread[t].len
      /\ thread'[t].port = thread[t].port
  BY <1>1, GotoFacts DEF Labels
<1>4. ctm' = [ctm EXCEPT ![b] = [ctm[b] EXCEPT !.script = Script]]
  BY DEF WriteScript, Script
<1>5. /\ ctm' = [ctm EXCEPT ![b] = ctm'[b]] /\ ctm'[b] \in Buffers
      /\ ctm'[b].seq = ctm[b].seq /\ ctm'[b].tpid = ctm[b].tpid
      /\ ctm'[b].tci = ctm[b].tci /\ ctm'[b].cmd = ctm[b].cmd /\ ctm'[b].script = Script
  BY <1>2, <1>4, ScriptValue DEF Buffers, IInv, Types
<1>6. UNCHANGED <<arrived, free, work, ready, departed>>
  BY DEF WriteScript
<1>7. Work(thread[t])'
  BY <1>1, <1>2, <1>3, <1>5, <1>6 DEF Work, Holds, Done, Framed
<1> QED
  BY <1>1, <1>3, <1>5, <1>6, <1>7, OwnStep

-----------------------------------------------------------------------------
\* The steps that pass a buffer on.

LEMMA ReceiveKeeps ==
  ASSUME IInv, NEW t \in Threads, Receive(t)
  PROVE  IInv'
<1> DEFINE b == Head(work)
           s == ctm[b].seq
           q == [pc |-> "header", pnum |-> b, seq |-> s, len |-> arrived[s].len,
                 port |-> arrived[s].port, vlan |-> 0, tci |-> 0]
<1> USE DEF IInv
<1>1. /\ t \notin Held /\ work # <<>> /\ thread' = [thread EXCEPT ![t] = q]
      /\ work' = Tail(work) /\ UNCHANGED <<arrived, ctm, free, ready, departed>>
  BY DEF Receive, Held
<1>2. /\ Len(work) \in Nat \ {0} /\ b = work[1] /\ 1 \in DOMAIN work /\ b \in Bufs
      /\ work' \in Seq(Bufs) /\ DOMAIN work' = 1 .. Len(work) - 1
      /\ \A i \in DOMAIN work' : work'[i] = work[i + 1] /\ i + 1 \in DOMAIN work /\ i + 1 # 1
  BY <1>1 DEF Types
<1>3. Raw(b, s)
  BY <1>2 DEF WorkInv
<1>4. s \in DOMAIN arrived /\ arrived[s] \in Frames /\ s \in Nat
  BY <1>3 DEF Raw, Holds, Types
<1>5. arrived[s].len \in Nat /\ arrived[s].port \in Nat /\ 0 \in Tci
  BY <1>4, FramesAssumption DEF Tci
<1>6. /\ q \in Regs /\ q.pc = "header" /\ q.pnum = b /\ q.seq = s
      /\ q.len = arrived[s].len /\ q.port = arrived[s].port
  BY <1>2, <1>4, <1>5 DEF Regs, Labels
<1> HIDE DEF q
<1>7. /\ thread' \in [Threads -> {Idle} \cup Regs] /\ thread'[t] = q
      /\ \A u \in Threads \ {t} : thread'[u] = thread[u]
  BY <1>1, <1>6 DEF Types
<1>8. Held' = Held \cup {t}
  BY <1>6, <1>7 DEF Held
<1>9. Types'
  BY <1>1, <1>2, <1>7 DEF Types
<1>10. WorkOnce'
  BY <1>2 DEF WorkOnce
<1>11. /\ b \notin free \cup DOMAIN ready
       /\ \A u \in Held : thread[u].pnum # b
       /\ \A i \in DOMAIN work' : work'[i] # b
  BY <1>2 DEF OneOwner, WorkOnce
<1>12. \A u \in Held : u # t /\ thread'[u] = thread[u]
  BY <1>1, <1>7 DEF Held
<1>13. OneOwner'
  BY <1>1, <1>2, <1>6, <1>7, <1>8, <1>11, <1>12 DEF OneOwner
<1>14. WorkInv'
  BY <1>1, <1>2 DEF WorkInv, Raw, Holds
<1>15. ThreadInv'
  <2>1. Work(thread[t])'
    BY <1>1, <1>3, <1>6, <1>7 DEF Work, Raw, Holds
  <2>2. \A u \in Held : Work(thread[u])'
    BY <1>1, <1>12 DEF ThreadInv, Work, Holds, Raw, Done, Framed
  <2> QED
    BY <1>8, <2>1, <2>2 DEF ThreadInv
<1>16. ReadyInv' /\ DepartedInv'
  BY <1>1 DEF ReadyInv, DepartedInv, Framed, Done, Holds, Command, Departure
<1> QED
  BY <1>9, <1>10, <1>13, <1>14, <1>15, <1>16

LEMMA SendKeeps ==
  ASSUME IInv, NEW t \in Threads, Send(t)
  PROVE  IInv'
<1> DEFINE b == thread[t].pnum
<1> USE DEF IInv
<1>1. /\ t \in Held /\ thread[t].pc = "send" /\ thread' = [thread EXCEPT ![t] = Idle]
      /\ UNCHANGED <<arrived, ctm, free, work, departed>>
      /\ ready' = [c \in DOMAIN ready \cup {b} |->
                     IF c = b THEN PacketReady(thread[t]) ELSE ready[c]]
  BY DEF Send, Held, HandOver
<1>2. thread[t] \in Regs /\ Work(thread[t]) /\ b \in Bufs
  BY <1>1, Own
<1>3. /\ thread' \in [Threads -> {Idle} \cup Regs] /\ thread'[t] = Idle
      /\ \A u \in Threads \ {t} : thread'[u] = thread[u]
  BY <1>1 DEF Types
<1>4. Held' = Held \ {t}
  BY <1>3, HeldRegs DEF Held
<1>5. /\ DOMAIN ready' = DOMAIN ready \cup {b}
      /\ ready'[b] = PacketReady(thread[t])
      /\ \A c \in DOMAIN ready \ {b} : ready'[c] = ready[c]
  BY <1>1
<1>6. Types'
  BY <1>1, <1>2, <1>3, <1>5 DEF Types
<1>7. \A u \in Held \ {t} : u \in Threads /\ thread'[u] = thread[u] /\ thread[u].pnum # b
  BY <1>1, <1>3 DEF Held, OneOwner
<1>8. OneOwner'
  BY <1>1, <1>4, <1>5, <1>7 DEF OneOwner
<1>9. WorkOnce' /\ WorkInv' /\ DepartedInv'
  BY <1>1 DEF WorkOnce, WorkInv, Raw, Holds, DepartedInv, Departure
<1>10. ThreadInv'
  BY <1>1, <1>4, <1>7 DEF ThreadInv, Work, Holds, Raw, Done, Framed
<1>11. Framed(b, ctm[b].seq) /\ PacketReady(thread[t]) = Command(ctm[b].seq)
  BY <1>1, <1>2 DEF Work, Framed, Done, Holds, PacketReady, Command
<1>12. ReadyInv'
  BY <1>1, <1>5, <1>11 DEF ReadyInv, Framed, Done, Holds, Command
<1> QED
  BY <1>6, <1>8, <1>9, <1>10, <1>12

LEMMA ArriveKeeps ==
  ASSUME IInv, NEW f \in Frames, NEW b \in Bufs, Arrive(f, b)
  PROVE  IInv'
<1> DEFINE s == Len(arrived) + 1
           c == [ctm[b] EXCEPT !.seq = s, !.tci = f.tci, !.tpid = f.tpid, !.cmd = FALSE]
<1> USE DEF IInv
<1>1. /\ b \in free /\ Len(arrived) < MaxPackets
      /\ arrived' = Append(arrived, f) /\ ctm' = [ctm EXCEPT ![b] = c]
      /\ free' = free \ {b} /\ work' = Append(work, b)
      /\ UNCHANGED <<thread, ready, departed>>
  BY DEF Arrive
<1>2. /\ arrived' \in Seq(Frames) /\ Len(arrived) \in Nat /\ Len(arrived') = s
      /\ s \in DOMAIN arrived' /\ arrived'[s] = f
      /\ \A i \in DOMAIN arrived : i \in DOMAIN arrived' /\ arrived'[i] = arrived[i]
  BY <1>1 DEF Types
<1>3. /\ work' \in Seq(Bufs) /\ DOMAIN work' = DOMAIN work \cup {Len(work) + 1}
      /\ work'[Len(work) + 1] = b
      /\ \A i \in DOMAIN work : work'[i] = work[i]
  BY <1>1 DEF Types
<1>4. f.tci \in Tci
  BY FramesAssumption
<1>5. /\ c \in Buffers /\ c.seq = s /\ c.tci = f.tci /\ c.tpid = f.tpid
  <2>1. ctm[b] \in Buffers
    BY DEF Types
  <2>2. s \in Nat
    BY <1>2
  <2>3. f.tpid \in {g.tpid : g \in Frames} \cup {""}
    OBVIOUS
  <2> QED
    BY <1>4, <2>1, <2>2, <2>3 DEF Buffers
<1> HIDE DEF c
<1>6. /\ ctm' \in [Bufs -> Buffers] /\ ctm'[b] = c
      /\ \A d \in Bufs \ {b} : ctm'[d] = ctm[d]
  BY <1>1, <1>5 DEF Types
<1>7. Types'
  <2>1. \A d \in Bufs : ctm'[d].seq <= Len(arrived')
    <3>1. \A d \in Bufs : ctm[d].seq \in Nat /\ ctm[d].seq <= Len(arrived)
      BY DEF Types, Buffers
    <3> QED
      BY <1>2, <1>5, <1>6, <3>1
  <2>2. Len(arrived') <= MaxPackets
    BY <1>1, <1>2, FramesAssumption
  <2> QED
    BY <1>1, <1>2, <1>3, <1>6, <2>1, <2>2 DEF Types
<1>8. /\ \A u \in Held : thread[u] \in Regs /\ thread[u].pnum \in Bufs \ {b}
      /\ \A i \in DOMAIN work : work[i] \in Bufs \ {b}
      /\ \A d \in DOMAIN ready : d \in Bufs \ {b}
  <2>1. \A u \in Held : thread[u] \in Regs
    BY HeldRegs DEF Held
  <2> QED
    BY <1>1, <2>1 DEF OneOwner, Types, Regs
<1>9. WorkOnce'
  BY <1>3, <1>8 DEF WorkOnce
<1>10. Held' = Held
  BY <1>1 DEF Held
<1>11. OneOwner'
  BY <1>1, <1>3, <1>6, <1>8, <1>10 DEF OneOwner
<1>12. WorkInv'
  <2>1. /\ ctm'[b].seq \in DOMAIN arrived' /\ ctm'[b].tci = arrived'[ctm'[b].seq].tci
        /\ ctm'[b].tpid = arrived'[ctm'[b].seq].tpid
    BY <1>2, <1>5, <1>6
  <2>2. \A i \in DOMAIN work : Raw(work[i], ctm[work[i]].seq)'
    BY <1>2, <1>3, <1>6, <1>8 DEF WorkInv, Raw, Holds
  <2> QED
    BY <1>3, <1>5, <1>6, <2>1, <2>2 DEF WorkInv, Raw, Holds
<1>13. ThreadInv'
  <2> SUFFICES ASSUME NEW u \in Held
               PROVE  Work(thread[u])'
    BY <1>10 DEF ThreadInv
  <2>1. /\ ctm'[thread[u].pnum] = ctm[thread[u].pnum]
        /\ thread[u].seq \in DOMAIN arrived
        /\ thread[u].seq \in DOMAIN arrived' /\ arrived'[thread[u].seq] = arrived[thread[u].seq]
    BY <1>2, <1>6, <1>8 DEF ThreadInv, Work, Holds
  <2> QED
    BY <1>1, <2>1 DEF ThreadInv, Work, Holds, Raw, Done, Framed
<1>14. ReadyInv'
  BY <1>1, <1>2, <1>6, <1>8 DEF ReadyInv, Framed, Done, Holds, Command
<1>15. DepartedInv'
  <2>1. \A i \in DOMAIN departed : i \in DOMAIN arrived
    BY DEF DepartedInv, Types
  <2> QED
    BY <1>1, <1>2, <2>1 DEF DepartedInv, Departure, Types
<1> QED
  BY <1>7, <1>9, <1>11, <1>12, <1>13, <1>14, <1>15

LEMMA DepartKeeps ==
  ASSUME IInv, NEW b \in Bufs, Depart(b)
  PROVE  IInv'
<1> DEFINE s == Len(departed) + 1
           start == IF ctm[b].script.at = ScriptAt(ready[b].ms_off)
                      THEN PacketStart(ready[b].ms_off, ctm[b].script.delete) ELSE 0
           out == [seq |-> ctm[b].seq, txq |-> ready[b].txq, tci |-> ctm[b].tci,
                   cmd |-> ctm[b].cmd, start |-> start, end |-> ready[b].end]
<1> USE DEF IInv
<1>1. /\ b \in DOMAIN ready /\ ready[b].seq = s /\ departed' = Append(departed, out)
      /\ ready' = [c \in DOMAIN ready \ {b} |-> ready[c]] /\ free' = free \cup {b}
      /\ UNCHANGED <<arrived, ctm, work, thread>>
  BY DEF Depart
<1>2. Framed(b, ctm[b].seq) /\ ready[b] = Command(ctm[b].seq)
  BY <1>1 DEF ReadyInv
<1>3. /\ ctm[b].seq = s /\ s \in DOMAIN arrived /\ arrived[s] \in Frames
      /\ ready[b].txq = TxQueue(arrived[s].port) /\ ready[b].ms_off = MsOff(ScriptInfo)
      /\ ready[b].end = arrived[s].len - MAC_PREPEND_BYTES + ScriptInfo.len_adj
  BY <1>1, <1>2 DEF Framed, Done, Holds, Command, Types
<1>4. start = PktOff - MAC_PREPEND_BYTES
  BY <1>2, <1>3, ScriptFacts, ScriptValue DEF Framed, MAC_PREPEND_BYTES
<1>5. out = Departure(s)
  BY <1>2, <1>3, <1>4 DEF Framed, Done, Departure
<1>6. Departure(s) \in Sent
  <2>1. arrived[s].len \in Nat /\ Rewritten(arrived[s]) \in Tci
    BY <1>3, FramesAssumption, RewrittenTypes
  <2>2. TxQueue(arrived[s].port) \in Nat /\ s \in Nat
    BY <1>3 DEF TxQueue, Types
  <2>3. /\ PktOff - MAC_PREPEND_BYTES \in Nat
        /\ arrived[s].len - MAC_PREPEND_BYTES + ScriptInfo.len_adj \in Int
    BY <2>1, ScriptFacts DEF MAC_PREPEND_BYTES
  <2> QED
    BY <2>1, <2>2, <2>3 DEF Departure, Sent
<1> HIDE DEF out
<1>7. /\ departed' \in Seq(Sent) /\ Len(departed') = s /\ departed'[s] = out
      /\ \A i \in DOMAIN departed' : i # s => i \in DOMAIN departed /\ departed'[i] = departed[i]
  BY <1>1, <1>5, <1>6 DEF Types
<1>8. DOMAIN ready' = DOMAIN ready \ {b} /\ \A c \in DOMAIN ready' : ready'[c] = ready[c]
  BY <1>1
<1>9. Types'
  BY <1>1, <1>7, <1>8 DEF Types
<1>10. Held' = Held
  BY <1>1 DEF Held
<1>11. OneOwner'
  BY <1>1, <1>8, <1>10 DEF OneOwner
<1>12. WorkOnce' /\ WorkInv'
  BY <1>1 DEF WorkOnce, WorkInv, Raw, Holds
<1>13. ThreadInv'
  BY <1>1, <1>10 DEF ThreadInv, Work, Holds, Raw, Done, Framed
<1>14. ReadyInv'
  BY <1>1, <1>8 DEF ReadyInv, Framed, Done, Holds, Command
<1>15. DepartedInv'
  <2>1. s <= Len(arrived)
    BY <1>3 DEF Types
  <2>2. \A i \in DOMAIN departed' : departed'[i] = Departure(i)
    BY <1>5, <1>7 DEF DepartedInv
  <2> QED
    BY <1>1, <1>7, <2>1, <2>2 DEF DepartedInv, Departure
<1> QED
  BY <1>9, <1>11, <1>12, <1>13, <1>14, <1>15

-----------------------------------------------------------------------------
\* The theorems.

LEMMA InitInv == Init => IInv
<1> SUFFICES ASSUME Init
             PROVE  IInv
  OBVIOUS
<1>1. /\ arrived = <<>> /\ free = Bufs /\ work = <<>> /\ departed = <<>>
      /\ thread = [t \in Threads |-> Idle] /\ DOMAIN ready = {}
      /\ ctm = [b \in Bufs |-> [seq |-> 0, tci |-> 0, tpid |-> "", cmd |-> FALSE,
                                 script |-> NoScript]]
  BY DEF Init
<1>2. Held = {}
  BY <1>1 DEF Held, Idle
<1>3. Types
  <2>1. \A b \in Bufs : ctm[b] \in Buffers /\ ctm[b].seq = 0
    <3>1. 0 \in Tci /\ NoScript \in [at : Nat, delete : Nat]
      BY DEF Tci, NoScript
    <3> QED
      BY <1>1, <3>1 DEF Buffers
  <2>2. ctm \in [Bufs -> Buffers]
    BY <1>1, <2>1
  <2>3. /\ arrived \in Seq(Frames) /\ Len(arrived) = 0 /\ work \in Seq(Bufs)
        /\ departed \in Seq(Sent)
    BY <1>1, EmptySeq
  <2>4. thread \in [Threads -> {Idle} \cup Regs]
    BY <1>1
  <2>5. /\ Len(arrived) <= MaxPackets
        /\ \A b \in Bufs : ctm[b].seq <= Len(arrived)
    BY <2>1, <2>3, FramesAssumption
  <2> QED
    BY <1>1, <2>2, <2>3, <2>4, <2>5 DEF Types
<1>4. DOMAIN work = {} /\ DOMAIN departed = {} /\ Len(departed) = 0 /\ Len(arrived) = 0
  <2>1. Len(<<>>) = 0 /\ DOMAIN <<>> = {}
    OBVIOUS
  <2> QED
    BY <1>1, <2>1
<1>5. WorkOnce /\ WorkInv /\ ThreadInv /\ ReadyInv
  BY <1>1, <1>2, <1>4 DEF WorkOnce, WorkInv, ThreadInv, ReadyInv
<1>6. OneOwner
  BY <1>1, <1>2, <1>4 DEF OneOwner
<1>7. DepartedInv
  BY <1>4 DEF DepartedInv
<1> QED
  BY <1>3, <1>5, <1>6, <1>7 DEF IInv

LEMMA StepInv == IInv /\ [Next]_vars => IInv'
<1> SUFFICES ASSUME IInv, [Next]_vars
             PROVE  IInv'
  OBVIOUS
<1>1. CASE UNCHANGED vars
  BY <1>1 DEF vars, IInv, Types, WorkOnce, OneOwner, Held, WorkInv, ThreadInv, Work, Holds,
              Raw, Done, Framed, ReadyInv, Command, DepartedInv, Departure
<1>2. ASSUME NEW f \in Frames, NEW b \in Bufs, Arrive(f, b)
      PROVE  IInv'
  BY <1>2, ArriveKeeps
<1>3. ASSUME NEW b \in Bufs, Depart(b)
      PROVE  IInv'
  BY <1>3, DepartKeeps
<1>4. ASSUME NEW t \in Threads, Step(t)
      PROVE  IInv'
  BY <1>4, ReceiveKeeps, ReadHeaderKeeps, LoadTciKeeps, StoreTciKeeps, WriteCommandKeeps,
     WriteScriptKeeps, SendKeeps DEF Step
<1> QED
  BY <1>1, <1>2, <1>3, <1>4 DEF Next

LEMMA AlwaysInv == Spec => []IInv
BY InitInv, StepInv, PTL DEF Spec

(* Registers, buffers and queues hold what they may hold. *)
THEOREM WireTypeCorrect == Spec => []TypeOK
<1>1. IInv => TypeOK
  <2> SUFFICES ASSUME IInv
               PROVE  TypeOK
    OBVIOUS
  <2> USE DEF IInv
  <2>1. \A t \in Threads : thread[t].pc \in Labels
    BY DEF Types, Regs, Idle, Labels
  <2>2. \A b \in Bufs : ctm[b].seq \in 0 .. Len(arrived) /\ ctm[b].tci \in Tci
    <3>1. \A b \in Bufs : ctm[b] \in Buffers /\ ctm[b].seq <= Len(arrived)
      BY DEF Types
    <3>2. \A b \in Bufs : ctm[b].seq \in Nat /\ ctm[b].tci \in Tci
      BY <3>1 DEF Buffers
    <3> QED
      BY <3>1, <3>2 DEF Types
  <2>3. \A b \in DOMAIN ready : ready[b].seq \in DOMAIN arrived
    BY DEF ReadyInv, Framed, Done, Holds, Command
  <2> QED
    BY <2>1, <2>2, <2>3 DEF Types, DepartedInv, TypeOK
<1> QED
  BY <1>1, AlwaysInv, PTL

(* No two hands hold a buffer at a time: the NBI does not fill, nor another
   thread write, nor the traffic manager send, a packet a thread works on. *)
THEOREM WireOneOwner == Spec => []OneOwner
<1>1. IInv => OneOwner
  BY DEF IInv
<1> QED
  BY <1>1, AlwaysInv, PTL

(* Setting a priority of 0 or 2 leaves the other 13 bits of the tag alone. *)
LEMMA PriorityFacts ==
  ASSUME NEW tci \in Tci, NEW p \in {0, 2}
  PROVE  /\ WithPriority(tci, p) % 8192 = tci % 8192
         /\ Priority(WithPriority(tci, p)) = p
<1> DEFINE x == tci % 8192
<1>1. x \in Nat /\ x <= 8191
  BY DEF Tci
<1> HIDE DEF x
<1>2. /\ x % 8192 = x /\ x \div 8192 = 0
      /\ (x + 16384) % 8192 = x /\ (x + 16384) \div 8192 = 2
  BY <1>1
<1>3. WithPriority(tci, p) = x \/ WithPriority(tci, p) = x + 16384
  BY <1>1 DEF WithPriority, x
<1>4. p = 0 => WithPriority(tci, p) = x
  BY <1>1 DEF WithPriority, x
<1>5. p = 2 => WithPriority(tci, p) = x + 16384
  BY <1>1 DEF WithPriority, x
<1> QED
  BY <1>2, <1>4, <1>5 DEF Priority, x

(* What the rewriting makes of a tag is what VLANs 2 and 4 want. *)
LEMMA RewrittenFacts ==
  ASSUME NEW f \in Frames
  PROVE  /\ Rewritten(f) % 8192 = f.tci % 8192
         /\ Priority(Rewritten(f)) = WantedPriority(f)
<1>1. f.tci \in Tci
  BY FramesAssumption
<1>2. CASE IsTagged(f) /\ Vlan(f.tci) = 2
  <2>1. Rewritten(f) = WithPriority(f.tci, 0)
    BY <1>2 DEF Rewritten, AfterHeader, NewTci
  <2> QED
    BY <1>1, <1>2, <2>1, PriorityFacts DEF WantedPriority
<1>3. CASE IsTagged(f) /\ Vlan(f.tci) = 4
  <2>1. Rewritten(f) = WithPriority(f.tci, 2)
    BY <1>3 DEF Rewritten, AfterHeader, NewTci
  <2> QED
    BY <1>1, <1>3, <2>1, PriorityFacts DEF WantedPriority
<1>4. CASE ~IsTagged(f) \/ Vlan(f.tci) \notin {2, 4}
  <2>1. Rewritten(f) = f.tci
    BY <1>4 DEF Rewritten, AfterHeader
  <2> QED
    BY <1>4, <2>1 DEF WantedPriority
<1> QED
  BY <1>2, <1>3, <1>4

(* Whatever the threads do in which order, a frame leaves whole, in the place
   and to the queue it should, and with the priority its VLAN is to have. *)
THEOREM WireSentAsReceived == Spec => []SentAsReceived
<1>1. IInv => SentAsReceived
  <2> SUFFICES ASSUME IInv, NEW s \in DOMAIN departed
               PROVE  /\ departed[s].seq = s /\ departed[s].cmd
                      /\ departed[s].start = PKT_NBI_OFFSET + 2 * MAC_PREPEND_BYTES - 4
                      /\ departed[s].end = PKT_NBI_OFFSET + arrived[s].len
                      /\ departed[s].txq = PORT_TO_CHANNEL(OtherPort(arrived[s].port))
                      /\ departed[s].tci % 8192 = arrived[s].tci % 8192
                      /\ Priority(departed[s].tci) = WantedPriority(arrived[s])
    BY DEF SentAsReceived, PKT_NBI_OFFSET, MAC_PREPEND_BYTES
  <2>1. departed[s] = Departure(s) /\ arrived[s] \in Frames
    BY DEF IInv, DepartedInv, Types
  <2>2. arrived[s].len \in Nat /\ arrived[s].port \in Nat
    BY <2>1, FramesAssumption
  <2>3. TxQueue(arrived[s].port) = PORT_TO_CHANNEL(OtherPort(arrived[s].port))
    BY <2>2 DEF TxQueue, PORT_TO_CHANNEL, OtherPort
  <2>4. /\ departed[s].seq = s /\ departed[s].cmd
        /\ departed[s].txq = TxQueue(arrived[s].port)
        /\ departed[s].tci = Rewritten(arrived[s])
        /\ departed[s].start = PktOff - MAC_PREPEND_BYTES
        /\ departed[s].end = arrived[s].len - MAC_PREPEND_BYTES + ScriptInfo.len_adj
    BY <2>1 DEF Departure
  <2>5. /\ departed[s].start = PKT_NBI_OFFSET + 2 * MAC_PREPEND_BYTES - 4
        /\ departed[s].end = PKT_NBI_OFFSET + arrived[s].len
    BY <2>2, <2>4, ScriptFacts DEF PKT_NBI_OFFSET, MAC_PREPEND_BYTES
  <2>6. /\ departed[s].tci % 8192 = arrived[s].tci % 8192
        /\ Priority(departed[s].tci) = WantedPriority(arrived[s])
    BY <2>1, <2>4, RewrittenFacts
  <2> QED
    BY <2>3, <2>4, <2>5, <2>6
<1> QED
  BY <1>1, AlwaysInv, PTL
=============================================================================
