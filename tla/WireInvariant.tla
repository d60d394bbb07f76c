---------------------------- MODULE WireInvariant ----------------------------
(* The inductive invariant of the forwarding application: what is in a buffer
   at each point of a thread's loop, and in the traffic manager's hands. *)
EXTENDS Wire

Regs == [pc : Labels \ {"receive"}, pnum : Bufs, seq : Nat, len : Nat, port : Nat,
         vlan : Nat, tci : Tci]

Buffers == [seq : Nat, tci : Tci, tpid : {f.tpid : f \in Frames} \cup {""},
            cmd : BOOLEAN, script : [at : Nat, delete : Nat]]

Sent == [seq : Nat, txq : Nat, tci : Tci, cmd : BOOLEAN, start : Nat, end : Int]

Types ==
  /\ arrived \in Seq(Frames) /\ Len(arrived) <= MaxPackets
  /\ ctm \in [Bufs -> Buffers] /\ \A b \in Bufs : ctm[b].seq <= Len(arrived)
  /\ free \subseteq Bufs /\ work \in Seq(Bufs)
  /\ thread \in [Threads -> {Idle} \cup Regs]
  /\ DOMAIN ready \subseteq Bufs /\ departed \in Seq(Sent)

(* A buffer waits for a thread once. *)
WorkOnce == \A i, j \in DOMAIN work : i # j => work[i] # work[j]

Script == [at |-> ScriptInfo.at, delete |-> ScriptInfo.delete]

(* The tag a frame is to leave with. *)
Rewritten(f) ==
  IF AfterHeader(f) = "load" THEN NewTci(Vlan(f.tci), f.tci) ELSE f.tci

(* Buffer b holds frame s as it arrived, or with its tag rewritten. *)
Holds(b, s) == ctm[b].seq = s /\ s \in DOMAIN arrived /\ ctm[b].tpid = arrived[s].tpid
Raw(b, s)   == Holds(b, s) /\ ctm[b].tci = arrived[s].tci
Done(b, s)  == Holds(b, s) /\ ctm[b].tci = Rewritten(arrived[s])

(* Command and script are in place. *)
Framed(b, s) == Done(b, s) /\ ctm[b].cmd /\ ctm[b].script = Script

WorkInv == \A i \in DOMAIN work : Raw(work[i], ctm[work[i]].seq)

(* What a thread knows of its packet, and what it has done to it. *)
Work(r) ==
  LET f == arrived[r.seq]
  IN  /\ Holds(r.pnum, r.seq) /\ r.len = f.len /\ r.port = f.port
      /\ r.pc \in {"header", "load", "store"} => Raw(r.pnum, r.seq)
      /\ r.pc \in {"load", "store"} => r.vlan = Vlan(f.tci) /\ AfterHeader(f) = "load"
      /\ r.pc = "store" => r.tci = f.tci
      /\ r.pc \in {"command", "script", "send"} => Done(r.pnum, r.seq)
      /\ r.pc \in {"script", "send"} => ctm[r.pnum].cmd
      /\ r.pc = "send" => Framed(r.pnum, r.seq)

ThreadInv == \A t \in Held : Work(thread[t])

(* The send command for frame s, and how the frame leaves. *)
Command(s) == [seq |-> s, txq |-> TxQueue(arrived[s].port), ms_off |-> MsOff(ScriptInfo),
               end |-> arrived[s].len - MAC_PREPEND_BYTES + ScriptInfo.len_adj]

Departure(s) == [seq |-> s, txq |-> TxQueue(arrived[s].port),
                 tci |-> Rewritten(arrived[s]), cmd |-> TRUE,
                 start |-> PktOff - MAC_PREPEND_BYTES,
                 end |-> arrived[s].len - MAC_PREPEND_BYTES + ScriptInfo.len_adj]

ReadyInv == \A b \in DOMAIN ready :
  Framed(b, ctm[b].seq) /\ ready[b] = Command(ctm[b].seq)

DepartedInv ==
  /\ Len(departed) <= Len(arrived)
  /\ \A s \in DOMAIN departed : departed[s] = Departure(s)

IInv == Types /\ WorkOnce /\ OneOwner /\ WorkInv /\ ThreadInv /\ ReadyInv /\ DepartedInv
=============================================================================
