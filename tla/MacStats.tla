------------------------------ MODULE MacStats ------------------------------
(***************************************************************************)
(* The statistics of the MAC (microc/lib/nfp/macstats.h): counters that    *)
(* are cleared when they are read, which threads read a few words at a     *)
(* time and add to counters of 64 bits in memory.  A word is of 32 bits; a *)
(* counter of octets has 40 bits and takes two words, and its upper ones   *)
(* are put in their place after the last segment.  A channel is read and   *)
(* accumulated as a port is, with more counters of octets.                 *)
(*                                                                         *)
(* The program apps/lab5/mac_stats.c does the same in a loop, with words   *)
(* of local scratch memory (CLS) instead of counters of 64 bits.           *)
(***************************************************************************)
EXTENDS Integers, FiniteSets, FiniteSetsExt, Functions

CONSTANTS
  Callers,      \* threads that may call the functions
  Word, High,    \* 2^32, and 2^8
  NWords,        \* words of a port's statistics, 64; a multiple of SegWords
  SegWords,      \* words that are read at once, 8
  Octets,        \* first words of the counters of octets, 0 and 40
  PortMasks,     \* masks of ports the callers use
  NPorts,        \* ports of a core, even, 12
  Growth,        \* bound: what a counter of octets may grow by at once
  MaxOctets,     \* bound: what a counter of octets may ever count
  MaxFrames,     \* bound: and the other ones
  MaxCalls       \* bound: calls

VARIABLES
  mac, drops,       \* counters of the MAC since they were read last
  counted, dropped, \* everything they have counted
  accum,            \* struct macstats_port_accum, or its channel
  loaded,           \* all that macstats_port_read has handed out
  ports_drop,       \* struct macstats_head_drop_accum
  cls,              \* the words of the program mac_stats.c
  mac_pc, at,       \* per thread: what is next, and for which words or port
  stats,            \* per thread: transfer registers
  mask,             \* per thread: ports_mask
  calls, overlap    \* calls so far, and whether two were ever under way at once

port == <<mac, counted, accum, loaded, cls>>
head == <<drops, dropped, ports_drop>>
mac_vars == <<port, head, mac_pc, at, stats, mask, calls, overlap>>

Words  == 0 .. NWords - 1
Ports  == 0 .. NPorts - 1
Long   == Word * Word      \* 2^64
Counters == {w \in Words : w - 1 \notin Octets}

(* Counters of octets begin at an even word, a segment and a core have an  *)
(* even number of words and of ports; no counter of 64 bits overflows.     *)
ASSUME StatsAssumption ==
  /\ IsFiniteSet(Callers) /\ Callers # {}
  /\ Word \in Nat \ {0} /\ High \in Nat
  /\ SegWords \in Nat \ {0} /\ SegWords % 2 = 0
  /\ NWords \in Nat /\ NWords % 2 = 0
  /\ Octets \subseteq Words /\ 0 \in Octets /\ \A o \in Octets : o % 2 = 0
  /\ NPorts \in Nat \ {0} /\ NPorts % 2 = 0 /\ PortMasks \subseteq SUBSET Ports
  /\ Growth \subseteq Nat /\ MaxCalls \in Nat
  /\ MaxOctets \in 0 .. Long - 1 /\ MaxFrames \in 0 .. Long - 1

Segment(w) == w .. w + SegWords - 1
Zero == [w \in Words |-> 0]

(* What the MAC gives for a word.                                          *)
MacWord(w) == IF w \in Octets THEN mac[w] % Word
              ELSE IF w - 1 \in Octets THEN mac[w - 1] \div Word ELSE mac[w]

StatsInit ==
  /\ mac = [w \in Counters |-> 0] /\ counted = mac
  /\ drops = [p \in Ports |-> 0] /\ dropped = drops /\ ports_drop = drops
  /\ accum = Zero /\ loaded = Zero
  /\ cls = [w \in Words |-> Word - 1]    \* what was there before
  /\ mac_pc = [t \in Callers |-> "idle"] /\ at = [t \in Callers |-> 0]
  /\ stats = [t \in Callers |-> Zero] /\ mask = [t \in Callers |-> {}]
  /\ calls = 0 /\ overlap = FALSE

Goto(t, label) == mac_pc' = [mac_pc EXCEPT ![t] = label]

-----------------------------------------------------------------------------
(* The MAC counts; software reads often enough for no counter to overflow. *)
CountFrame(w, n) ==
  /\ counted[w] + n <= (IF w \in Octets THEN MaxOctets ELSE MaxFrames)
  /\ mac[w] + n < (IF w \in Octets THEN Word * High ELSE Word)
  /\ mac' = [mac EXCEPT ![w] = @ + n] /\ counted' = [counted EXCEPT ![w] = @ + n]
  /\ UNCHANGED <<head, accum, loaded, cls, mac_pc, at, stats, mask, calls, overlap>>

CountDrop(p) ==
  /\ dropped[p] = 0
  /\ drops' = [drops EXCEPT ![p] = 1] /\ dropped' = [dropped EXCEPT ![p] = 1]
  /\ UNCHANGED <<port, ports_drop, mac_pc, at, stats, mask, calls, overlap>>

(* macstats_port_accum, macstats_port_read, macstats_head_drop_accum are   *)
(* called; with a MAC, port or channel that does not exist they return -1  *)
(* and do nothing.                                                         *)
CallStats(t, label, ports) ==
  /\ mac_pc[t] = "idle" /\ calls < MaxCalls
  /\ Goto(t, label) /\ calls' = calls + 1
  /\ at' = [at EXCEPT ![t] = 0] /\ mask' = [mask EXCEPT ![t] = ports]
  /\ overlap' = (overlap \/ \E u \in Callers : mac_pc[u] # "idle")
  /\ UNCHANGED <<port, head, stats>>

-----------------------------------------------------------------------------
AfterRead(label, w) ==
  IF label = "read" THEN "add" ELSE IF label = "read_only" THEN "load"
  ELSE IF w = 0 THEN "cls_add64" ELSE "cls_add"

\* nbi[read]: a segment is read and cleared.
ReadSegment(t) ==
  /\ mac_pc[t] \in {"read", "read_only", "program"}
  /\ LET cleared == Segment(at[t]) \cap Counters
     IN  mac' = [w \in Counters |-> IF w \in cleared THEN 0 ELSE mac[w]]
  /\ stats' = [stats EXCEPT ![t] =
                 [w \in Words |-> IF w \in Segment(at[t]) THEN MacWord(w) ELSE 0]]
  /\ Goto(t, AfterRead(mac_pc[t], at[t]))
  /\ UNCHANGED <<head, counted, accum, loaded, cls, at, mask, calls, overlap>>

\* Faulty variant: the second half is added where the first one was.
HalfSame(w, label) == w .. w + (SegWords \div 2) - 1

(* The words that one mem[add64] adds.                                     *)
Half(w, label) ==
  IF label = "add" THEN w .. w + (SegWords \div 2) - 1
  ELSE w + (SegWords \div 2) .. w + SegWords - 1

NextSegment(t, label, end) ==
  IF at[t] + SegWords < NWords
  THEN Goto(t, label) /\ at' = [at EXCEPT ![t] = @ + SegWords]
  ELSE Goto(t, end) /\ at' = [at EXCEPT ![t] = IF end = "fix" THEN Min(Octets) ELSE 0]

AddHalf(t) ==
  /\ mac_pc[t] \in {"add", "add2"}
  /\ LET added == Half(at[t], mac_pc[t])
     IN  /\ accum' = [w \in Words |-> IF w \in added THEN (accum[w] + stats[t][w]) % Long
                                      ELSE accum[w]]
         /\ stats' = [stats EXCEPT ![t] = [w \in Words |-> IF w \in added THEN 0 ELSE @[w]]]
  /\ IF mac_pc[t] = "add" THEN Goto(t, "add2") /\ UNCHANGED at ELSE NextSegment(t, "read", "fix")
  /\ UNCHANGED <<head, mac, counted, loaded, cls, mask, calls, overlap>>

(* mac_stats_load exchanges the words of each pair on their way to memory. *)
Beside(w) == IF w % 2 = 0 THEN w + 1 ELSE w - 1

LoadSegment(t) ==
  /\ mac_pc[t] = "load"
  /\ loaded' = [w \in Words |-> loaded[w] + stats[t][Beside(w)]]
  /\ stats' = [stats EXCEPT ![t] = Zero]
  /\ NextSegment(t, "read_only", "idle")
  /\ UNCHANGED <<head, mac, counted, accum, cls, mask, calls, overlap>>

(* Commands that add to memory keep the lower word of 64 bits first, and a *)
(* program has the upper one first: it reads and writes them exchanged.    *)
AsRead(v) == (v % Word) * Word + (v \div Word)

\* "Fix 40 bit stats accumulation": both counters are read ...
FixRead(t) ==
  /\ mac_pc[t] = "fix"
  /\ stats' = [stats EXCEPT ![t] = [w \in Words |->
                 IF w \in {at[t], at[t] + 1} THEN AsRead(accum[w]) ELSE 0]]
  /\ Goto(t, "fix_write")
  /\ UNCHANGED <<port, head, at, mask, calls, overlap>>

\* Faulty variant: the upper word is added as it is.
FixedUnshifted(low, high) == (low + high) % Long

Fixed(low, high) == (low + high * Word) % Long

\* ... their sum is written ...
FixWrite(t) ==
  /\ mac_pc[t] = "fix_write"
  /\ accum' = [accum EXCEPT ![at[t]] = AsRead(Fixed(stats[t][at[t]], stats[t][at[t] + 1]))]
  /\ stats' = [stats EXCEPT ![t] = Zero]
  /\ Goto(t, "fix_clear")
  /\ UNCHANGED <<head, mac, counted, loaded, cls, at, mask, calls, overlap>>

\* ... and the second one cleared.
FixClear(t) ==
  /\ mac_pc[t] = "fix_clear"
  /\ accum' = [accum EXCEPT ![at[t] + 1] = 0]
  /\ LET rest == {o \in Octets : o > at[t]}
     IN  IF rest = {} THEN Goto(t, "idle") /\ at' = [at EXCEPT ![t] = 0]
         ELSE Goto(t, "fix") /\ at' = [at EXCEPT ![t] = Min(rest)]
  /\ UNCHANGED <<head, mac, counted, loaded, cls, stats, mask, calls, overlap>>

-----------------------------------------------------------------------------
(* macstats_head_drop_accum: one register has the drops of two ports, and  *)
(* reading it clears both.                                                 *)
Pair(p) == {p, p + 1}

Wanted(p, ports) == Pair(p) \cap ports # {}

ReadPair(t) ==
  /\ mac_pc[t] = "pair" /\ Wanted(at[t], mask[t])
  /\ stats' = [stats EXCEPT ![t] =
                 [w \in Words |-> IF w \in {0, 1} THEN drops[at[t] + w] ELSE 0]]
  /\ drops' = [p \in Ports |-> IF p \in Pair(at[t]) THEN 0 ELSE drops[p]]
  /\ Goto(t, "even")
  /\ UNCHANGED <<port, dropped, ports_drop, at, mask, calls, overlap>>

NextPair(t) ==
  IF at[t] + 2 < NPorts THEN Goto(t, "pair") /\ at' = [at EXCEPT ![t] = @ + 2]
  ELSE Goto(t, "idle") /\ at' = [at EXCEPT ![t] = 0]

\* Faulty variant: the bit of the even port is tested for both.
AddedEven(p, ports, n) == IF p - (p % 2) \in ports THEN n ELSE 0

Added(p, ports, n) == IF p \in ports THEN n ELSE 0

AddDrops(t) ==
  /\ mac_pc[t] \in {"even", "odd"}
  /\ LET w == IF mac_pc[t] = "even" THEN 0 ELSE 1
         p == at[t] + w
     IN  /\ ports_drop' = [ports_drop EXCEPT ![p] = @ + Added(p, mask[t], stats[t][w])]
         /\ stats' = [stats EXCEPT ![t][w] = 0]
  /\ IF mac_pc[t] = "even" THEN Goto(t, "odd") /\ UNCHANGED at ELSE NextPair(t)
  /\ UNCHANGED <<port, drops, dropped, mask, calls, overlap>>

SkipPair(t) ==
  /\ mac_pc[t] = "pair" /\ ~Wanted(at[t], mask[t]) /\ NextPair(t)
  /\ UNCHANGED <<port, head, stats, mask, calls, overlap>>

-----------------------------------------------------------------------------
(* mac_stats.c: context 0 clears the words, and then reads and adds for    *)
(* ever.                                                                   *)
ClearSegment(t) ==
  /\ mac_pc[t] = "clear"
  /\ cls' = [w \in Words |-> IF w \in Segment(at[t]) THEN 0 ELSE cls[w]]
  /\ NextSegment(t, "clear", "program")
  /\ UNCHANGED <<head, mac, counted, accum, loaded, stats, mask, calls, overlap>>

\* Faulty variant: the two words of octets are added one by one, as the others are.
AddedToPairApart(lo, hi, n, m) == <<(lo + n) % Word, (hi + m) % Word>>

AddedToPair(lo, hi, n, m) ==
  <<(lo + n) % Word, (hi + m + ((lo + n) \div Word)) % Word>>

\* cls[add64], of the first two words: nobody waits for it ...
ClsAdd64(t) ==
  /\ mac_pc[t] = "cls_add64"
  /\ LET pair == AddedToPair(cls[0], cls[1], stats[t][0], stats[t][1])
     IN  cls' = [cls EXCEPT ![0] = pair[1], ![1] = pair[2]]
  /\ stats' = [stats EXCEPT ![t][0] = 0, ![t][1] = 0]
  /\ Goto(t, "cls_add")
  /\ UNCHANGED <<head, mac, counted, accum, loaded, at, mask, calls, overlap>>

\* ... but for cls[add], which the memory processes after it.
ClsAdd(t) ==
  /\ mac_pc[t] = "cls_add"
  /\ cls' = [w \in Words |-> (cls[w] + stats[t][w]) % Word]
  /\ stats' = [stats EXCEPT ![t] = Zero]
  /\ NextSegment(t, "program", "program")
  /\ UNCHANGED <<head, mac, counted, accum, loaded, mask, calls, overlap>>

-----------------------------------------------------------------------------
PortNext ==
  \/ \E w \in Octets, n \in Growth : CountFrame(w, n)
  \/ \E w \in Counters \ Octets : CountFrame(w, 1)
  \/ \E t \in Callers :
       \/ CallStats(t, "read", {}) \/ CallStats(t, "read_only", {})
       \/ ReadSegment(t) \/ AddHalf(t) \/ LoadSegment(t)
       \/ FixRead(t) \/ FixWrite(t) \/ FixClear(t)

DropNext ==
  \/ \E p \in Ports : CountDrop(p)
  \/ \E t \in Callers :
       \/ \E ports \in PortMasks : CallStats(t, "pair", ports)
       \/ ReadPair(t) \/ AddDrops(t) \/ SkipPair(t)

ProgramNext ==
  \/ \E w \in Octets, n \in Growth : CountFrame(w, n)
  \/ \E w \in Counters \ Octets : CountFrame(w, 1)
  \/ \E t \in Callers :
       \/ calls = 0 /\ CallStats(t, "clear", {})
       \/ ClearSegment(t) \/ ReadSegment(t) \/ ClsAdd64(t) \/ ClsAdd(t)

PortSpec    == StatsInit /\ [][PortNext]_mac_vars
DropSpec    == StatsInit /\ [][DropNext]_mac_vars
ProgramSpec == StatsInit /\ [][ProgramNext]_mac_vars

-----------------------------------------------------------------------------
\* What is in the transfer registers, of a thread and of all of them.
WordIn(t, w) == IF mac_pc[t] \in {"add", "add2", "load"} THEN stats[t][w] ELSE 0
OctetsOf(t, w) == WordIn(t, w) + WordIn(t, w + 1) * Word
DropIn(t, p) ==
  IF mac_pc[t] \in {"even", "odd"} /\ at[t] = p - (p % 2) THEN stats[t][p % 2] ELSE 0

WordsIn(w)  == SumFunction([t \in Callers |-> WordIn(t, w)])
OctetsIn(w) == SumFunction([t \in Callers |-> OctetsOf(t, w)])
DropsIn(p)  == SumFunction([t \in Callers |-> DropIn(t, p)])

\* The program of mac_stats.c, which takes what the library would, has not begun.
NoProgram == \A t \in Callers : mac_pc[t] \notin {"clear", "program", "cls_add64", "cls_add"}

(* Every frame is counted once, however many threads accumulate and read   *)
(* the same port: what is in the MAC, in registers, in memory or was       *)
(* handed out, in the word beside its own, makes up all that was counted,  *)
(* as long as the program of mac_stats.c does not take any.  For the       *)
(* counters of 32 bits.                                                    *)
StatsConserved ==
  NoProgram =>
    \A w \in Counters \ Octets :
      mac[w] + WordsIn(w) + accum[w] + loaded[Beside(w)] = counted[w]

\* Octets that have left the MAC and the registers for the accumulator.
PassedOn(w) == counted[w] - (mac[w] + OctetsIn(w) + (loaded[w + 1] + loaded[w] * Word))

(* No octet is ever counted twice, whatever overlaps: the correction, a    *)
(* read, an addition and a write (macstats.c:184), can only lose what      *)
(* another thread adds meanwhile.  And as long as no two calls overlap the *)
(* accumulator lacks nothing but multiples of 2^32: the lower words and    *)
(* their carries are all there.                                            *)
LowOctetsKept ==
  NoProgram =>
    \A w \in Octets :
      /\ accum[w] <= PassedOn(w)
      /\ ~overlap => (PassedOn(w) - accum[w]) % Word = 0

(* "The accumulating structure reserves 64 bits per counter" of 40 bits    *)
(* (macstats.h:40): whenever nobody is at work every octet the MAC counted *)
(* is in it, or was handed out, or still in the MAC.                       *)
OctetsConserved ==
  (\A t \in Callers : mac_pc[t] = "idle") =>
    \A w \in Octets :
      mac[w] + accum[w] + (loaded[w + 1] + loaded[w] * Word) = counted[w]

(* A port that is in every mask which touches its pair loses no drop, in   *)
(* whatever order the callers read the register both ports share.          *)
DropsConserved ==
  \A p \in Ports :
    (\A ports \in PortMasks : Pair(p - (p % 2)) \cap ports = {} \/ p \in ports) =>
      drops[p] + ports_drop[p] + DropsIn(p) = dropped[p]

(* The program's words are right modulo 2^32, and the first counter of     *)
(* octets, of two words, modulo 2^64: what it adds while the MAC counts on *)
(* and commands it does not wait for are under way is added once.          *)
ProgramConserved ==
  \A t \in Callers : mac_pc[t] \in {"program", "cls_add64", "cls_add"} =>
    /\ \A w \in Counters \ Octets :
         (mac[w] + stats[t][w] + cls[w] - counted[w]) % Word = 0
    /\ (mac[0] + (stats[t][0] + cls[0]) + (stats[t][1] + cls[1]) * Word - counted[0]) % Long = 0
=============================================================================
