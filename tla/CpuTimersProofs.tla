--------------------------- MODULE CpuTimersProofs ---------------------------
(***************************************************************************)
(* The window and the fetch queue of Timer1 follow the program, whatever   *)
(* is predicted, and the timer bandwidth keeps the program's order, for    *)
(* any widths, latencies and predictions.                                  *)
(*                                                                         *)
(* Timer1: the invariant reads window, fetch queue and the prediction to   *)
(* come as one path (Ahead), and the buffer and the last instruction as    *)
(* another (Real): each step of the path is what was predicted at the      *)
(* place before (Linked), and the two paths have their first instruction   *)
(* in common (Oldest).  So they part at a misprediction only, and          *)
(* sim_commit takes nothing behind it.                                     *)
(*                                                                         *)
(* Bandwidth: the number of an instruction says where it is (Numbered),    *)
(* and they are executed in order (ExecutedTo), so that the iterator is    *)
(* behind all that commits take.                                           *)
(***************************************************************************)
EXTENDS CpuTimers, SequenceTheorems, FiniteSetTheorems, WellFoundedInduction, TLAPS

Entry == [addr : Addrs, next : Addrs, left : Nat, control : BOOLEAN, interrupt : BOOLEAN]
Slot == [addr : Nat, next : Nat, ready : BOOLEAN, delay : Nat]
Request == [path : Seq(Nat), next : Nexts]

Queues ==
  /\ buffer \in Seq(Entry) /\ Len(buffer) <= MaxBuffer + 1
  /\ window \in Seq(Slot) /\ Len(window) <= MaxWindow
  /\ ftq \in Seq(Request) /\ Len(ftq) <= MaxFtq
  /\ \A i \in 1..Len(ftq) : Len(ftq[i].path) \in 1..MaxBB

Scalars ==
  /\ stage \in {"wait", "dcache", "commit", "icache", "fetch", "predict"}
  /\ prev \in [addr : Addrs \union {0}, control : BOOLEAN, mems : Mems \union {0}]
  /\ pnext \in Nexts \union Addrs \union {0}
  /\ block \in [addr : Addrs \union {0}, bytes : Nat]
  /\ bpred_delay \in 0..BpredLatency
  /\ fetch_delay \in 0..Max(ILats)
  /\ looked_up \in Nat /\ leftover \in BOOLEAN /\ mistaken \in BOOLEAN

\* the i-th instruction that is not committed
Insn(i) == IF i <= Len(buffer) THEN buffer[i].addr ELSE prev.addr

\* The buffer holds a path through the program.
Real ==
  \A j \in 1..Len(buffer) :
    /\ buffer[j].next = Insn(j + 1)
    /\ ~Ends(j) => buffer[j].next = buffer[j].addr + 1

\* Without an instruction in the buffer, nothing is under way; there are more
\* than a cycle commits when it begins.
Quiet ==
  /\ ~HasPrev => buffer = <<>>
  /\ buffer = <<>> => /\ window = <<>> /\ ftq = <<>> /\ pnext = 0
                      /\ block.bytes = 0 /\ stage = "wait"
  /\ stage \in {"dcache", "commit"} => Len(buffer) > CommitWidth

Oldest ==
  buffer # <<>> =>
    /\ Ahead(1) = Insn(1)
    /\ ~mistaken => block.addr + block.bytes = Insn(1)

\* what comes behind the i-th block
Behind(i) == IF i < Len(ftq) THEN ftq[i + 1].path[1] ELSE pnext

\* The path goes on as predicted, but that a prediction of 0 is none.
Linked ==
  /\ \A i \in 1..Len(window) : window[i].next \in {0, Ahead(i + 1)}
  /\ \A i \in 1..Len(ftq) : ftq[i].next \in {0, Behind(i)}

\* The access to the icache that is under way is the one for the first block.
Line ==
  /\ fetch_delay > 0 /\ ~leftover => ftq # <<>> /\ looked_up = ftq[1].path[1]
  /\ FetchedLine

IInv == Queues /\ Scalars /\ Real /\ Quiet /\ Oldest /\ Linked /\ Performed /\ Line

-----------------------------------------------------------------------------
\* Numbers

LEMMA Least ==
  ASSUME NEW T \in SUBSET Nat, T # {}
  PROVE  \E x \in T : \A y \in T : x <= y
<1>1. PICK x \in T : \A y \in T : ~ (<<y, x>> \in OpToRel(<, Nat))
  BY NatLessThanWellFounded, WFMin
<1>2. \A y \in T : ~(y < x)
  BY <1>1 DEF OpToRel
<1> QED
  BY <1>2

LEMMA MinIn ==
  ASSUME NEW S \in SUBSET Nat, S # {}
  PROVE  Min(S) \in S /\ \A y \in S : Min(S) <= y
BY Least DEF Min

LEMMA MaxIn ==
  ASSUME NEW S, S # {}, NEW b \in Nat, S \subseteq 0..b
  PROVE  Max(S) \in S /\ \A y \in S : y <= Max(S)
<1> DEFINE T == {u \in Nat : \A y \in S : y <= u}
<1>1. b \in T
  OBVIOUS
<1>2. PICK u \in T : \A v \in T : u <= v
  <2>1. T \in SUBSET Nat /\ T # {}
    BY <1>1
  <2> HIDE DEF T
  <2> QED
    BY <2>1, Least
<1>3. u \in S
  <2> SUFFICES ASSUME u \notin S PROVE FALSE
    OBVIOUS
  <2>1. \A y \in S : y \in Nat /\ y <= u - 1 /\ u - 1 \in Nat
    BY <1>2
  <2>2. u - 1 \in T
    BY <2>1
  <2> QED
    BY <1>2, <2>2
<1>4. \A y \in S : u >= y
  BY <1>2
<1> QED
  BY <1>3, <1>4 DEF Max

\* A batch of cycles begins with more instructions than a cycle commits.
LEMMA Batch == Lookahead * CommitWidth \in Nat /\ Lookahead * CommitWidth >= CommitWidth
<1>1. Lookahead \in Nat \ {0} /\ CommitWidth \in Nat \ {0}
  BY PipelineAssumption
<1> QED
  BY <1>1, SMT

\* An instruction is where Program has it.
LEMMA ProgramAt ==
  ASSUME Queues
  PROVE  /\ Len(Program) = Len(buffer) + 1
         /\ \A i \in 1..Len(buffer) + 1 : Program[i] = Insn(i)
<1> DEFINE addrs == [i \in DOMAIN buffer |-> buffer[i].addr]
<1>1. addrs \in Seq(Addrs) /\ Len(addrs) = Len(buffer) /\ Len(buffer) \in Nat
      /\ \A i \in 1..Len(buffer) : addrs[i] = buffer[i].addr
  <2>1. buffer \in Seq(Entry) /\ Len(buffer) \in Nat /\ DOMAIN buffer = 1..Len(buffer)
    BY DEF Queues
  <2>2. \A i \in 1..Len(buffer) : buffer[i].addr \in Addrs
    <3>1. \A i \in 1..Len(buffer) : buffer[i] \in Entry
      BY <2>1
    <3>2. \A e \in Entry : e.addr \in Addrs
      BY DEF Entry
    <3> QED
      BY <3>1, <3>2
  <2>3. addrs = [i \in 1..Len(buffer) |-> buffer[i].addr]
    BY <2>1
  <2> QED
    BY <2>1, <2>2, <2>3
<1>2. <<prev.addr>> \in Seq({prev.addr}) /\ addrs \in Seq(Addrs \union {prev.addr})
      /\ <<prev.addr>> \in Seq(Addrs \union {prev.addr})
      /\ Len(<<prev.addr>>) = 1 /\ <<prev.addr>>[1] = prev.addr
  BY <1>1
<1> HIDE DEF addrs
<1>3. /\ Len(addrs \o <<prev.addr>>) = Len(buffer) + 1
      /\ \A i \in 1..Len(buffer) + 1 :
           (addrs \o <<prev.addr>>)[i] =
             IF i <= Len(buffer) THEN addrs[i] ELSE <<prev.addr>>[i - Len(buffer)]
  BY <1>1, <1>2, ConcatProperties
<1>4. Program = addrs \o <<prev.addr>>
  BY DEF Program, addrs
<1>5. \A i \in 1..Len(buffer) + 1 : ~(i <= Len(buffer)) => i - Len(buffer) = 1
  BY <1>1
<1> QED
  BY <1>1, <1>2, <1>3, <1>4, <1>5 DEF Insn

LEMMA Typed == ASSUME Queues, Scalars PROVE TypeOK
<1>1. \A i \in DOMAIN buffer : buffer[i] \in Entry
  BY DEF Queues
<1>2. \A i \in DOMAIN window : window[i] \in Slot
  BY DEF Queues
<1>3. \A i \in DOMAIN ftq : Len(ftq[i].path) \in 1..MaxBB /\ ftq[i].next \in Nexts
  <2>1. \A i \in DOMAIN ftq : i \in 1..Len(ftq) /\ ftq[i] \in Request
    BY DEF Queues
  <2> QED
    BY <2>1 DEF Queues, Request
<1> QED
  BY <1>1, <1>2, <1>3 DEF Queues, Scalars, TypeOK, Entry, Slot

-----------------------------------------------------------------------------
\* Calls of the timer

LEMMA InitInv == Init => IInv
<1> SUFFICES ASSUME Init PROVE IInv
  OBVIOUS
<1> USE PipelineAssumption DEF Init
<1>1. Queues
  BY DEF Queues
<1>2. Scalars
  <2>1. prev \in [addr : Addrs \union {0}, control : BOOLEAN, mems : Mems \union {0}]
    BY DEF NoInst
  <2>2. bpred_delay \in 0..BpredLatency /\ fetch_delay \in 0..Max(ILats)
    OBVIOUS
  <2> QED
    BY <2>1, <2>2 DEF Scalars
<1>3. Real /\ Quiet /\ Oldest /\ Linked
  BY DEF Real, Quiet, Oldest, Linked, HasPrev, NoInst
<1>4. Performed /\ Line
  BY DEF Performed, Line, FetchedLine
<1> QED
  BY <1>1, <1>2, <1>3, <1>4 DEF IInv

LEMMA SimulateInv ==
  ASSUME IInv, NEW inst \in [addr : Addrs, control : BOOLEAN, mems : Mems],
         Simulate(inst)
  PROVE  IInv'
<1> USE DEF IInv
<1>1. /\ stage = "wait" /\ buffer' = Buffered(inst) /\ prev' = inst /\ Restart
      /\ Len(buffer) <= MaxBuffer
      /\ stage' = (IF Len(buffer') > Lookahead * CommitWidth /\ inst.control
                   THEN "dcache" ELSE "wait")
      /\ UNCHANGED <<window, ftq, bpred_delay, fetch_delay, looked_up, leftover>>
  BY DEF Simulate
<1>2. inst.addr \in Addrs /\ inst.addr # 0 /\ inst.addr \in Nat
      /\ prev.addr \in Nat /\ prev.mems \in Nat /\ prev.control \in BOOLEAN
      /\ (HasPrev => prev.addr \in Addrs)
  <2>1. Addrs \subseteq Nat \ {0} /\ Mems \subseteq Nat
    BY PipelineAssumption
  <2>2. prev.addr \in Addrs \union {0} /\ prev.mems \in Mems \union {0}
        /\ prev.control \in BOOLEAN
    BY DEF Scalars
  <2>3. inst.addr \in Addrs
    OBVIOUS
  <2>4. inst.addr \in Nat /\ inst.addr # 0
    BY <2>1, <2>3
  <2>5. prev.addr \in Nat /\ prev.mems \in Nat
    <3>1. Addrs \union {0} \subseteq Nat /\ Mems \union {0} \subseteq Nat
      BY <2>1
    <3> QED
      BY <2>2, <3>1, Zenon
  <2>6. HasPrev => prev.addr \in Addrs
    BY <2>2 DEF HasPrev
  <2> QED
    BY <2>2, <2>3, <2>4, <2>5, <2>6
<1>3. /\ buffer \in Seq(Entry) /\ Len(buffer) \in Nat /\ MaxBuffer \in Nat
      /\ (buffer = <<>> <=> Len(buffer) = 0)
  BY PipelineAssumption, EmptySeq DEF Queues
<1>4. /\ pnext' \in Nexts \union Addrs \union {0}
      /\ block' \in [addr : Addrs \union {0}, bytes : Nat]
      /\ mistaken' \in BOOLEAN
  BY <1>1 DEF Restart, Scalars
<1>5. Scalars'
  BY <1>1, <1>4 DEF Scalars
<1>6. Line'
  BY <1>1 DEF Line, FetchedLine
<1>7. CASE ~HasPrev
  <2>1. /\ buffer = <<>> /\ window = <<>> /\ ftq = <<>> /\ pnext = 0
        /\ prev.addr = 0 /\ block.bytes = 0
    BY <1>7 DEF Quiet, HasPrev
  <2>2. buffer' = <<>> /\ pnext' = 0 /\ block'.bytes = 0 /\ stage' = "wait"
    <3>1. buffer' = <<>> /\ Len(buffer') = 0
      BY <1>1, <1>7, <2>1 DEF Buffered
    <3>2. stage' = "wait"
      BY <1>1, <3>1, Batch
    <3>3. pnext' = prev.addr /\ block' = [block EXCEPT !.addr = prev.addr]
      BY <1>1, <2>1 DEF Restart
    <3>4. block'.bytes = block.bytes
      BY <3>3 DEF Scalars
    <3> QED
      BY <3>1, <3>2, <3>3, <3>4, <2>1
  <2>3. Queues'
    BY <1>1, <2>1, <2>2 DEF Queues
  <2>4. Real' /\ Quiet' /\ Oldest' /\ Linked' /\ Performed'
    BY <1>1, <2>1, <2>2 DEF Real, Quiet, Oldest, Linked, Performed
  <2> QED
    BY <1>5, <1>6, <2>3, <2>4
<1>8. CASE HasPrev
  <2>1. PICK e : e = [addr |-> prev.addr, next |-> inst.addr, left |-> prev.mems,
                      control |-> prev.control, interrupt |-> Interrupted(inst)]
    OBVIOUS
  <2>2. e \in Entry /\ e.addr = prev.addr /\ e.next = inst.addr
        /\ (~e.control /\ ~e.interrupt => e.next = e.addr + 1)
    BY <1>2, <1>8, <2>1 DEF Entry, Interrupted
  <2>3. /\ buffer' \in Seq(Entry) /\ Len(buffer') = Len(buffer) + 1
        /\ buffer'[Len(buffer) + 1] = e
        /\ \A i \in 1..Len(buffer) : buffer'[i] = buffer[i]
    <3>1. buffer' = Append(buffer, e)
      BY <1>1, <1>8, <2>1 DEF Buffered
    <3> QED
      BY <3>1, <1>3, <2>2, AppendProperties
  <2>4. Queues'
    BY <1>1, <1>3, <2>3 DEF Queues
  <2>5. /\ \A i \in 1..Len(buffer) + 1 : Insn(i)' = Insn(i)
        /\ \A i : i = Len(buffer) + 2 => Insn(i)' = inst.addr
    BY <1>1, <1>3, <2>2, <2>3 DEF Insn
  <2>6. Real'
    <3> SUFFICES ASSUME NEW j \in 1..Len(buffer')
                 PROVE  /\ buffer'[j].next = Insn(j + 1)'
                        /\ ~Ends(j)' => buffer'[j].next = buffer'[j].addr + 1
      BY DEF Real
    <3>1. CASE j = Len(buffer) + 1
      <4>1. j + 1 = Len(buffer) + 2
        BY <1>3, <3>1
      <4> QED
        BY <3>1, <4>1, <2>2, <2>3, <2>5 DEF Ends
    <3>2. CASE j # Len(buffer) + 1
      <4>1. j \in 1..Len(buffer) /\ j + 1 \in 1..Len(buffer) + 1
        BY <1>3, <2>3, <3>2
      <4> QED
        BY <4>1, <2>3, <2>5 DEF Real, Ends
    <3> QED
      BY <3>1, <3>2
  <2>7. \/ pnext' = pnext /\ block' = block /\ mistaken' = mistaken /\ pnext # 0
        \/ /\ pnext = 0 /\ pnext' = prev.addr
           /\ block'.addr = prev.addr /\ block'.bytes = block.bytes
           /\ (Len(buffer) > 0 => mistaken')
    <3>1. CASE pnext = 0
      <4>1. /\ pnext' = prev.addr /\ block' = [block EXCEPT !.addr = prev.addr]
            /\ mistaken' = (mistaken \/ Len(buffer') > 1)
        BY <1>1, <3>1 DEF Restart
      <4>2. block'.addr = prev.addr /\ block'.bytes = block.bytes
        BY <4>1 DEF Scalars
      <4> QED
        <5>1. Len(buffer) > 0 => Len(buffer') > 1
          BY <1>3, <2>3
        <5>2. Len(buffer) > 0 => mistaken'
          BY <4>1, <5>1, Zenon
        <5> QED
          BY <3>1, <4>1, <4>2, <5>2
    <3>2. CASE pnext # 0
      BY <1>1, <3>2 DEF Restart
    <3> QED
      BY <3>1, <3>2
  <2>8. Quiet'
    <3>1. buffer' # <<>> /\ HasPrev'
      BY <1>1, <1>2, <1>3, <2>3 DEF HasPrev
    <3>2. stage' = "dcache" => Len(buffer') > CommitWidth
      BY <1>1, <1>3, <2>3, Batch, PipelineAssumption
    <3> QED
      BY <3>1, <3>2, <1>1 DEF Quiet
  <2>9. \A i \in Nat : Ahead(i)' = Ahead(i) \/ Ahead(i) = 0
    BY <1>1, <2>7 DEF Ahead
  <2>10. Linked'
    <3>1. \A i \in 1..Len(window) : window[i].next \in {0, Ahead(i + 1)'}
      <4>1. \A i \in 1..Len(window) : i + 1 \in Nat
        OBVIOUS
      <4> QED
        BY <4>1, <2>9 DEF Linked
    <3>2. \A i \in 1..Len(ftq) : Behind(i)' = Behind(i) \/ Behind(i) = 0
      BY <1>1, <2>7 DEF Behind
    <3> QED
      BY <3>1, <3>2, <1>1 DEF Linked
  <2>11. Oldest'
    <3>1. CASE buffer = <<>>
      <4>1. window = <<>> /\ ftq = <<>> /\ pnext = 0 /\ block.bytes = 0
        BY <3>1 DEF Quiet
      <4>2. Ahead(1)' = prev.addr
        BY <1>1, <2>7, <4>1 DEF Ahead
      <4>3. Insn(1)' = prev.addr
        BY <1>3, <2>2, <2>3, <3>1 DEF Insn
      <4>4. block'.addr + block'.bytes = prev.addr
        BY <1>2, <2>7, <4>1
      <4> QED
        BY <4>2, <4>3, <4>4 DEF Oldest
    <3>2. CASE buffer # <<>>
      <4>1. Ahead(1) = Insn(1) /\ Insn(1)' = Insn(1)
        BY <1>3, <2>5, <3>2 DEF Oldest
      <4>2. Insn(1) # 0
        <5>1. 1 \in 1..Len(buffer) /\ buffer[1] \in Entry
          BY <1>3, <3>2
        <5> QED
          BY <5>1, PipelineAssumption DEF Insn, Entry
      <4>3. Ahead(1)' = Ahead(1)
        BY <2>9, <4>1, <4>2
      <4>4. ~mistaken' => block'.addr + block'.bytes = Insn(1)
        BY <1>3, <2>7, <3>2 DEF Oldest
      <4> QED
        BY <4>1, <4>3, <4>4 DEF Oldest
    <3> QED
      BY <3>1, <3>2
  <2>12. Performed'
    BY <1>1, <1>3, <2>3 DEF Performed, Queues
  <2> QED
    BY <1>5, <1>6, <2>4, <2>6, <2>8, <2>10, <2>11, <2>12
<1> QED
  BY <1>7, <1>8

\* Time passes: the window keeps its instructions.
LEMMA LaterIs ==
  ASSUME Queues, NEW c \in Nat, NEW w, w = Later(c)
  PROVE  /\ w \in Seq(Slot) /\ Len(w) = Len(window)
         /\ \A i \in 1..Len(window) :
              w[i].addr = window[i].addr /\ w[i].next = window[i].next
              /\ w[i].ready = window[i].ready
<1>1. window \in Seq(Slot) /\ Len(window) \in Nat
  BY DEF Queues
<1>2. w = [i \in 1..Len(window) |->
             [window[i] EXCEPT !.delay = IF @ > c THEN @ - c ELSE 0]]
  BY <1>1 DEF Later
<1>3. \A i \in 1..Len(window) :
        /\ window[i] \in Slot
        /\ w[i] = [window[i] EXCEPT !.delay = IF @ > c THEN @ - c ELSE 0]
  BY <1>1, <1>2
<1>4. ASSUME NEW i \in 1..Len(window)
      PROVE  /\ w[i] \in Slot
             /\ w[i].addr = window[i].addr /\ w[i].next = window[i].next
             /\ w[i].ready = window[i].ready
  <2>1. PICK s \in Slot : s = window[i]
    BY <1>3
  <2>2. PICK d \in Nat : w[i] = [s EXCEPT !.delay = d]
    <3>1. (IF s.delay > c THEN s.delay - c ELSE 0) \in Nat
      BY DEF Slot
    <3> QED
      BY <1>3, <2>1, <3>1
  <2> QED
    BY <2>1, <2>2 DEF Slot
<1>5. w \in Seq(Slot) /\ Len(w) = Len(window)
  BY <1>1, <1>2, <1>4
<1> QED
  BY <1>4, <1>5

\* Nothing but the window's ready instructions and delays, and the accesses
\* still to be made, has changed.
LEMMA SamePaths ==
  ASSUME Queues, Real, Oldest, Linked,
         UNCHANGED <<prev, pnext, ftq, block, mistaken>>,
         Len(buffer') = Len(buffer), buffer' = <<>> <=> buffer = <<>>,
         \A i \in 1..Len(buffer) :
           /\ buffer'[i].addr = buffer[i].addr /\ buffer'[i].next = buffer[i].next
           /\ Ends(i)' = Ends(i),
         Len(window') = Len(window),
         \A i \in 1..Len(window) :
           window'[i].addr = window[i].addr /\ window'[i].next = window[i].next
  PROVE  Real' /\ Oldest' /\ Linked'
<1>1. Len(buffer) \in Nat /\ Len(window) \in Nat /\ (buffer # <<>> => Len(buffer) > 0)
  BY EmptySeq DEF Queues
<1>2. \A i \in 1..Len(buffer) + 1 : Insn(i)' = Insn(i)
  BY <1>1 DEF Insn
<1>3. \A i \in 1..Len(window) + 1 : Ahead(i)' = Ahead(i)
  BY <1>1 DEF Ahead
<1>4. Real'
  <2>1. \A j \in 1..Len(buffer) : j + 1 \in 1..Len(buffer) + 1
    BY <1>1
  <2> QED
    BY <1>2, <2>1 DEF Real
<1>5. Oldest'
  BY <1>1, <1>2, <1>3 DEF Oldest
<1>6. Linked'
  <2>1. \A i \in 1..Len(window) : i + 1 \in 1..Len(window) + 1
    BY <1>1
  <2>2. \A i : Behind(i)' = Behind(i)
    BY DEF Behind
  <2> QED
    BY <1>3, <2>1, <2>2 DEF Linked
<1> QED
  BY <1>4, <1>5, <1>6

LEMMA IdleInv == ASSUME IInv, Idle(1) PROVE IInv'
<1> USE DEF IInv
<1>1. /\ stage = "wait" /\ window' = Later(1)
      /\ UNCHANGED <<stage, prev, pnext, buffer, ftq, bpred_delay, fetch_delay, block,
                     looked_up, leftover, mistaken>>
  BY DEF Idle
<1>2. /\ window' \in Seq(Slot) /\ Len(window') = Len(window)
      /\ \A i \in 1..Len(window) :
           window'[i].addr = window[i].addr /\ window'[i].next = window[i].next
           /\ window'[i].ready = window[i].ready
  BY <1>1, LaterIs
<1>3. Queues'
  BY <1>1, <1>2 DEF Queues
<1>4. Scalars' /\ Line'
  BY <1>1 DEF Scalars, Line, FetchedLine
<1>5. Real' /\ Oldest' /\ Linked'
  <2>1. \A i : Ends(i)' = Ends(i)
    BY <1>1 DEF Ends
  <2> QED
    BY <1>1, <1>2, <2>1, SamePaths
<1>6. Performed'
  <2>1. DOMAIN window' = 1..Len(window) /\ DOMAIN window = 1..Len(window)
    BY <1>2 DEF Queues
  <2> QED
    BY <1>1, <1>2, <2>1 DEF Performed
<1>7. Quiet'
  <2>1. window = <<>> => window' = <<>>
    BY <1>2, EmptySeq
  <2> QED
    BY <1>1, <2>1 DEF Quiet, HasPrev
<1> QED
  BY <1>3, <1>4, <1>5, <1>6, <1>7

LEMMA EndSimulationInv == ASSUME IInv, EndSimulation PROVE IInv'
<1> USE PipelineAssumption DEF IInv
<1>1. /\ stage' = "wait" /\ buffer' = <<>> /\ window' = <<>> /\ ftq' = <<>>
      /\ prev' = NoInst /\ pnext' = 0
      /\ block' = [addr |-> 0, bytes |-> 0]
      /\ fetch_delay' = 0 /\ bpred_delay' = BpredLatency
      /\ leftover' = FALSE /\ mistaken' = FALSE /\ looked_up' = looked_up
  BY DEF EndSimulation
<1>2. Queues'
  BY <1>1 DEF Queues
<1>3. Scalars'
  <2>1. prev' \in [addr : Addrs \union {0}, control : BOOLEAN, mems : Mems \union {0}]
    BY <1>1 DEF NoInst
  <2>2. bpred_delay' \in 0..BpredLatency /\ fetch_delay' \in 0..Max(ILats)
    BY <1>1
  <2> QED
    BY <1>1, <2>1, <2>2 DEF Scalars
<1>4. Real' /\ Quiet' /\ Oldest' /\ Linked'
  BY <1>1 DEF Real, Quiet, Oldest, Linked, HasPrev, NoInst
<1>5. Performed' /\ Line'
  BY <1>1 DEF Performed, Line, FetchedLine
<1> QED
  BY <1>2, <1>3, <1>4, <1>5

-----------------------------------------------------------------------------
\* The stages

\* The accesses that are made are the instruction's own.
LEMMA DcacheInv == ASSUME IInv, Dcache PROVE IInv'
<1> USE DEF IInv
<1>1. /\ stage = "dcache" /\ stage' = "commit"
      /\ UNCHANGED <<prev, pnext, ftq, block, bpred_delay, fetch_delay,
                     looked_up, leftover, mistaken>>
      /\ buffer' = [i \in DOMAIN buffer |->
           IF i \in Reached THEN [buffer[i] EXCEPT !.left = @ - Made(i)] ELSE buffer[i]]
  BY DEF Dcache
<1>2. PICK lat \in [{i \in Reached : buffer[i].left > 0} -> 0..MaxLat] :
        window' = [i \in DOMAIN window |->
          IF i \notin Reached THEN window[i]
          ELSE [window[i] EXCEPT !.delay = @ + (IF i \in DOMAIN lat THEN lat[i] ELSE 0),
                                 !.ready = (Made(i) = buffer[i].left)]]
  BY DEF Dcache
<1>3. /\ buffer \in Seq(Entry) /\ Len(buffer) \in Nat /\ DOMAIN buffer = 1..Len(buffer)
      /\ window \in Seq(Slot) /\ Len(window) \in Nat /\ DOMAIN window = 1..Len(window)
  BY DEF Queues
<1>4. \A i \in Reached :
        /\ i \in 1..Len(window) /\ i \in 1..Len(buffer)
        /\ window[i].addr = buffer[i].addr
  <2>1. PICK S : S = {Len(window), Len(buffer), 2 * CommitWidth}
    OBVIOUS
  <2>2. S \in SUBSET Nat /\ S # {} /\ Len(window) \in S /\ Len(buffer) \in S
    BY <1>3, <2>1, PipelineAssumption
  <2>3. Min(S) \in Nat /\ Min(S) <= Len(window) /\ Min(S) <= Len(buffer)
    BY <2>2, MinIn
  <2>4. Reached \subseteq {i \in 1..Min(S) : \A j \in 1..i : window[j].addr = buffer[j].addr}
    BY <2>1 DEF Reached, Matching
  <2> QED
    BY <1>3, <2>3, <2>4
<1>5. ASSUME NEW i \in Reached PROVE Made(i) \in Nat /\ Made(i) <= buffer[i].left
  <2>1. PICK S : S = {buffer[i].left, PortsAt(i)}
    OBVIOUS
  <2>2. buffer[i].left \in Nat
    <3>1. buffer[i] \in Entry
      BY <1>3, <1>4
    <3> QED
      BY <3>1 DEF Entry
  <2>3. PortsAt(i) \in Nat
    <3>1. PICK asked : PortsAt(i) = Cardinality({p \in 1..DcachePorts : p > asked})
      BY DEF PortsAt
    <3>2. IsFiniteSet(1..DcachePorts)
      <4>1. 1 \in Int /\ DcachePorts \in Int
        BY PipelineAssumption
      <4> QED
        BY <4>1, FS_Interval
    <3>3. IsFiniteSet({p \in 1..DcachePorts : p > asked})
      BY <3>2, FS_Subset
    <3> QED
      BY <3>1, <3>3, FS_CardinalityType
  <2>4. S \in SUBSET Nat /\ S # {} /\ buffer[i].left \in S
    BY <2>1, <2>2, <2>3
  <2> QED
    BY <2>1, <2>4, MinIn DEF Made
<1>6. /\ Len(buffer') = Len(buffer) /\ buffer' \in Seq(Entry)
      /\ \A i \in 1..Len(buffer) :
           /\ buffer'[i].addr = buffer[i].addr /\ buffer'[i].next = buffer[i].next
           /\ buffer'[i].control = buffer[i].control
           /\ buffer'[i].interrupt = buffer[i].interrupt
           /\ i \notin Reached => buffer'[i].left = buffer[i].left
           /\ i \in Reached => buffer'[i].left = buffer[i].left - Made(i)
  <2>1. ASSUME NEW i \in 1..Len(buffer)
        PROVE  /\ buffer'[i] \in Entry
               /\ buffer'[i].addr = buffer[i].addr /\ buffer'[i].next = buffer[i].next
               /\ buffer'[i].control = buffer[i].control
               /\ buffer'[i].interrupt = buffer[i].interrupt
               /\ i \notin Reached => buffer'[i].left = buffer[i].left
               /\ i \in Reached => buffer'[i].left = buffer[i].left - Made(i)
    <3>1. PICK e \in Entry : e = buffer[i]
      BY <1>3
    <3>2. CASE i \in Reached
      <4>1. PICK d \in Nat : d = e.left - Made(i)
        BY <1>5, <3>1, <3>2 DEF Entry
      <4>2. buffer'[i] = [e EXCEPT !.left = d]
        BY <1>1, <1>3, <3>1, <3>2, <4>1
      <4> QED
        BY <3>1, <3>2, <4>1, <4>2 DEF Entry
    <3>3. CASE i \notin Reached
      BY <1>1, <1>3, <3>1, <3>3
    <3> QED
      BY <3>2, <3>3
  <2>2. Len(buffer') = Len(buffer) /\ buffer' \in Seq(Entry)
    <3>1. DOMAIN buffer' = 1..Len(buffer) /\ buffer' = [i \in 1..Len(buffer) |-> buffer'[i]]
      BY <1>1, <1>3
    <3> QED
      BY <1>3, <2>1, <3>1
  <2> QED
    BY <2>1, <2>2
<1>7. /\ Len(window') = Len(window) /\ window' \in Seq(Slot)
      /\ \A i \in 1..Len(window) :
           /\ window'[i].addr = window[i].addr /\ window'[i].next = window[i].next
           /\ i \notin Reached => window'[i].ready = window[i].ready
           /\ i \in Reached => window'[i].ready = (Made(i) = buffer[i].left)
  <2>1. ASSUME NEW i \in 1..Len(window)
        PROVE  /\ window'[i] \in Slot
               /\ window'[i].addr = window[i].addr /\ window'[i].next = window[i].next
               /\ i \notin Reached => window'[i].ready = window[i].ready
               /\ i \in Reached => window'[i].ready = (Made(i) = buffer[i].left)
    <3>1. PICK s \in Slot : s = window[i]
      BY <1>3
    <3>2. CASE i \in Reached
      <4>1. PICK d \in Nat : d = s.delay + (IF i \in DOMAIN lat THEN lat[i] ELSE 0)
        <5>1. MaxLat \in Nat /\ s.delay \in Nat
          BY PipelineAssumption DEF Slot
        <5>2. i \in DOMAIN lat => lat[i] \in Nat
          <6>1. PICK D : lat \in [D -> 0..MaxLat]
            BY <1>2
          <6> QED
            BY <5>1, <6>1
        <5> QED
          BY <5>1, <5>2
      <4>2. PICK done \in BOOLEAN : done = (Made(i) = buffer[i].left)
        OBVIOUS
      <4>3. window'[i] = [s EXCEPT !.delay = d, !.ready = done]
        BY <1>2, <1>3, <3>1, <3>2, <4>1, <4>2
      <4> QED
        BY <3>1, <3>2, <4>2, <4>3 DEF Slot
    <3>3. CASE i \notin Reached
      BY <1>2, <1>3, <3>1, <3>3
    <3> QED
      BY <3>2, <3>3
  <2>2. Len(window') = Len(window) /\ window' \in Seq(Slot)
    <3>1. DOMAIN window' = 1..Len(window) /\ window' = [i \in 1..Len(window) |-> window'[i]]
      BY <1>2, <1>3
    <3> QED
      BY <1>3, <2>1, <3>1
  <2> QED
    BY <2>1, <2>2
<1>8. Queues'
  BY <1>1, <1>6, <1>7 DEF Queues
<1>9. Scalars' /\ Line'
  BY <1>1 DEF Scalars, Line, FetchedLine
<1>10. buffer' = <<>> <=> buffer = <<>>
  BY <1>3, <1>6, EmptySeq
<1>11. Real' /\ Oldest' /\ Linked'
  <2>1. \A i \in 1..Len(buffer) : Ends(i)' = Ends(i)
    BY <1>6 DEF Ends
  <2> QED
    BY <1>1, <1>6, <1>7, <1>10, <2>1, SamePaths
<1>12. Performed'
  <2> SUFFICES ASSUME NEW i \in 1..Len(window), window'[i].ready
               PROVE  /\ i <= Len(buffer) /\ window'[i].addr = buffer'[i].addr
                      /\ buffer'[i].left = 0
    BY <1>6, <1>7 DEF Performed
  <2>1. CASE i \in Reached
    <3>1. Made(i) = buffer[i].left /\ buffer[i].left \in Nat
      BY <1>3, <1>4, <1>5, <1>7, <2>1 DEF Entry
    <3> QED
      BY <1>4, <1>6, <1>7, <2>1, <3>1
  <2>2. CASE i \notin Reached
    <3>1. i <= Len(buffer) /\ window[i].addr = buffer[i].addr /\ buffer[i].left = 0
      BY <1>3, <1>7, <2>2 DEF Performed
    <3>2. i \in 1..Len(buffer)
      BY <1>3, <3>1
    <3> QED
      BY <1>6, <1>7, <2>2, <3>1, <3>2
  <2> QED
    BY <2>1, <2>2
<1>13. Quiet'
  BY <1>1, <1>6, <1>10 DEF Quiet, HasPrev
<1> QED
  BY <1>8, <1>9, <1>11, <1>12, <1>13

\* What the loop commits is in the buffer, and was predicted up to its last.
LEMMA CommittedIs ==
  ASSUME Queues, Performed
  PROVE  /\ Committed \in 0..Len(window) /\ Committed <= CommitWidth
         /\ Committed <= Len(buffer)
         /\ \A i \in 1..Committed : window[i].ready /\ (i < Committed => Predicted(i))
<1>1. Len(window) \in Nat /\ DOMAIN window = 1..Len(window) /\ Len(buffer) \in Nat
  BY DEF Queues
<1>2. PICK m : m = Min({CommitWidth, Len(window)})
  OBVIOUS
<1>3. m \in Nat /\ m <= CommitWidth /\ m <= Len(window)
  <2>1. PICK S : S = {CommitWidth, Len(window)}
    OBVIOUS
  <2>2. S \in SUBSET Nat /\ S # {} /\ CommitWidth \in S /\ Len(window) \in S
    BY <1>1, <2>1, PipelineAssumption
  <2> QED
    BY <1>2, <2>1, <2>2, MinIn
<1>4. PICK T : T = {n \in 0..m : \A i \in 1..n : /\ window[i].ready /\ window[i].delay = 0
                                                 /\ i < n => Predicted(i)}
  OBVIOUS
<1>5. Committed = Max(T)
  BY <1>2, <1>4 DEF Committed
<1>6. T # {} /\ T \subseteq 0..m
  <2>1. 0 \in T
    BY <1>3, <1>4
  <2> QED
    BY <1>4, <2>1
<1>7. Committed \in T
  BY <1>3, <1>5, <1>6, MaxIn
<1>8. /\ Committed \in 0..m
      /\ \A i \in 1..Committed : window[i].ready /\ (i < Committed => Predicted(i))
  BY <1>4, <1>7
<1>9. Committed \in 1..Len(window) => Committed <= Len(buffer)
  BY <1>1, <1>8 DEF Performed
<1> QED
  BY <1>1, <1>3, <1>8, <1>9, PipelineAssumption

\* Between two instructions that do not end a block, the addresses follow.
LEMMA Consecutive ==
  ASSUME Queues, Real, NEW a \in Nat, NEW n \in Nat, a <= n, n < Len(buffer),
         \A i \in a + 1..n : ~Ends(i)
  PROVE  Insn(n + 1) = Insn(a + 1) + (n - a)
<1>1. Len(buffer) \in Nat
  BY DEF Queues
<1>2. \A i \in 1..Len(buffer) : Insn(i) = buffer[i].addr /\ Insn(i) \in Nat
  <2>1. \A i \in 1..Len(buffer) : buffer[i] \in Entry
    BY DEF Queues
  <2>2. \A e \in Entry : e.addr \in Nat
    BY PipelineAssumption DEF Entry
  <2> QED
    BY <1>1, <2>1, <2>2 DEF Insn
<1>3. \A i \in a + 1..n : Insn(i + 1) = Insn(i) + 1
  <2> SUFFICES ASSUME NEW i \in a + 1..n PROVE Insn(i + 1) = Insn(i) + 1
    OBVIOUS
  <2>1. i \in 1..Len(buffer) /\ ~Ends(i)
    BY <1>1
  <2> QED
    BY <1>2, <2>1 DEF Real
<1> DEFINE wrong == {i \in Nat : a + 1 <= i /\ i <= n + 1 /\ Insn(i) # Insn(a + 1) + (i - (a + 1))}
<1>4. wrong = {}
  <2> SUFFICES ASSUME wrong # {} PROVE FALSE
    OBVIOUS
  <2>1. PICK x \in wrong : \A y \in wrong : x <= y
    <3>1. wrong \in SUBSET Nat
      OBVIOUS
    <3> HIDE DEF wrong
    <3> QED
      BY <3>1, Least
  <2>2. a + 1 \in 1..Len(buffer) /\ Insn(a + 1) \in Nat
    BY <1>1, <1>2
  <2>3. x # a + 1
    BY <2>1, <2>2
  <2>4. x - 1 \in Nat /\ x - 1 \in a + 1..n /\ x - 1 < x
    BY <2>1, <2>3
  <2>5. x - 1 \notin wrong
    BY <2>1, <2>4
  <2>6. Insn(x - 1) = Insn(a + 1) + (x - 1 - (a + 1))
    BY <2>4, <2>5
  <2>7. Insn(x - 1 + 1) = Insn(x - 1) + 1 /\ x - 1 + 1 = x
    BY <1>3, <2>4
  <2>8. Insn(x) = Insn(a + 1) + (x - (a + 1))
    BY <2>1, <2>2, <2>4, <2>6, <2>7
  <2> QED
    BY <2>1, <2>8
<1>5. n + 1 \in Nat /\ a + 1 <= n + 1 /\ n + 1 - (a + 1) = n - a
  OBVIOUS
<1>6. Insn(n + 1) = Insn(a + 1) + (n + 1 - (a + 1))
  <2>1. n + 1 \notin wrong
    BY <1>4
  <2> QED
    BY <1>5, <2>1
<1> QED
  BY <1>5, <1>6

\* The block ends where the first instruction that is left begins.
LEMMA TrainedIs ==
  ASSUME Queues, Scalars, Real, NEW n \in Nat, n < Len(buffer)
  PROVE  /\ Trained(n) \in [addr : Addrs \union {0}, bytes : Nat]
         /\ block.addr + block.bytes = Insn(1) =>
              Trained(n).addr + Trained(n).bytes = Insn(n + 1)
<1> DEFINE ends == {i \in 1..n : Ends(i)}
<1>1. Len(buffer) \in Nat
  BY DEF Queues
<1>2. PICK b \in [addr : Addrs \union {0}, bytes : Nat] : b = block
  BY DEF Scalars
<1>3. b.addr \in Nat /\ b.bytes \in Nat
  <2>1. Addrs \union {0} \subseteq Nat
    BY PipelineAssumption
  <2>2. b.addr \in Addrs \union {0} /\ b.bytes \in Nat
    OBVIOUS
  <2> QED
    BY <2>1, <2>2, Zenon
<1>4. CASE ends = {}
  <2>1. Trained(n) = [b EXCEPT !.bytes = @ + n]
    BY <1>2, <1>4 DEF Trained
  <2>2. b.bytes + n \in Nat
    BY <1>3
  <2>3. /\ Trained(n) \in [addr : Addrs \union {0}, bytes : Nat]
        /\ Trained(n).addr = b.addr /\ Trained(n).bytes = b.bytes + n
    BY <2>1, <2>2
  <2>4. PICK a \in Nat : a = 0
    OBVIOUS
  <2>5. Insn(n + 1) = Insn(a + 1) + (n - a)
    <3>1. \A i \in a + 1..n : ~Ends(i)
      BY <1>4, <2>4
    <3>2. a <= n
      BY <2>4
    <3> QED
      BY <3>1, <3>2, Consecutive
  <2>6. a + 1 = 1 /\ n - a = n
    BY <2>4
  <2>7. Insn(n + 1) = Insn(1) + n
    BY <2>5, <2>6
  <2> QED
    BY <1>2, <1>3, <2>3, <2>7
<1>5. CASE ends # {}
  <2>1. PICK a : a = Max(ends)
    OBVIOUS
  <2>2. a \in ends /\ \A y \in ends : y <= a
    <3>1. ends \subseteq 0..n
      OBVIOUS
    <3> HIDE DEF ends
    <3> QED
      BY <1>5, <2>1, <3>1, MaxIn
  <2>3. a \in 1..n /\ a \in 1..Len(buffer) /\ n - a \in Nat /\ a + 1 \in 1..Len(buffer)
    BY <1>1, <2>2
  <2>4. Trained(n) = [addr |-> buffer[a].next, bytes |-> n - a]
    BY <1>5, <2>1 DEF Trained
  <2>5. buffer[a].next = Insn(a + 1) /\ buffer[a].next \in Addrs
    <3>1. buffer[a] \in Entry
      BY <2>3 DEF Queues
    <3> QED
      BY <2>3, <3>1 DEF Real, Entry
  <2>6. \A i \in a + 1..n : ~Ends(i)
    <3> SUFFICES ASSUME NEW i \in a + 1..n, Ends(i) PROVE FALSE
      OBVIOUS
    <3>1. i \in ends /\ ~(i <= a)
      BY <2>3
    <3> QED
      BY <2>2, <3>1
  <2>7. Insn(n + 1) = Insn(a + 1) + (n - a)
    BY <2>3, <2>6, Consecutive
  <2> QED
    BY <2>3, <2>4, <2>5, <2>7
<1> QED
  BY <1>4, <1>5

\* What is left of both paths begins behind the last that is committed: there
\* the window goes on as the buffer does, or is predicted anew.
LEMMA CommitInv == ASSUME IInv, Commit PROVE IInv'
<1> USE DEF IInv
<1>1. PICK n : n = Committed
  OBVIOUS
<1>2. /\ stage = "commit" /\ stage' = "icache"
      /\ UNCHANGED <<prev, fetch_delay, looked_up, mistaken>>
      /\ block' = Trained(n)
      /\ buffer' = SubSeq(buffer, n + 1, Len(buffer))
      /\ IF n > 0 /\ ~Predicted(n) THEN Squash(buffer[n])
         ELSE /\ window' = SubSeq(window, n + 1, Len(window))
              /\ UNCHANGED <<ftq, pnext, bpred_delay, leftover>>
  BY <1>1 DEF Commit
<1>3. /\ buffer \in Seq(Entry) /\ Len(buffer) \in Nat /\ MaxBuffer \in Nat
      /\ window \in Seq(Slot) /\ Len(window) \in Nat /\ MaxWindow \in Nat
      /\ \A i \in 1..Len(buffer) : buffer[i] \in Entry
      /\ \A i \in 1..Len(window) : window[i] \in Slot
  BY PipelineAssumption DEF Queues
<1>4. n \in Nat /\ n \in 0..Len(window) /\ n < Len(buffer)
  <2>1. Len(buffer) > CommitWidth /\ CommitWidth \in Nat
    BY <1>2, PipelineAssumption DEF Quiet
  <2>2. n \in 0..Len(window) /\ n <= CommitWidth
    BY <1>1, CommittedIs
  <2> QED
    BY <1>3, <2>1, <2>2
<1>5. /\ buffer' \in Seq(Entry) /\ Len(buffer') = Len(buffer) - n
      /\ \A i \in 1..Len(buffer) - n : buffer'[i] = buffer[n + i]
  <2>1. \A i \in n + 1..Len(buffer) : buffer[i] \in Entry
    BY <1>3, <1>4
  <2>2. /\ buffer' \in Seq(Entry)
        /\ Len(buffer') = IF n + 1 <= Len(buffer) THEN Len(buffer) - (n + 1) + 1 ELSE 0
        /\ \A i \in 1..Len(buffer) - (n + 1) + 1 : buffer'[i] = buffer[n + 1 + i - 1]
    <3>1. n + 1 \in Int /\ Len(buffer) \in Int
      BY <1>3, <1>4
    <3> QED
      BY <1>2, <2>1, <3>1, SubSeqProperties
  <2>3. Len(buffer) - (n + 1) + 1 = Len(buffer) - n /\ n + 1 <= Len(buffer)
    BY <1>3, <1>4
  <2>4. \A i \in 1..Len(buffer) - n : n + 1 + i - 1 = n + i
    BY <1>3, <1>4
  <2> QED
    BY <2>2, <2>3, <2>4
<1>6. buffer' # <<>> /\ buffer # <<>>
  BY <1>3, <1>4, <1>5
<1>7. \A i \in Nat \ {0} : Insn(i)' = Insn(n + i)
  <2> SUFFICES ASSUME NEW i \in Nat \ {0} PROVE Insn(i)' = Insn(n + i)
    OBVIOUS
  <2>1. CASE i <= Len(buffer) - n
    <3>1. i \in 1..Len(buffer) - n /\ n + i <= Len(buffer)
      BY <1>3, <1>4, <2>1
    <3> QED
      BY <1>5, <2>1, <3>1 DEF Insn
  <2>2. CASE ~(i <= Len(buffer) - n)
    <3>1. ~(n + i <= Len(buffer))
      BY <1>3, <1>4, <2>2
    <3> QED
      BY <1>2, <1>5, <2>2, <3>1 DEF Insn
  <2> QED
    BY <2>1, <2>2
<1>8. Real'
  <2> SUFFICES ASSUME NEW j \in 1..Len(buffer')
               PROVE  /\ buffer'[j].next = Insn(j + 1)'
                      /\ ~Ends(j)' => buffer'[j].next = buffer'[j].addr + 1
    BY DEF Real
  <2>1. /\ n + j \in 1..Len(buffer) /\ j + 1 \in Nat \ {0} /\ n + (j + 1) = n + j + 1
        /\ j \in 1..Len(buffer) - n
    BY <1>3, <1>4, <1>5
  <2>2. buffer'[j] = buffer[n + j] /\ Insn(j + 1)' = Insn(n + j + 1)
    BY <1>5, <1>7, <2>1
  <2> QED
    BY <2>1, <2>2 DEF Real, Ends
<1>9. Quiet'
  BY <1>2, <1>6 DEF Quiet, HasPrev
<1>10. /\ block' \in [addr : Addrs \union {0}, bytes : Nat]
       /\ ~mistaken' => block'.addr + block'.bytes = Insn(1)'
  <2>1. Insn(1)' = Insn(n + 1)
    BY <1>7
  <2> QED
    BY <1>2, <1>4, <1>6, <2>1, TrainedIs DEF Oldest
<1>11. n > 0 => /\ n \in 1..Len(buffer) /\ n \in 1..Len(window)
                /\ buffer[n].next \in Addrs /\ buffer[n].next = Insn(n + 1)
  <2> SUFFICES ASSUME n > 0
               PROVE  /\ n \in 1..Len(buffer) /\ n \in 1..Len(window)
                      /\ buffer[n].next \in Addrs /\ buffer[n].next = Insn(n + 1)
    OBVIOUS
  <2>1. n \in 1..Len(buffer) /\ n \in 1..Len(window)
    BY <1>3, <1>4
  <2>2. buffer[n] \in Entry
    BY <1>3, <2>1
  <2> QED
    BY <2>1, <2>2 DEF Real, Entry
<1>12. CASE n > 0 /\ ~Predicted(n)
  <2>1. /\ window' = <<>> /\ ftq' = <<>>
        /\ pnext' = buffer[n].next
        /\ bpred_delay' = BpredLatency
        /\ leftover' = (leftover \/ fetch_delay > 0)
    BY <1>2, <1>12 DEF Squash
  <2>2. Queues'
    BY <1>3, <1>4, <1>5, <2>1, PipelineAssumption DEF Queues
  <2>3. Scalars'
    <3>1. bpred_delay' \in 0..BpredLatency
      BY <2>1, PipelineAssumption
    <3> QED
      BY <1>2, <1>10, <1>11, <1>12, <2>1, <3>1 DEF Scalars
  <2>4. Oldest'
    <3>1. Ahead(1)' = buffer[n].next
      BY <2>1 DEF Ahead
    <3>2. Insn(1)' = Insn(n + 1)
      BY <1>7
    <3> QED
      BY <1>10, <1>11, <1>12, <3>1, <3>2 DEF Oldest
  <2>5. Linked' /\ Performed'
    BY <2>1 DEF Linked, Performed
  <2>6. Line'
    <3>1. fetch_delay' > 0 => leftover'
      BY <1>2, <2>1, Zenon
    <3>2. stage' # "fetch"
      BY <1>2
    <3> QED
      BY <3>1, <3>2, Zenon DEF Line, FetchedLine
  <2> QED
    BY <1>8, <1>9, <2>2, <2>3, <2>4, <2>5, <2>6
<1>13. CASE ~(n > 0 /\ ~Predicted(n))
  <2>1. /\ window' = SubSeq(window, n + 1, Len(window))
        /\ UNCHANGED <<ftq, pnext, bpred_delay, leftover>>
    BY <1>2, <1>13
  <2>2. /\ window' \in Seq(Slot) /\ Len(window') = Len(window) - n
        /\ \A i \in 1..Len(window) - n : window'[i] = window[n + i]
    <3>1. \A i \in n + 1..Len(window) : window[i] \in Slot
      BY <1>3, <1>4
    <3>2. /\ window' \in Seq(Slot)
          /\ Len(window') = IF n + 1 <= Len(window) THEN Len(window) - (n + 1) + 1 ELSE 0
          /\ \A i \in 1..Len(window) - (n + 1) + 1 : window'[i] = window[n + 1 + i - 1]
      <4>1. n + 1 \in Int /\ Len(window) \in Int
        BY <1>3, <1>4
      <4> QED
        BY <2>1, <3>1, <4>1, SubSeqProperties
    <3>3. /\ Len(window) - (n + 1) + 1 = Len(window) - n
          /\ ~(n + 1 <= Len(window)) => Len(window) - n = 0
      BY <1>3, <1>4
    <3>4. \A i \in 1..Len(window) - n : n + 1 + i - 1 = n + i
      BY <1>3, <1>4
    <3> QED
      BY <3>2, <3>3, <3>4
  <2>3. Queues'
    <3>1. Len(buffer') <= MaxBuffer + 1 /\ Len(window') <= MaxWindow
      BY <1>3, <1>4, <1>5, <2>2 DEF Queues
    <3> QED
      BY <1>5, <2>1, <2>2, <3>1 DEF Queues
  <2>4. Scalars'
    BY <1>2, <1>10, <2>1 DEF Scalars
  <2>5. \A i \in Nat \ {0} : Ahead(i)' = Ahead(n + i)
    <3> SUFFICES ASSUME NEW i \in Nat \ {0} PROVE Ahead(i)' = Ahead(n + i)
      OBVIOUS
    <3>1. CASE i <= Len(window) - n
      <4>1. i \in 1..Len(window) - n /\ n + i <= Len(window)
        BY <1>3, <1>4, <3>1
      <4> QED
        BY <2>2, <3>1, <4>1 DEF Ahead
    <3>2. CASE ~(i <= Len(window) - n)
      <4>1. ~(n + i <= Len(window))
        BY <1>3, <1>4, <3>2
      <4> QED
        BY <2>1, <2>2, <3>2, <4>1 DEF Ahead
    <3> QED
      BY <3>1, <3>2
  <2>6. Oldest'
    <3>1. Ahead(1)' = Ahead(n + 1) /\ Insn(1)' = Insn(n + 1)
      BY <1>7, <2>5
    <3>2. Ahead(n + 1) = Insn(n + 1)
      <4>1. CASE n = 0
        <5>1. n + 1 = 1
          BY <4>1
        <5> QED
          BY <1>6, <5>1 DEF Oldest
      <4>2. CASE n # 0
        <5>1. n > 0 /\ window[n].next = buffer[n].next
          BY <1>4, <1>13, <4>2 DEF Predicted
        <5>2. window[n].next \in {0, Ahead(n + 1)} /\ buffer[n].next # 0
          BY <1>11, <5>1, PipelineAssumption DEF Linked
        <5> QED
          BY <1>11, <5>1, <5>2
      <4> QED
        BY <4>1, <4>2
    <3> QED
      BY <1>10, <3>1, <3>2 DEF Oldest
  <2>7. Linked'
    <3>1. ASSUME NEW i \in 1..Len(window') PROVE window'[i].next \in {0, Ahead(i + 1)'}
      <4>1. /\ i \in 1..Len(window) - n /\ n + i \in 1..Len(window)
            /\ i + 1 \in Nat \ {0} /\ n + (i + 1) = n + i + 1
        BY <1>3, <1>4, <2>2
      <4>2. window'[i] = window[n + i] /\ Ahead(i + 1)' = Ahead(n + i + 1)
        BY <2>2, <2>5, <4>1
      <4> QED
        BY <4>1, <4>2 DEF Linked
    <3>2. \A i : Behind(i)' = Behind(i)
      BY <2>1 DEF Behind
    <3> QED
      BY <2>1, <3>1, <3>2 DEF Linked
  <2>8. Performed'
    <3> SUFFICES ASSUME NEW i \in 1..Len(window'), window'[i].ready
                 PROVE  /\ i <= Len(buffer') /\ window'[i].addr = buffer'[i].addr
                        /\ buffer'[i].left = 0
      BY <2>2 DEF Performed
    <3>1. /\ i \in 1..Len(window) - n /\ n + i \in 1..Len(window)
          /\ n + i \in DOMAIN window
      BY <1>3, <1>4, <2>2
    <3>2. window'[i] = window[n + i]
      BY <2>2, <3>1
    <3>3. /\ n + i <= Len(buffer) /\ window[n + i].addr = buffer[n + i].addr
          /\ buffer[n + i].left = 0
      BY <3>1, <3>2 DEF Performed
    <3>4. i <= Len(buffer') /\ i \in 1..Len(buffer) - n
      BY <1>3, <1>4, <1>5, <3>1, <3>3
    <3> QED
      BY <1>5, <3>2, <3>3, <3>4
  <2>9. Line'
    BY <1>2, <2>1 DEF Line, FetchedLine
  <2> QED
    BY <1>8, <1>9, <2>3, <2>4, <2>6, <2>7, <2>8, <2>9
<1> QED
  BY <1>12, <1>13

\* An access begins for the block that is to be fetched.
LEMMA IcacheInv == ASSUME IInv, Icache PROVE IInv'
<1> USE DEF IInv
<1>1. /\ stage = "icache" /\ stage' = "fetch"
      /\ UNCHANGED <<prev, pnext, buffer, window, ftq, bpred_delay, block, mistaken>>
      /\ IF fetch_delay = 0 /\ ftq # <<>>
         THEN /\ fetch_delay' \in ILats
              /\ looked_up' = ftq[1].path[1]
              /\ leftover' = FALSE
         ELSE /\ fetch_delay' = IF fetch_delay > 0 THEN fetch_delay - 1 ELSE 0
              /\ UNCHANGED <<looked_up, leftover>>
  BY DEF Icache
<1>2. fetch_delay \in 0..Max(ILats) /\ Max(ILats) \in Nat /\ fetch_delay \in Nat
  BY PipelineAssumption DEF Scalars
<1>3. fetch_delay' \in 0..Max(ILats)
  BY <1>1, <1>2, PipelineAssumption
<1>4. looked_up' \in Nat /\ leftover' \in BOOLEAN
  <2>1. ftq # <<>> => ftq[1].path[1] \in Nat
    <3> SUFFICES ASSUME ftq # <<>> PROVE ftq[1].path[1] \in Nat
      OBVIOUS
    <3>1. ftq[1] \in Request /\ Len(ftq[1].path) \in 1..MaxBB
      BY EmptySeq DEF Queues
    <3>2. ftq[1].path \in Seq(Nat) /\ 1 \in 1..Len(ftq[1].path)
      BY <3>1 DEF Request
    <3> QED
      BY <3>2
  <2> QED
    BY <1>1, <2>1 DEF Scalars
<1>5. Queues' /\ Scalars'
  BY <1>1, <1>3, <1>4 DEF Queues, Scalars
<1>6. Real' /\ Oldest' /\ Linked'
  <2>1. \A i : Ends(i)' = Ends(i)
    BY <1>1 DEF Ends
  <2> QED
    BY <1>1, <2>1, SamePaths
<1>7. Quiet' /\ Performed'
  BY <1>1 DEF Quiet, HasPrev, Performed
<1>8. Line'
  <2>1. CASE fetch_delay = 0 /\ ftq # <<>>
    BY <1>1, <2>1 DEF Line, FetchedLine
  <2>2. CASE fetch_delay = 0 /\ ftq = <<>>
    BY <1>1, <2>2 DEF Line, FetchedLine
  <2>3. CASE fetch_delay # 0
    <3>1. ~leftover => ftq # <<>> /\ looked_up = ftq[1].path[1]
      BY <1>2, <2>3 DEF Line
    <3> QED
      BY <1>1, <2>3, <3>1 DEF Line, FetchedLine
  <2> QED
    BY <2>1, <2>2, <2>3
<1> QED
  BY <1>5, <1>6, <1>7, <1>8

\* What is fetched goes from the path's one part to the other.
LEMMA FetchInv == ASSUME IInv, Fetch PROVE IInv'
<1> USE DEF IInv
<1>1. /\ stage = "fetch" /\ stage' = "predict"
      /\ UNCHANGED <<prev, pnext, buffer, bpred_delay, fetch_delay, block,
                     looked_up, leftover, mistaken>>
  BY DEF Fetch
<1>2. Scalars' /\ Real' /\ Quiet'
  <2>1. buffer # <<>>
    BY <1>1 DEF Quiet
  <2>2. Quiet'
    BY <1>1, <2>1 DEF Quiet, HasPrev
  <2>3. Real'
    BY <1>1 DEF Real, Insn, Ends
  <2>4. Scalars'
    BY <1>1 DEF Scalars
  <2> QED
    BY <2>2, <2>3, <2>4
<1>3. CASE ~CanFetch
  <2>1. window' = window /\ ftq' = ftq
    BY <1>3 DEF Fetch
  <2>2. Queues' /\ Performed'
    BY <1>1, <2>1 DEF Queues, Performed
  <2>3. Oldest' /\ Linked'
    <3>1. \A i : Ahead(i)' = Ahead(i) /\ Behind(i)' = Behind(i) /\ Insn(i)' = Insn(i)
      BY <1>1, <2>1 DEF Ahead, Behind, Insn
    <3> QED
      BY <1>1, <2>1, <3>1 DEF Oldest, Linked
  <2>4. Line'
    BY <1>1, <2>1 DEF Line, FetchedLine
  <2> QED
    BY <1>2, <2>2, <2>3, <2>4
<1>4. CASE CanFetch
  <2>1. PICK k \in 1..Min({FetchWidth, Len(ftq[1].path)}) :
          /\ window' = window \o Fetched(ftq[1], k)
          /\ ftq' = IF k = Len(ftq[1].path) THEN Tail(ftq)
                    ELSE [ftq EXCEPT ![1].path = SubSeq(@, k + 1, Len(@))]
    BY <1>4 DEF Fetch
  <2>2. /\ fetch_delay = 0 /\ ftq # <<>> /\ Len(window) + FetchWidth <= MaxWindow
        /\ window \in Seq(Slot) /\ Len(window) \in Nat /\ MaxWindow \in Nat
        /\ ftq \in Seq(Request) /\ Len(ftq) \in Nat /\ 1 \in 1..Len(ftq)
        /\ Len(ftq) <= MaxFtq /\ MaxFtq \in Nat /\ FetchWidth \in Nat
    BY <1>4, EmptySeq, PipelineAssumption DEF CanFetch, Queues
  <2>3. PICK bb \in Request : bb = ftq[1]
    BY <2>2
  <2>4. /\ bb.path \in Seq(Nat) /\ bb.next \in Nexts /\ bb.next \in Nat
        /\ Len(bb.path) \in 1..MaxBB /\ Len(bb.path) \in Nat /\ MaxBB \in Nat
    <3>1. bb.path \in Seq(Nat) /\ bb.next \in Nexts
      BY DEF Request
    <3>2. Nexts \subseteq Nat /\ MaxBB \in Nat
      BY PipelineAssumption
    <3>3. Len(bb.path) \in 1..MaxBB
      BY <2>2, <2>3 DEF Queues
    <3>4. bb.next \in Nat
      BY <3>1, <3>2, Zenon
    <3>5. Len(bb.path) \in Nat
      BY <3>2, <3>3
    <3> QED
      BY <3>1, <3>2, <3>3, <3>4, <3>5
  <2>5. k \in Nat /\ 1 <= k /\ k <= FetchWidth /\ k <= Len(bb.path)
    <3>1. PICK S : S = {FetchWidth, Len(bb.path)}
      OBVIOUS
    <3>2. S \in SUBSET Nat /\ S # {} /\ FetchWidth \in S /\ Len(bb.path) \in S
      BY <2>2, <2>4, <3>1
    <3>3. Min(S) \in Nat /\ Min(S) <= FetchWidth /\ Min(S) <= Len(bb.path)
      BY <3>2, MinIn
    <3>4. k \in 1..Min(S)
      BY <2>1, <2>3, <3>1
    <3> QED
      BY <2>2, <2>4, <3>3, <3>4
  <2>6. PICK new : new = Fetched(bb, k)
    OBVIOUS
  <2>7. \A i \in 1..k :
          /\ new[i].addr = bb.path[i] /\ ~new[i].ready
          /\ new[i].next = IF i < Len(bb.path) THEN bb.path[i + 1] ELSE bb.next
    BY <2>6 DEF Fetched
  <2>8. new \in Seq(Slot) /\ Len(new) = k
    <3>1. ASSUME NEW i \in 1..k PROVE new[i] \in Slot
      <4>1. bb.path[i] \in Nat /\ (i < Len(bb.path) => bb.path[i + 1] \in Nat)
        <5>1. \A j \in 1..Len(bb.path) : bb.path[j] \in Nat
          BY <2>4
        <5>2. i \in 1..Len(bb.path) /\ (i < Len(bb.path) => i + 1 \in 1..Len(bb.path))
          BY <2>4, <2>5
        <5> QED
          BY <5>1, <5>2
      <4>2. PICK x \in Nat : x = IF i < Len(bb.path) THEN bb.path[i + 1] ELSE bb.next
        BY <2>4, <4>1
      <4>3. new[i] = [addr |-> bb.path[i], ready |-> FALSE, delay |-> PipeStages, next |-> x]
        BY <2>6, <4>2 DEF Fetched
      <4> QED
        BY <4>1, <4>3, PipelineAssumption DEF Slot
    <3>2. new = [i \in 1..k |-> new[i]]
      BY <2>6 DEF Fetched
    <3> QED
      BY <2>5, <3>1, <3>2
  <2>9. /\ window' \in Seq(Slot) /\ Len(window') = Len(window) + k
        /\ \A i \in 1..Len(window) + k :
             window'[i] = IF i <= Len(window) THEN window[i] ELSE new[i - Len(window)]
    <3>1. window' = window \o new
      BY <2>1, <2>3, <2>6
    <3> QED
      BY <2>2, <2>8, <3>1, ConcatProperties
  <2>10. /\ \A i \in 1..Len(window) : window'[i] = window[i]
         /\ \A j \in 1..k : window'[Len(window) + j] = new[j]
    <3>1. \A j \in 1..k : /\ Len(window) + j \in 1..Len(window) + k
                          /\ ~(Len(window) + j <= Len(window))
                          /\ Len(window) + j - Len(window) = j
      BY <2>2, <2>5
    <3>2. \A i \in 1..Len(window) : i \in 1..Len(window) + k /\ i <= Len(window)
      BY <2>2, <2>5
    <3> QED
      BY <2>9, <3>1, <3>2
  <2>11. PICK rest : rest = IF k < Len(bb.path) THEN bb.path[k + 1] ELSE Behind(1)
    OBVIOUS
  <2>12. /\ ftq' \in Seq(Request) /\ Len(ftq') <= MaxFtq
         /\ \A i \in 1..Len(ftq') : Len(ftq'[i].path) \in 1..MaxBB
         /\ \A i \in 1..Len(ftq') : ftq'[i].next \in {0, Behind(i)'}
         /\ rest = IF ftq' # <<>> THEN ftq'[1].path[1] ELSE pnext'
    <3>1. CASE k = Len(bb.path)
      <4>1. /\ ftq' \in Seq(Request) /\ Len(ftq') = Len(ftq) - 1
            /\ \A i \in 1..Len(ftq) - 1 : ftq'[i] = ftq[i + 1]
        <5>1. ftq' = Tail(ftq)
          BY <2>1, <2>3, <3>1
        <5> QED
          BY <2>2, <5>1, HeadTailProperties
      <4>2. \A i \in 1..Len(ftq') : i \in 1..Len(ftq) - 1 /\ i + 1 \in 1..Len(ftq)
        BY <2>2, <4>1
      <4>3. \A i \in 1..Len(ftq') : Len(ftq'[i].path) \in 1..MaxBB
        BY <4>1, <4>2 DEF Queues
      <4>4. ASSUME NEW i \in 1..Len(ftq') PROVE ftq'[i].next \in {0, Behind(i)'}
        <5>1. Behind(i)' = Behind(i + 1)
          <6>1. CASE i < Len(ftq')
            <7>1. i + 1 \in 1..Len(ftq) - 1 /\ i + 1 < Len(ftq)
              BY <2>2, <4>1, <6>1
            <7> QED
              BY <4>1, <6>1, <7>1 DEF Behind
          <6>2. CASE ~(i < Len(ftq'))
            <7>1. ~(i + 1 < Len(ftq))
              BY <2>2, <4>1, <6>2
            <7> QED
              BY <1>1, <6>2, <7>1 DEF Behind
          <6> QED
            BY <6>1, <6>2
        <5> QED
          BY <4>1, <4>2, <5>1 DEF Linked
      <4>5. rest = Behind(1)
        BY <2>4, <2>11, <3>1
      <4>6. ASSUME ftq' # <<>> PROVE rest = ftq'[1].path[1]
        <5>1. 1 \in 1..Len(ftq) - 1 /\ 1 < Len(ftq)
          BY <2>2, <4>1, <4>6, EmptySeq
        <5>2. ftq'[1] = ftq[1 + 1]
          BY <4>1, <5>1
        <5>3. Behind(1) = ftq[1 + 1].path[1]
          BY <5>1 DEF Behind
        <5> QED
          BY <4>5, <4>6, <5>2, <5>3
      <4>7. ASSUME ftq' = <<>> PROVE rest = pnext'
        <5>1. ~(1 < Len(ftq))
          <6>1. Len(ftq') = 0
            BY <4>7
          <6>2. PICK l \in Nat : l = Len(ftq)
            BY <2>2
          <6>3. l - 1 = 0
            BY <4>1, <6>1, <6>2
          <6>4. ~(1 < l)
            BY <6>3
          <6> QED
            BY <6>2, <6>4
        <5>2. Behind(1) = pnext
          BY <5>1 DEF Behind
        <5> QED
          BY <1>1, <4>5, <4>7, <5>2
      <4>8. Len(ftq') <= MaxFtq
        BY <2>2, <4>1
      <4> QED
        BY <4>1, <4>3, <4>4, <4>6, <4>7, <4>8
    <3>2. CASE k # Len(bb.path)
      <4>1. k < Len(bb.path)
        BY <2>4, <2>5, <3>2
      <4>2. PICK path : path = SubSeq(bb.path, k + 1, Len(bb.path))
        OBVIOUS
      <4>3. path \in Seq(Nat) /\ Len(path) \in 1..MaxBB /\ path[1] = bb.path[k + 1]
        <5>1. \A i \in k + 1..Len(bb.path) : bb.path[i] \in Nat
          BY <2>4, <2>5
        <5>2. k + 1 \in Int /\ Len(bb.path) \in Int
          BY <2>4, <2>5
        <5>3. /\ path \in Seq(Nat)
              /\ Len(path) = IF k + 1 <= Len(bb.path) THEN Len(bb.path) - (k + 1) + 1 ELSE 0
              /\ \A i \in 1..Len(bb.path) - (k + 1) + 1 : path[i] = bb.path[k + 1 + i - 1]
          BY <4>2, <5>1, <5>2, SubSeqProperties
        <5>4. 1 \in 1..Len(bb.path) - (k + 1) + 1 /\ k + 1 + 1 - 1 = k + 1
          BY <2>4, <2>5, <4>1
        <5>5. Len(path) = Len(bb.path) - k
          BY <2>4, <2>5, <4>1, <5>3
        <5>6. path[1] = bb.path[k + 1 + 1 - 1]
          BY <5>3, <5>4
        <5> QED
          BY <2>4, <2>5, <4>1, <5>3, <5>4, <5>5, <5>6
      <4>4. PICK left : left = [bb EXCEPT !.path = path]
        OBVIOUS
      <4>5. left \in Request /\ left.path = path /\ left.next = bb.next
        BY <4>3, <4>4 DEF Request
      <4>6. ftq' = [ftq EXCEPT ![1] = left]
        BY <2>1, <2>2, <2>3, <3>2, <4>2, <4>4
      <4>7. /\ ftq' \in Seq(Request) /\ Len(ftq') = Len(ftq) /\ ftq'[1] = left
            /\ \A i \in 2..Len(ftq) : ftq'[i] = ftq[i]
        BY <2>2, <4>5, <4>6
      <4>8. \A i \in 1..Len(ftq) : ftq'[i].next = ftq[i].next
        <5>1. \A i \in 1..Len(ftq) : i = 1 \/ i \in 2..Len(ftq)
          BY <2>2
        <5> QED
          BY <2>3, <4>5, <4>7, <5>1
      <4>9. \A i \in 1..Len(ftq) : Len(ftq'[i].path) \in 1..MaxBB
        <5>1. \A i \in 1..Len(ftq) : i = 1 \/ i \in 2..Len(ftq)
          BY <2>2
        <5> QED
          BY <4>3, <4>5, <4>7, <5>1 DEF Queues
      <4>10. \A i \in 1..Len(ftq) : Behind(i)' = Behind(i)
        <5>1. \A i \in 1..Len(ftq) : i < Len(ftq) => i + 1 \in 2..Len(ftq)
          BY <2>2
        <5> QED
          BY <1>1, <4>7, <5>1 DEF Behind
      <4>11. rest = ftq'[1].path[1] /\ ftq' # <<>>
        BY <2>2, <2>11, <4>1, <4>3, <4>5, <4>7
      <4>12. Len(ftq') <= MaxFtq
        BY <2>2, <4>7
      <4> QED
        BY <4>7, <4>8, <4>9, <4>10, <4>11, <4>12 DEF Linked
    <3> QED
      BY <3>1, <3>2
  <2>13. Queues'
    <3>1. Len(window') <= MaxWindow
      BY <2>2, <2>5, <2>9
    <3> QED
      BY <1>1, <2>9, <2>12, <3>1 DEF Queues
  <2>14. PICK w \in Nat : w = Len(window)
    BY <2>2
  <2>15. /\ \A i \in 1..w : Ahead(i)' = Ahead(i)
         /\ \A j \in 1..k : Ahead(w + j)' = bb.path[j]
         /\ Ahead(w + k + 1)' = rest
         /\ Ahead(w + 1) = bb.path[1]
    <3>1. \A i \in 1..w : i <= w /\ i <= Len(window')
      BY <2>2, <2>14, <2>5, <2>9
    <3>2. \A j \in 1..k : w + j <= Len(window')
      BY <2>2, <2>14, <2>5, <2>9
    <3>3. ~(w + k + 1 <= Len(window')) /\ ~(w + 1 <= w)
      BY <2>2, <2>14, <2>5, <2>9
    <3>4. \A i \in 1..w : Ahead(i)' = Ahead(i)
      BY <2>10, <2>14, <3>1 DEF Ahead
    <3>5. \A j \in 1..k : Ahead(w + j)' = bb.path[j]
      <4> SUFFICES ASSUME NEW j \in 1..k PROVE Ahead(w + j)' = bb.path[j]
        OBVIOUS
      <4>1. Ahead(w + j)' = window'[w + j].addr
        BY <3>2 DEF Ahead
      <4>2. window'[w + j] = new[j]
        BY <2>10, <2>14
      <4> QED
        BY <2>7, <4>1, <4>2
    <3>6. Ahead(w + k + 1)' = rest
      BY <2>12, <3>3 DEF Ahead
    <3>7. Ahead(w + 1) = bb.path[1]
      BY <2>2, <2>14, <2>3, <3>3 DEF Ahead
    <3> QED
      BY <3>4, <3>5, <3>6, <3>7
  <2>16. Ahead(w + 1)' = Ahead(w + 1)
    <3>1. 1 \in 1..k
      BY <2>5
    <3> QED
      BY <2>15, <3>1
  <2>17. Oldest'
    <3>1. Ahead(1)' = Ahead(1)
      <4>1. 1 \in 1..w \/ w + 1 = 1
        BY <2>2, <2>14
      <4> QED
        BY <2>15, <2>16, <4>1
    <3> QED
      BY <1>1, <3>1 DEF Oldest, Insn
  <2>18. \A i \in 1..Len(window') : window'[i].next \in {0, Ahead(i + 1)'}
    <3>1. ASSUME NEW i \in 1..w PROVE window'[i].next \in {0, Ahead(i + 1)'}
      <4>1. i + 1 \in 1..w \/ i + 1 = w + 1
        BY <2>2, <2>14
      <4>2. Ahead(i + 1)' = Ahead(i + 1)
        BY <2>15, <2>16, <4>1
      <4> QED
        BY <2>10, <2>14, <4>2 DEF Linked
    <3>2. ASSUME NEW j \in 1..k
          PROVE  new[j].next \in {0, Ahead(w + j + 1)'}
      <4>1. CASE j < k
        <5>1. j + 1 \in 1..k /\ w + (j + 1) = w + j + 1
              /\ j < Len(bb.path)
          BY <2>2, <2>14, <2>4, <2>5, <4>1
        <5>2. Ahead(w + (j + 1))' = bb.path[j + 1]
          BY <2>15, <5>1
        <5> QED
          BY <2>7, <5>1, <5>2
      <4>2. CASE j = k
        <5>1. CASE k < Len(bb.path)
          BY <2>7, <2>11, <2>15, <4>2, <5>1
        <5>2. CASE ~(k < Len(bb.path))
          <6>1. new[j].next = bb.next
            BY <2>7, <4>2, <5>2
          <6>2. bb.next \in {0, rest}
            BY <2>2, <2>14, <2>3, <2>11, <5>2 DEF Linked
          <6> QED
            BY <2>15, <4>2, <6>1, <6>2
        <5> QED
          BY <5>1, <5>2
      <4> QED
        BY <2>5, <4>1, <4>2
    <3>3. \A i \in 1..Len(window') :
            i \in 1..w \/ \E j \in 1..k : i = w + j
      <4> SUFFICES ASSUME NEW i \in 1..Len(window'), i \notin 1..w
                   PROVE  \E j \in 1..k : i = w + j
        OBVIOUS
      <4>1. i - w \in 1..k /\ i = w + (i - w)
        BY <2>2, <2>14, <2>5, <2>9
      <4> QED
        BY <4>1
    <3> QED
      BY <2>10, <2>14, <3>1, <3>2, <3>3
  <2>19. Linked'
    BY <2>12, <2>18 DEF Linked
  <2>20. Performed'
    <3> SUFFICES ASSUME NEW i \in 1..Len(window'), window'[i].ready
                 PROVE  /\ i <= Len(buffer) /\ window'[i].addr = buffer[i].addr
                        /\ buffer[i].left = 0
      BY <1>1, <2>9 DEF Performed
    <3>1. CASE i \in 1..w
      <4>1. i \in DOMAIN window
        BY <2>2, <2>14, <3>1
      <4> QED
        BY <2>10, <2>14, <3>1, <4>1 DEF Performed
    <3>2. CASE i \notin 1..w
      <4>1. i - w \in 1..k /\ i = w + (i - w)
        BY <2>2, <2>14, <2>5, <2>9, <3>2
      <4>2. window'[i] = new[i - w]
        BY <2>10, <2>14, <4>1
      <4> QED
        BY <2>7, <4>1, <4>2
    <3> QED
      BY <3>1, <3>2
  <2>21. Line'
    BY <1>1, <2>2 DEF Line, FetchedLine
  <2> QED
    BY <1>2, <2>13, <2>17, <2>19, <2>20, <2>21
<1> QED
  BY <1>3, <1>4

\* What the prediction adds begins at the address it was to begin at.
LEMMA PredictInv == ASSUME IInv, Predict PROVE IInv'
<1> USE DEF IInv
<1>1. /\ stage = "predict" /\ window' = Later(1)
      /\ stage' = (IF Len(buffer) > Lookahead * CommitWidth THEN "dcache" ELSE "wait")
      /\ UNCHANGED <<prev, buffer, fetch_delay, block, looked_up, leftover, mistaken>>
  BY DEF Predict
<1>2. /\ window' \in Seq(Slot) /\ Len(window') = Len(window)
      /\ \A i \in 1..Len(window) :
           window'[i].addr = window[i].addr /\ window'[i].next = window[i].next
           /\ window'[i].ready = window[i].ready
  BY <1>1, LaterIs
<1>3. /\ buffer # <<>> /\ Len(buffer) \in Nat
      /\ ftq \in Seq(Request) /\ Len(ftq) \in Nat /\ Len(ftq) <= MaxFtq /\ MaxFtq \in Nat
      /\ bpred_delay \in 0..BpredLatency /\ BpredLatency \in Nat
      /\ Len(window) \in Nat
  BY <1>1, PipelineAssumption DEF Quiet, Queues, Scalars
<1>4. Real' /\ Performed'
  <2>1. DOMAIN window' = 1..Len(window) /\ DOMAIN window = 1..Len(window)
    BY <1>2 DEF Queues
  <2>2. Performed'
    BY <1>1, <1>2, <2>1 DEF Performed
  <2>3. Real'
    BY <1>1 DEF Real, Insn, Ends
  <2> QED
    BY <2>2, <2>3
<1>5. Quiet'
  <2>1. stage' = "dcache" => Len(buffer') > CommitWidth
    BY <1>1, <1>3, Batch, PipelineAssumption
  <2> QED
    BY <1>1, <1>3, <2>1 DEF Quiet, HasPrev
<1>6. CASE UNCHANGED <<ftq, pnext>> /\ bpred_delay' \in 0..BpredLatency
  <2>1. Queues' /\ Scalars'
    BY <1>1, <1>2, <1>6 DEF Queues, Scalars
  <2>2. Oldest' /\ Linked'
    <3>1. \A i : Ends(i)' = Ends(i)
      BY <1>1 DEF Ends
    <3> QED
      BY <1>1, <1>2, <1>6, <3>1, SamePaths
  <2>3. Line'
    BY <1>1, <1>6 DEF Line, FetchedLine
  <2> QED
    BY <1>4, <1>5, <2>1, <2>2, <2>3
<1>7. CASE Len(ftq) < MaxFtq /\
           \E request \in Prediction(pnext) :
             /\ ftq' = Append(ftq, request)
             /\ pnext' = request.next
             /\ bpred_delay' = BpredLatency
  <2>1. PICK request \in Prediction(pnext) :
          ftq' = Append(ftq, request) /\ pnext' = request.next
    BY <1>7
  <2>2. /\ request \in Request /\ Len(request.path) \in 1..MaxBB
        /\ request.path[1] = pnext /\ request.next \in Nexts
    <3>1. pnext \in Nat /\ MaxBB \in Nat
      <4>1. Nexts \union Addrs \union {0} \subseteq Nat
        BY PipelineAssumption
      <4>2. pnext \in Nexts \union Addrs \union {0}
        BY DEF Scalars
      <4> QED
        BY <4>1, <4>2, PipelineAssumption
    <3>2. PICK path \in Paths(pnext), succ \in Nexts :
            request = [path |-> path, next |-> succ]
      BY <2>1 DEF Prediction
    <3>3. PICK top : top = pnext + MaxBB * Max(PredSizes)
      OBVIOUS
    <3>4. path[1] = pnext /\ \E n \in 1..MaxBB : path \in [1..n -> pnext..top]
      BY <3>3 DEF Paths
    <3>5. PICK n \in 1..MaxBB : path \in [1..n -> pnext..top]
      BY <3>4
    <3>6. \A i \in 1..n : path[i] \in Nat
      <4>1. \A i \in 1..n : path[i] \in pnext..top
        BY <3>5
      <4>2. \A x \in pnext..top : x \in Nat
        BY <3>1
      <4> QED
        BY <4>1, <4>2
    <3>7. path \in Seq(Nat) /\ Len(path) = n
      <4>1. n \in Nat /\ path = [i \in 1..n |-> path[i]]
        BY <3>1, <3>5
      <4> QED
        BY <3>6, <4>1
    <3> QED
      BY <3>2, <3>4, <3>5, <3>7 DEF Request
  <2>3. /\ ftq' \in Seq(Request) /\ Len(ftq') = Len(ftq) + 1
        /\ \A i \in 1..Len(ftq) : ftq'[i] = ftq[i]
        /\ ftq'[Len(ftq) + 1] = request /\ ftq' # <<>>
    BY <1>3, <2>1, <2>2, AppendProperties
  <2>4. Queues'
    <3>1. \A i \in 1..Len(ftq') : Len(ftq'[i].path) \in 1..MaxBB
      <4>1. \A i \in 1..Len(ftq') : i \in 1..Len(ftq) \/ i = Len(ftq) + 1
        BY <1>3, <2>3
      <4> QED
        BY <2>2, <2>3, <4>1 DEF Queues
    <3>2. Len(ftq') <= MaxFtq
      BY <1>3, <1>7, <2>3
    <3> QED
      BY <1>1, <1>2, <2>3, <3>1, <3>2 DEF Queues
  <2>5. Scalars'
    <3>1. bpred_delay' \in 0..BpredLatency
      BY <1>3, <1>7
    <3> QED
      BY <1>1, <2>1, <2>2, <3>1 DEF Scalars
  <2>6. ftq' # <<>> /\ ftq'[1].path[1] = IF ftq # <<>> THEN ftq[1].path[1] ELSE pnext
    <3>1. CASE ftq = <<>>
      <4>1. Len(ftq) + 1 = 1
        BY <3>1
      <4>2. ftq'[1] = request
        BY <2>3, <4>1
      <4> QED
        BY <2>2, <2>3, <3>1, <4>2
    <3>2. CASE ftq # <<>>
      <4>1. 1 \in 1..Len(ftq) /\ Len(ftq') # 0
        BY <1>3, <2>3, <3>2, EmptySeq
      <4> QED
        BY <2>3, <3>2, <4>1
    <3> QED
      BY <3>1, <3>2
  <2>7. \A i \in Nat \ {0} : Ahead(i)' = Ahead(i)
    <3> SUFFICES ASSUME NEW i \in Nat \ {0} PROVE Ahead(i)' = Ahead(i)
      OBVIOUS
    <3>1. CASE i <= Len(window)
      <4>1. i \in 1..Len(window)
        BY <1>3, <3>1
      <4> QED
        BY <1>2, <3>1, <4>1 DEF Ahead
    <3>2. CASE ~(i <= Len(window))
      BY <1>2, <2>6, <3>2 DEF Ahead
    <3> QED
      BY <3>1, <3>2
  <2>8. Oldest'
    <3>1. Ahead(1)' = Ahead(1) /\ Insn(1)' = Insn(1)
      BY <1>1, <2>7 DEF Insn
    <3> QED
      BY <1>1, <3>1 DEF Oldest
  <2>9. \A i \in 1..Len(ftq') : ftq'[i].next \in {0, Behind(i)'}
    <3>1. ASSUME NEW i \in 1..Len(ftq) PROVE ftq'[i].next \in {0, Behind(i)'}
      <4>1. Behind(i)' = Behind(i)
        <5>1. i + 1 \in 1..Len(ftq) \/ i + 1 = Len(ftq) + 1
          BY <1>3
        <5>2. i < Len(ftq')
          BY <1>3, <2>3
        <5>3. Behind(i)' = ftq'[i + 1].path[1]
          BY <5>2 DEF Behind
        <5>4. CASE i < Len(ftq)
          <6>1. i + 1 \in 1..Len(ftq)
            BY <1>3, <5>4
          <6> QED
            BY <2>3, <5>3, <5>4, <6>1 DEF Behind
        <5>5. CASE ~(i < Len(ftq))
          <6>1. i + 1 = Len(ftq) + 1
            BY <1>3, <5>5
          <6> QED
            BY <2>2, <2>3, <5>3, <5>5, <6>1 DEF Behind
        <5> QED
          BY <5>4, <5>5
      <4> QED
        BY <2>3, <4>1 DEF Linked
    <3>2. ASSUME NEW i \in 1..Len(ftq'), i = Len(ftq) + 1
          PROVE  ftq'[i].next \in {0, Behind(i)'}
      <4>1. ~(i < Len(ftq'))
        BY <1>3, <2>3, <3>2
      <4>2. Behind(i)' = pnext'
        BY <4>1 DEF Behind
      <4> QED
        BY <2>1, <2>3, <3>2, <4>2
    <3>3. \A i \in 1..Len(ftq') : i \in 1..Len(ftq) \/ i = Len(ftq) + 1
      BY <1>3, <2>3
    <3> QED
      BY <3>1, <3>2, <3>3
  <2>10. Linked'
    <3>1. \A i \in 1..Len(window') : window'[i].next \in {0, Ahead(i + 1)'}
      <4> SUFFICES ASSUME NEW i \in 1..Len(window)
                   PROVE  window'[i].next \in {0, Ahead(i + 1)'}
        BY <1>2
      <4>1. Ahead(i + 1)' = Ahead(i + 1)
        BY <2>7
      <4> QED
        BY <1>2, <4>1 DEF Linked
    <3> QED
      BY <2>9, <3>1 DEF Linked
  <2>11. Line'
    BY <1>1, <2>6 DEF Line, FetchedLine
  <2> QED
    BY <1>4, <1>5, <2>4, <2>5, <2>8, <2>10, <2>11
<1> QED
  <2>1. bpred_delay > 0 => bpred_delay - 1 \in 0..BpredLatency
    BY <1>3
  <2>2. ~(Len(ftq) >= MaxFtq) => Len(ftq) < MaxFtq
    BY <1>3
  <2> QED
    BY <1>3, <1>6, <1>7, <2>1, <2>2 DEF Predict

-----------------------------------------------------------------------------
\* Every step

LEMMA NextInv == ASSUME IInv, [Next]_vars PROVE IInv'
<1>1. CASE \E a \in Addrs, c \in BOOLEAN, m \in Mems :
             Simulate([addr |-> a, control |-> c, mems |-> m])
  <2>1. PICK a \in Addrs, c \in BOOLEAN, m \in Mems :
          Simulate([addr |-> a, control |-> c, mems |-> m])
    BY <1>1
  <2>2. [addr |-> a, control |-> c, mems |-> m] \in [addr : Addrs, control : BOOLEAN, mems : Mems]
    OBVIOUS
  <2> QED
    BY <2>1, <2>2, SimulateInv
<1>2. CASE Idle(1) \/ EndSimulation
  BY <1>2, IdleInv, EndSimulationInv
<1>3. CASE Cycle
  BY <1>3, DcacheInv, CommitInv, IcacheInv, FetchInv, PredictInv DEF Cycle
<1>4. CASE UNCHANGED vars
  <2> USE <1>4 DEF vars, pipe
  <2>1. Queues' /\ Scalars' /\ Quiet' /\ Performed'
    BY DEF IInv, Queues, Scalars, Quiet, HasPrev, Performed
  <2>2. Real' /\ Oldest' /\ Linked' /\ Line'
    BY DEF IInv, Real, Insn, Ends, Oldest, Ahead, Linked, Behind, Line, FetchedLine
  <2> QED
    BY <2>1, <2>2 DEF IInv
<1> QED
  BY <1>1, <1>2, <1>3, <1>4 DEF Next

\* The paths of the prediction and of the program begin together, and each
\* goes on as its own instructions say.
THEOREM Invariance == Spec => []IInv
<1>1. Init => IInv
  BY InitInv
<1>2. IInv /\ [Next]_vars => IInv'
  BY NextInv
<1> QED
  BY <1>1, <1>2, PTL DEF Spec

\* An instruction of the window whose predecessors were predicted right is the
\* one of the buffer at its place, and sim_commit takes no more than the buffer
\* has (timer1.cpp:661).
THEOREM PathFollowed == Spec => []OnPath
<1>1. IInv => OnPath
  <2> SUFFICES ASSUME IInv PROVE OnPath
    OBVIOUS
  <2> USE DEF IInv
  <2>1. TypeOK
    BY Typed
  <2>2. Len(buffer) \in Nat /\ Len(window) \in Nat /\ Len(Program) = Len(buffer) + 1
        /\ \A i \in 1..Len(buffer) + 1 : Program[i] = Insn(i)
    BY ProgramAt DEF Queues
  <2>3. ASSUME HasPrev, pnext # 0 PROVE Ahead(1) = Program[1]
    <3>1. buffer # <<>>
      BY <2>3 DEF Quiet
    <3>2. 1 \in 1..Len(buffer) + 1
      BY <2>2
    <3> QED
      BY <2>2, <3>1, <3>2 DEF Oldest
  <2>4. ASSUME NEW i \in 1..Len(window), i < Len(Program), \A j \in 1..i : Predicted(j)
        PROVE  Ahead(i + 1) = Program[i + 1]
    <3>1. i \in 1..Len(buffer) /\ i + 1 \in 1..Len(buffer) + 1 /\ i \in 1..i
      BY <2>2, <2>4
    <3>2. window[i].next = buffer[i].next /\ buffer[i].next = Insn(i + 1)
      BY <2>4, <3>1 DEF Predicted, Real
    <3>3. buffer[i].next # 0
      <4>1. buffer[i] \in Entry
        BY <3>1 DEF Queues
      <4> QED
        BY <4>1, PipelineAssumption DEF Entry
    <3>4. window[i].next = Ahead(i + 1)
      BY <3>2, <3>3 DEF Linked
    <3> QED
      BY <2>2, <3>1, <3>2, <3>4
  <2>5. Committed <= Len(buffer)
    BY CommittedIs
  <2> QED
    BY <2>1, <2>3, <2>4, <2>5 DEF OnPath
<1> QED
  BY <1>1, Invariance, PTL

\* The accesses of a ready instruction are those of the real one at its place,
\* and all of them are made, across squashes (timer1.cpp:611).
THEOREM AccessesPerformed == Spec => []Performed
<1>1. IInv => Performed
  BY DEF IInv
<1> QED
  BY <1>1, Invariance, PTL

\* But for the first fetch after a squash in the midst of an access, what is
\* fetched was asked of the icache (timer1.cpp:503).
THEOREM LineFetched == Spec => []FetchedLine
<1>1. IInv => FetchedLine
  BY DEF IInv, Line
<1> QED
  BY <1>1, Invariance, PTL

\* The BTB is trained with blocks that end where the next instruction begins,
\* however often the window was squashed (timer1.cpp:359, :686).
THEOREM BlockKept == Spec => []BlockIntact
<1>1. IInv => BlockIntact
  <2> SUFFICES ASSUME IInv, HasPrev, pnext # 0, ~mistaken
               PROVE  block.addr + block.bytes = Program[1]
    BY DEF BlockIntact
  <2>1. buffer # <<>>
    BY DEF IInv, Quiet
  <2>2. Program[1] = Insn(1)
    <3>1. Len(buffer) \in Nat
      BY DEF IInv, Queues
    <3>2. 1 \in 1..Len(buffer) + 1
      BY <3>1
    <3> QED
      BY <3>2, ProgramAt DEF IInv
  <2> QED
    BY <2>1, <2>2 DEF IInv, Oldest
<1> QED
  BY <1>1, Invariance, PTL

-----------------------------------------------------------------------------
\* The timer bandwidth

Waiting == [id : Nat, addr : Nat, loads : Nat, stores : Nat]
Placed == [id : Nat, addr : Nat, loads : Nat, stores : Nat, executed : BOOLEAN,
           finish_cycle : Nat]

Holds ==
  /\ q \in Seq(Waiting) /\ next \in Waiting /\ insns \in Seq(Placed)
  /\ given \in Nat /\ retired \in Nat /\ ports \in Nat /\ cycles \in Nat

\* between the queue and the buffer
Between == IF next = B!None THEN 0 ELSE 1

\* Instructions are numbered in the order of the program: the number of each
\* says where it is.
Numbered ==
  /\ given = retired + Len(insns) + Between + Len(q)
  /\ \A i \in 1..Len(insns) : insns[i].id = retired + i
  /\ next # B!None => next.id = retired + Len(insns) + 1
  /\ \A i \in 1..Len(q) : q[i].id = retired + Len(insns) + Between + i

\* Instructions are executed in order: those before the c-th.
ExecutedTo(c) ==
  /\ \A i \in 1..Len(insns) : insns[i].executed <=> i < c
  /\ non_executed_ = IF c <= Len(insns) THEN retired + c ELSE 0

BandwidthInv == Holds /\ Numbered /\ \E c \in 1..Len(insns) + 1 : ExecutedTo(c)

LEMMA SameMin ==
  ASSUME NEW S PROVE B!Min(S) = Min(S) /\ B!Max(S) = Max(S)
BY DEF B!Min, Min, B!Max, Max

\* the lesser of two
LEMMA MinOfTwo ==
  ASSUME NEW a \in Nat, NEW b \in Nat
  PROVE  B!Min({a, b}) \in Nat /\ B!Min({a, b}) <= a /\ B!Min({a, b}) <= b
<1>1. {a, b} \in SUBSET Nat /\ {a, b} # {} /\ a \in {a, b} /\ b \in {a, b}
  OBVIOUS
<1>2. PICK S : S = {a, b}
  OBVIOUS
<1> QED
  BY <1>1, <1>2, MinIn, SameMin

LEMMA MaxOfTwo ==
  ASSUME NEW a \in Nat, NEW b \in Nat
  PROVE  B!Max({a, b}) \in Nat
<1>1. PICK S : S = {a, b}
  OBVIOUS
<1>2. S # {} /\ S \subseteq 0..a + b /\ a + b \in Nat
  BY <1>1
<1>3. Max(S) \in S
  BY <1>2, MaxIn
<1> QED
  BY <1>1, <1>3, SameMin

LEMMA BandwidthInitInv == B!Init => BandwidthInv
<1> SUFFICES ASSUME B!Init PROVE BandwidthInv
  OBVIOUS
<1> USE DEF B!Init, B!None
<1>1. Holds
  BY DEF Holds, Waiting
<1>2. Numbered
  BY DEF Numbered, Between
<1>3. ExecutedTo(1)
  BY DEF ExecutedTo
<1> QED
  BY <1>1, <1>2, <1>3 DEF BandwidthInv

\* None has no number.
LEMMA HasNumber ==
  ASSUME Holds, Numbered
  PROVE  /\ Len(q) \in Nat /\ Len(insns) \in Nat /\ Between \in {0, 1}
         /\ \A i \in 1..Len(q) : q[i] \in Waiting /\ q[i] # B!None
<1>1. q \in Seq(Waiting) /\ insns \in Seq(Placed) /\ retired \in Nat
  BY DEF Holds
<1>2. Len(q) \in Nat /\ Len(insns) \in Nat /\ Between \in {0, 1}
  BY <1>1 DEF Between
<1>3. \A i \in 1..Len(q) : q[i].id > 0
  BY <1>1, <1>2 DEF Numbered
<1> QED
  BY <1>1, <1>2, <1>3 DEF B!None

LEMMA BandwidthSimulateInv ==
  ASSUME BandwidthInv, NEW inst \in Waiting, inst.id = given + 1, B!Simulate(inst)
  PROVE  BandwidthInv'
<1> USE DEF BandwidthInv
<1>1. /\ q' = Append(q, inst) /\ given' = given + 1
      /\ UNCHANGED <<insns, non_executed_, next, retired, ports, cycles>>
  BY DEF B!Simulate, B!WaitingAdd, B!reorder, B!fetch
<1>2. /\ q' \in Seq(Waiting) /\ Len(q') = Len(q) + 1 /\ q'[Len(q) + 1] = inst
      /\ \A i \in 1..Len(q) : q'[i] = q[i]
  BY <1>1, AppendProperties DEF Holds
<1>3. Holds'
  BY <1>1, <1>2 DEF Holds
<1>4. Between' = Between /\ Len(q) \in Nat /\ Len(insns) \in Nat /\ Between \in Nat
      /\ retired \in Nat /\ given \in Nat
  BY <1>1, HasNumber DEF Between, Holds
<1>5. Numbered'
  <2>1. given' = retired + Len(insns) + Between + Len(q')
    BY <1>1, <1>2, <1>4 DEF Numbered
  <2>2. ASSUME NEW i \in 1..Len(q')
        PROVE  q'[i].id = retired + Len(insns) + Between + i
    <3>1. i \in 1..Len(q) \/ i = Len(q) + 1
      BY <1>2, <1>4
    <3>2. CASE i \in 1..Len(q)
      BY <1>2, <3>2 DEF Numbered
    <3>3. CASE i = Len(q) + 1
      BY <1>2, <1>4, <3>3 DEF Numbered
    <3> QED
      BY <3>1, <3>2, <3>3
  <2> QED
    BY <1>1, <1>4, <2>1, <2>2 DEF Numbered
<1>6. \E c \in 1..Len(insns') + 1 : ExecutedTo(c)'
  BY <1>1 DEF ExecutedTo
<1> QED
  BY <1>3, <1>5, <1>6

\* What does not touch the instructions.
LEMMA SameInstructions ==
  ASSUME BandwidthInv, UNCHANGED <<q, next, insns, non_executed_, given, retired>>,
         ports' \in Nat, cycles' \in Nat
  PROVE  BandwidthInv'
<1>1. Holds' /\ Numbered'
  BY DEF BandwidthInv, Holds, Numbered, Between
<1>2. \E c \in 1..Len(insns') + 1 : ExecutedTo(c)'
  BY DEF BandwidthInv, ExecutedTo
<1> QED
  BY <1>1, <1>2 DEF BandwidthInv

\* A sample that ends leaves nothing behind.
LEMMA BandwidthSetStateInv ==
  ASSUME BandwidthInv, NEW new, B!SetState(new)
  PROVE  BandwidthInv'
<1>1. ports' \in Nat /\ cycles' \in Nat
  BY DEF BandwidthInv, Holds, B!SetState
<1>2. CASE B!EndSimulation
  <2>1. /\ q' = <<>> /\ insns' = <<>> /\ non_executed_' = 0 /\ next' = B!None
        /\ retired' = given /\ given' = given /\ given \in Nat
    BY <1>2 DEF B!EndSimulation, B!SetState, BandwidthInv, Holds
  <2>2. Holds'
    BY <1>1, <2>1 DEF Holds, B!None, Waiting
  <2>3. Numbered'
    BY <2>1 DEF Numbered, Between
  <2>4. ExecutedTo(1)' /\ 1 \in 1..Len(insns') + 1
    BY <2>1 DEF ExecutedTo
  <2> QED
    BY <2>2, <2>3, <2>4 DEF BandwidthInv
<1>3. CASE UNCHANGED <<B!waiting, B!reorder, B!fetch, retired>>
  <2>1. UNCHANGED <<q, next, insns, non_executed_, given, retired>>
    BY <1>3 DEF B!SetState, B!waiting, B!reorder, B!fetch
  <2> QED
    BY <1>1, <2>1, SameInstructions
<1> QED
  BY <1>2, <1>3 DEF B!SetState

\* Only executed instructions are committed: the iterator is not at one of them.
LEMMA BandwidthCommitInv == ASSUME BandwidthInv, B!Commit PROVE BandwidthInv'
<1> USE DEF BandwidthInv
<1>1. PICK c \in 1..Len(insns) + 1 : ExecutedTo(c)
  OBVIOUS
<1>2. PICK n : n = B!Max({k \in 0..Len(insns) : \A i \in 1..k : B!CanCommit(insns[i])})
  OBVIOUS
<1>3. /\ insns' = SubSeq(insns, n + 1, Len(insns)) /\ retired' = retired + n
      /\ UNCHANGED <<q, next, non_executed_, given, ports, cycles>>
  BY <1>2 DEF B!Commit, B!waiting, B!fetch
<1>4. /\ insns \in Seq(Placed) /\ Len(insns) \in Nat /\ retired \in Nat /\ c \in Nat
      /\ \A i \in 1..Len(insns) : insns[i] \in Placed
  BY DEF Holds
<1>5. n \in 0..Len(insns) /\ \A i \in 1..n : B!CanCommit(insns[i])
  <2>1. PICK T : T = {k \in 0..Len(insns) : \A i \in 1..k : B!CanCommit(insns[i])}
    OBVIOUS
  <2>2. T # {} /\ T \subseteq 0..Len(insns)
    <3>1. 0 \in T
      BY <1>4, <2>1
    <3> QED
      BY <2>1, <3>1
  <2>3. Max(T) \in T
    BY <1>4, <2>2, MaxIn
  <2>4. n = Max(T)
    BY <1>2, <2>1, SameMin
  <2> QED
    BY <2>1, <2>3, <2>4
<1>6. n \in Nat /\ n < c
  <2> SUFFICES ASSUME ~(n < c) PROVE FALSE
    BY <1>4, <1>5
  <2>1. c \in 1..n /\ c \in 1..Len(insns)
    BY <1>4, <1>5
  <2>2. insns[c].executed
    BY <1>5, <2>1 DEF B!CanCommit
  <2>3. insns[c].executed <=> c < c
    BY <1>1, <2>1 DEF ExecutedTo
  <2> QED
    BY <1>4, <2>2, <2>3
<1>7. /\ insns' \in Seq(Placed) /\ Len(insns') = Len(insns) - n
      /\ \A i \in 1..Len(insns) - n : insns'[i] = insns[n + i]
  <2>1. \A i \in n + 1..Len(insns) : insns[i] \in Placed
    BY <1>4, <1>5
  <2>2. /\ insns' \in Seq(Placed)
        /\ Len(insns') = IF n + 1 <= Len(insns) THEN Len(insns) - (n + 1) + 1 ELSE 0
        /\ \A i \in 1..Len(insns) - (n + 1) + 1 : insns'[i] = insns[n + 1 + i - 1]
    <3>1. n + 1 \in Int /\ Len(insns) \in Int
      BY <1>4, <1>5
    <3> QED
      BY <1>3, <2>1, <3>1, SubSeqProperties
  <2>3. /\ Len(insns) - (n + 1) + 1 = Len(insns) - n
        /\ ~(n + 1 <= Len(insns)) => Len(insns) - n = 0
    BY <1>4, <1>5
  <2>4. \A i \in 1..Len(insns) - n : n + 1 + i - 1 = n + i
    BY <1>4, <1>5
  <2> QED
    BY <2>2, <2>3, <2>4
<1>8. Holds'
  BY <1>3, <1>4, <1>6, <1>7 DEF Holds
<1>9. Numbered'
  <2>1. Between' = Between /\ Between \in Nat /\ Len(q) \in Nat
    BY <1>3, HasNumber DEF Between
  <2>2. retired' + Len(insns') = retired + Len(insns)
    BY <1>3, <1>4, <1>5, <1>7
  <2>3. \A i \in 1..Len(insns') : insns'[i].id = retired' + i
    <3>1. \A i \in 1..Len(insns') :
            /\ i \in 1..Len(insns) - n /\ n + i \in 1..Len(insns)
            /\ retired + (n + i) = retired' + i
      BY <1>3, <1>4, <1>5, <1>7
    <3> QED
      BY <1>7, <3>1 DEF Numbered
  <2> QED
    BY <1>3, <2>1, <2>2, <2>3 DEF Numbered
<1>10. ExecutedTo(c - n)' /\ c - n \in 1..Len(insns') + 1
  <2>1. c - n \in 1..Len(insns') + 1
    BY <1>4, <1>6, <1>7
  <2>2. \A i \in 1..Len(insns') : insns'[i].executed <=> i < c - n
    <3>1. \A i \in 1..Len(insns') :
            /\ i \in 1..Len(insns) - n /\ n + i \in 1..Len(insns)
            /\ n + i < c <=> i < c - n
      BY <1>4, <1>5, <1>7
    <3> QED
      BY <1>1, <1>7, <3>1 DEF ExecutedTo
  <2>3. non_executed_' = IF c - n <= Len(insns') THEN retired' + (c - n) ELSE 0
    <3>1. (c - n <= Len(insns') <=> c <= Len(insns)) /\ retired' + (c - n) = retired + c
      BY <1>3, <1>4, <1>5, <1>7
    <3> QED
      BY <1>1, <1>3, <3>1 DEF ExecutedTo
  <2>4. PICK d : d = c - n
    OBVIOUS
  <2> QED
    BY <2>1, <2>2, <2>3 DEF ExecutedTo
<1> QED
  BY <1>8, <1>9, <1>10

\* The iterator is there already.
LEMMA BandwidthBeginMemoryInv == ASSUME BandwidthInv, B!BeginMemory PROVE BandwidthInv'
<1> USE DEF BandwidthInv
<1>1. PICK c \in 1..Len(insns) + 1 : ExecutedTo(c)
  OBVIOUS
<1>2. PICK i : i = B!SelectInSeq(insns, LAMBDA e : ~e.executed)
  OBVIOUS
<1>3. /\ non_executed_' = IF non_executed_ # 0 \/ i = 0 THEN non_executed_ ELSE insns[i].id
      /\ UNCHANGED <<q, next, insns, given, retired, cycles>> /\ ports' = Ports
  BY <1>2 DEF B!BeginMemory, B!waiting, B!fetch, B!counts
<1>4. non_executed_ = 0 => i = 0
  <2> SUFFICES ASSUME non_executed_ = 0 PROVE i = 0
    OBVIOUS
  <2>1. Len(insns) \in Nat /\ retired \in Nat /\ c \in Nat
    BY DEF Holds
  <2>2. ~(c <= Len(insns))
    BY <1>1, <2>1 DEF ExecutedTo
  <2>3. \A j \in 1..Len(insns) : insns[j].executed <=> j < c
    BY <1>1 DEF ExecutedTo
  <2>4. \A j \in 1..Len(insns) : insns[j].executed
    BY <2>1, <2>2, <2>3
  <2> QED
    BY <1>2, <2>4 DEF B!SelectInSeq
<1>5. Ports \in Nat
  BY CpuTimersAssumption DEF B!BandwidthAssumption
<1> QED
  BY <1>3, <1>4, <1>5, SameInstructions DEF Holds

\* The iterator finds its instruction.
LEMMA NonIs ==
  ASSUME Holds, Numbered, NEW c \in 1..Len(insns), non_executed_ = retired + c
  PROVE  B!Non = c
<1>1. PICK S : S = {i \in 1..Len(insns) : insns[i].id = non_executed_}
  OBVIOUS
<1>2. S = {c}
  <2>1. retired \in Nat /\ Len(insns) \in Nat
    BY DEF Holds
  <2>2. \A i \in 1..Len(insns) : insns[i].id = non_executed_ <=> i = c
    BY <2>1 DEF Numbered
  <2> QED
    BY <1>1, <2>2
<1>3. B!Min(S) = c
  <2>1. S \in SUBSET Nat /\ S # {}
    BY <1>2 DEF Holds
  <2>2. Min(S) \in S
    BY <2>1, MinIn
  <2> QED
    BY <1>2, <2>2, SameMin
<1> QED
  BY <1>1, <1>2, <1>3 DEF B!Non, B!SelectInSeq

\* The instruction at the iterator makes accesses; when all are made the
\* iterator goes on to the next, which has made none.
LEMMA BandwidthMemoryInv == ASSUME BandwidthInv, B!Memory PROVE BandwidthInv'
<1> USE DEF BandwidthInv
<1>1. PICK c \in 1..Len(insns) + 1 : ExecutedTo(c)
  OBVIOUS
<1>2. /\ insns \in Seq(Placed) /\ Len(insns) \in Nat /\ retired \in Nat /\ c \in Nat
      /\ ports \in Nat /\ cycles \in Nat
      /\ \A i \in 1..Len(insns) : insns[i] \in Placed
  BY DEF Holds
<1>3. c \in 1..Len(insns) /\ non_executed_ = retired + c
  BY <1>1, <1>2 DEF ExecutedTo, B!Memory, B!MemoryGoesOn
<1>4. B!Non = c
  BY <1>3, NonIs
<1>5. PICK inst \in Placed : inst = insns[c]
  BY <1>2, <1>3
<1>6. PICK l : l = B!Min({ports, inst.loads})
  OBVIOUS
<1>7. l \in Nat /\ l <= ports /\ l <= inst.loads
  BY <1>2, <1>6, MinOfTwo DEF Placed
<1>8. PICK s : s = B!Min({ports - l, inst.stores})
  OBVIOUS
<1>9. s \in Nat /\ s <= ports - l /\ s <= inst.stores
  <2>1. ports - l \in Nat /\ inst.stores \in Nat
    BY <1>2, <1>7 DEF Placed
  <2> QED
    BY <1>8, <2>1, MinOfTwo
<1>10. PICK done \in BOOLEAN : done = (l = inst.loads /\ s = inst.stores)
  OBVIOUS
<1>11. /\ ports' = ports - l - s
       /\ non_executed_' = IF ~done THEN non_executed_
                           ELSE IF c = Len(insns) THEN 0 ELSE insns[c + 1].id
       /\ UNCHANGED <<q, next, given, retired, cycles>>
  BY <1>4, <1>5, <1>6, <1>8, <1>10 DEF B!Memory, B!waiting, B!fetch, B!counts
<1>12. PICK lat \in Nat : insns' = [insns EXCEPT ![c] = B!Accessed(inst, l, s, lat)]
  <2>1. PICK lat \in IF l > 0 THEN DLats ELSE {0} :
          insns' = [insns EXCEPT ![c] = B!Accessed(inst, l, s, lat)]
    BY <1>4, <1>5, <1>6, <1>8 DEF B!Memory
  <2>2. DLats \subseteq Nat
    BY CpuTimersAssumption DEF B!BandwidthAssumption
  <2> QED
    BY <2>1, <2>2
<1>13. PICK new : new = B!Accessed(inst, l, s, lat)
  OBVIOUS
<1>14. new \in Placed /\ new.id = inst.id /\ new.executed = done
  <2>1. PICK fin \in Nat : fin = IF l > 0 THEN B!Max({inst.finish_cycle, cycles + lat})
                                 ELSE inst.finish_cycle
    <3>1. inst.finish_cycle \in Nat /\ cycles + lat \in Nat
      BY <1>2 DEF Placed
    <3> QED
      BY <3>1, MaxOfTwo
  <2>2. PICK loads \in Nat, stores \in Nat : loads = inst.loads - l /\ stores = inst.stores - s
    BY <1>7, <1>9 DEF Placed
  <2>3. new = [inst EXCEPT !.loads = loads, !.stores = stores, !.finish_cycle = fin,
                           !.executed = done]
    BY <1>10, <1>13, <2>1, <2>2 DEF B!Accessed
  <2> QED
    BY <2>3 DEF Placed
<1>15. /\ insns' \in Seq(Placed) /\ Len(insns') = Len(insns) /\ insns'[c] = new
       /\ \A i \in 1..Len(insns) : i # c => insns'[i] = insns[i]
  BY <1>2, <1>3, <1>12, <1>13, <1>14
<1>16. Holds'
  BY <1>2, <1>7, <1>9, <1>11, <1>15 DEF Holds
<1>17. Numbered'
  <2>1. \A i \in 1..Len(insns) : insns'[i].id = insns[i].id
    BY <1>5, <1>14, <1>15
  <2>2. Between' = Between
    BY <1>11 DEF Between
  <2> QED
    BY <1>11, <1>15, <2>1, <2>2 DEF Numbered
<1>18. CASE ~done
  <2>1. \A i \in 1..Len(insns) : insns'[i].executed <=> i < c
    <3>1. \A i \in 1..Len(insns) : insns[i].executed <=> i < c
      BY <1>1 DEF ExecutedTo
    <3>2. ~(c < c) /\ new.executed = FALSE
      BY <1>2, <1>14, <1>18
    <3> QED
      BY <1>15, <3>1, <3>2
  <2>2. ExecutedTo(c)'
    BY <1>1, <1>11, <1>15, <1>18, <2>1 DEF ExecutedTo
  <2> QED
    BY <1>15, <1>16, <1>17, <2>2
<1>19. CASE done
  <2>1. \A i \in 1..Len(insns) : insns'[i].executed <=> i < c + 1
    <3>1. \A i \in 1..Len(insns) : insns[i].executed <=> i < c
      BY <1>1 DEF ExecutedTo
    <3>2. \A i \in 1..Len(insns) : i # c => (i < c <=> i < c + 1)
      BY <1>2
    <3>3. c < c + 1 /\ new.executed = TRUE
      BY <1>2, <1>14, <1>19
    <3> QED
      BY <1>15, <3>1, <3>2, <3>3
  <2>2. non_executed_' = IF c + 1 <= Len(insns') THEN retired' + (c + 1) ELSE 0
    <3>1. CASE c = Len(insns)
      BY <1>2, <1>11, <1>15, <1>19, <3>1
    <3>2. CASE c # Len(insns)
      <4>1. c + 1 \in 1..Len(insns) /\ c + 1 <= Len(insns)
        BY <1>2, <1>3, <3>2
      <4>2. insns[c + 1].id = retired + (c + 1)
        BY <4>1 DEF Numbered
      <4> QED
        BY <1>11, <1>15, <1>19, <3>2, <4>1, <4>2
    <3> QED
      BY <3>1, <3>2
  <2>3. ExecutedTo(c + 1)'
    BY <1>15, <2>1, <2>2 DEF ExecutedTo
  <2>4. c + 1 \in 1..Len(insns') + 1
    BY <1>2, <1>3, <1>15
  <2> QED
    BY <1>16, <1>17, <2>3, <2>4
<1> QED
  BY <1>18, <1>19

\* The next instruction of the queue is on its way.
LEMMA Taken ==
  ASSUME Holds, Numbered, B!WaitingNext, next' = Head(q)
  PROVE  /\ q' \in Seq(Waiting) /\ next' \in Waiting /\ next' # B!None
         /\ Len(q') + 1 = Len(q)
         /\ next'.id = retired + Len(insns) + Between + 1
         /\ \A i \in 1..Len(q') : q'[i].id = retired + Len(insns) + Between + 1 + i
<1>1. /\ q \in Seq(Waiting) /\ q # <<>> /\ q' = Tail(q) /\ Len(q) \in Nat
      /\ Len(insns) \in Nat /\ retired \in Nat /\ Between \in Nat
  BY HasNumber DEF Holds, B!WaitingNext
<1>2. 1 \in 1..Len(q)
  BY <1>1, EmptySeq
<1>3. next' = q[1] /\ next' \in Waiting /\ next' # B!None
  BY <1>1, <1>2, HasNumber
<1>4. /\ q' \in Seq(Waiting) /\ Len(q') = Len(q) - 1
      /\ \A i \in 1..Len(q') : q'[i] = q[i + 1]
  BY <1>1, HeadTailProperties
<1>5. next'.id = retired + Len(insns) + Between + 1
  BY <1>2, <1>3 DEF Numbered
<1>6. ASSUME NEW i \in 1..Len(q')
      PROVE  q'[i].id = retired + Len(insns) + Between + 1 + i
  <2>1. i + 1 \in 1..Len(q)
    BY <1>1, <1>4
  <2>2. q[i + 1].id = retired + Len(insns) + Between + (i + 1)
    BY <2>1 DEF Numbered
  <2> QED
    BY <1>1, <1>4, <2>2
<1> QED
  BY <1>1, <1>3, <1>4, <1>5, <1>6

LEMMA BandwidthFetchLineInv == ASSUME BandwidthInv, B!FetchLine PROVE BandwidthInv'
<1> USE DEF BandwidthInv
<1>1. /\ next = B!None /\ B!WaitingNext /\ next' = Head(q)
      /\ UNCHANGED <<insns, non_executed_, given, retired, ports>>
      /\ cycles' \in {cycles, cycles + 1}
  BY DEF B!FetchLine, B!EndCycle, B!reorder, B!counts
<1>2. Between = 0 /\ Between' = 1
  BY <1>1, Taken DEF Between
<1>3. Holds'
  BY <1>1, Taken DEF Holds
<1>4. Numbered'
  <2>1. Len(q) \in Nat /\ Len(insns) \in Nat /\ retired \in Nat /\ Len(q') \in Nat
    BY <1>3, HasNumber DEF Holds
  <2>2. /\ Len(q') + 1 = Len(q) /\ next'.id = retired + Len(insns) + Between + 1
        /\ \A i \in 1..Len(q') : q'[i].id = retired + Len(insns) + Between + 1 + i
    BY <1>1, Taken
  <2>3. given = retired + Len(insns) + Len(q)
    BY <1>2, <2>1 DEF Numbered
  <2>4. given' = retired' + Len(insns') + Between' + Len(q')
    BY <1>1, <1>2, <2>1, <2>2, <2>3
  <2>5. next'.id = retired' + Len(insns') + 1
    BY <1>1, <1>2, <2>1, <2>2
  <2>6. ASSUME NEW i \in 1..Len(q')
        PROVE  q'[i].id = retired' + Len(insns') + Between' + i
    <3>1. q'[i].id = retired + Len(insns) + Between + 1 + i
      BY <2>2
    <3> QED
      BY <1>1, <1>2, <2>1, <3>1
  <2>7. \A i \in 1..Len(insns') : insns'[i].id = retired' + i
    BY <1>1 DEF Numbered
  <2> QED
    BY <2>4, <2>5, <2>6, <2>7 DEF Numbered
<1>5. \E c \in 1..Len(insns') + 1 : ExecutedTo(c)'
  BY <1>1 DEF ExecutedTo
<1> QED
  BY <1>3, <1>4, <1>5

\* The iterator was at the end, and is now at the new instruction, or before.
LEMMA BandwidthFetchOneInv == ASSUME BandwidthInv, B!FetchOne PROVE BandwidthInv'
<1> USE DEF BandwidthInv
<1>1. PICK c \in 1..Len(insns) + 1 : ExecutedTo(c)
  OBVIOUS
<1>2. /\ insns \in Seq(Placed) /\ Len(insns) \in Nat /\ retired \in Nat /\ c \in Nat
      /\ Len(q) \in Nat /\ next \in Waiting /\ cycles \in Nat
  BY HasNumber DEF Holds
<1>3. PICK new : new = [id |-> next.id, addr |-> next.addr, loads |-> next.loads,
                        stores |-> next.stores, executed |-> FALSE, finish_cycle |-> 0]
  OBVIOUS
<1>4. new \in Placed /\ new.id = retired + Len(insns) + 1 /\ new.executed = FALSE
      /\ next.id = retired + Len(insns) + 1 /\ Between = 1
  BY <1>2, <1>3 DEF Placed, Waiting, Numbered, Between, B!FetchOne
<1>5. /\ insns' = Append(insns, new)
      /\ non_executed_' = IF non_executed_ = 0 THEN next.id ELSE non_executed_
      /\ UNCHANGED <<given, retired, ports>>
      /\ cycles' \in {cycles, cycles + 1}
      /\ \/ B!WaitingNext /\ next' = Head(q)
         \/ next' = B!None /\ q' = q
  BY <1>3 DEF B!FetchOne, B!ReorderAdd, B!EndCycle, B!counts, B!waiting
<1>6. /\ insns' \in Seq(Placed) /\ Len(insns') = Len(insns) + 1
      /\ insns'[Len(insns) + 1] = new
      /\ \A i \in 1..Len(insns) : insns'[i] = insns[i]
  BY <1>2, <1>4, <1>5, AppendProperties
<1>7. \A i \in 1..Len(insns') : i \in 1..Len(insns) \/ i = Len(insns) + 1
  BY <1>2, <1>6
<1>8. \A i \in 1..Len(insns') : insns'[i].id = retired' + i
  <2>1. \A i \in 1..Len(insns) : insns'[i].id = retired' + i
    BY <1>5, <1>6 DEF Numbered
  <2>2. insns'[Len(insns) + 1].id = retired' + (Len(insns) + 1)
    BY <1>2, <1>4, <1>5, <1>6
  <2> QED
    BY <1>7, <2>1, <2>2
<1>9. Holds' /\ Numbered'
  <2>1. CASE B!WaitingNext /\ next' = Head(q)
    <3>1. Holds'
      BY <1>5, <1>6, <2>1, Taken DEF Holds
    <3>2. Between' = 1 /\ Len(q') \in Nat
      BY <2>1, <3>1, Taken DEF Between, Holds
    <3>3. /\ Len(q') + 1 = Len(q) /\ next'.id = retired + Len(insns) + Between + 1
          /\ \A i \in 1..Len(q') : q'[i].id = retired + Len(insns) + Between + 1 + i
      BY <2>1, Taken
    <3>4. given = retired + Len(insns) + 1 + Len(q)
      BY <1>4 DEF Numbered
    <3>5. given' = retired' + Len(insns') + Between' + Len(q')
      <4>1. PICK n \in Nat : n = Len(q')
        BY <3>2
      <4>2. given = retired + Len(insns) + 1 + (n + 1)
        BY <3>3, <3>4, <4>1
      <4>3. retired' + Len(insns') + Between' + Len(q') = retired + (Len(insns) + 1) + 1 + n
        BY <1>5, <1>6, <3>2, <4>1
      <4> QED
        BY <1>2, <1>5, <4>2, <4>3
    <3>6. next'.id = retired' + Len(insns') + 1
      BY <1>2, <1>4, <1>5, <1>6, <3>3
    <3>7. \A i \in 1..Len(q') : q'[i].id = retired' + Len(insns') + Between' + i
      BY <1>2, <1>4, <1>5, <1>6, <3>2, <3>3
    <3> QED
      BY <1>8, <3>1, <3>5, <3>6, <3>7 DEF Numbered
  <2>2. CASE next' = B!None /\ q' = q
    <3>1. Holds'
      BY <1>5, <1>6, <2>2 DEF Holds, B!None, Waiting
    <3>2. Between' = 0
      BY <2>2 DEF Between
    <3>3. given' = retired' + Len(insns') + Between' + Len(q')
      BY <1>2, <1>4, <1>5, <1>6, <2>2, <3>2 DEF Numbered
    <3>4. \A i \in 1..Len(q') : q'[i].id = retired' + Len(insns') + Between' + i
      BY <1>2, <1>4, <1>5, <1>6, <2>2, <3>2 DEF Numbered
    <3> QED
      BY <1>8, <2>2, <3>1, <3>3, <3>4 DEF Numbered
  <2> QED
    BY <1>5, <2>1, <2>2
<1>10. ExecutedTo(c)'
  <2>1. \A i \in 1..Len(insns) : insns[i].executed <=> i < c
    BY <1>1 DEF ExecutedTo
  <2>2. ~(Len(insns) + 1 < c)
    BY <1>2
  <2>3. \A i \in 1..Len(insns') : insns'[i].executed <=> i < c
    BY <1>4, <1>6, <1>7, <2>1, <2>2
  <2>4. non_executed_' = retired + c /\ c <= Len(insns')
    <3>1. CASE c <= Len(insns)
      <4>1. non_executed_ = retired + c /\ non_executed_ # 0
        BY <1>1, <1>2, <3>1 DEF ExecutedTo
      <4> QED
        BY <1>2, <1>5, <1>6, <3>1, <4>1
    <3>2. CASE ~(c <= Len(insns))
      <4>1. non_executed_ = 0 /\ c = Len(insns) + 1
        BY <1>1, <1>2, <3>2 DEF ExecutedTo
      <4> QED
        BY <1>2, <1>4, <1>5, <1>6, <4>1
    <3> QED
      BY <3>1, <3>2
  <2> QED
    BY <1>5, <2>3, <2>4 DEF ExecutedTo
<1>11. c \in 1..Len(insns') + 1
  BY <1>2, <1>6
<1> QED
  BY <1>9, <1>10, <1>11

LEMMA BandwidthNextInv == ASSUME BandwidthInv, B!Next \/ UNCHANGED bandwidth PROVE BandwidthInv'
<1>1. CASE \E i \in Code : B!Simulate([id |-> given + 1, addr |-> i.addr,
                                       loads |-> i.loads, stores |-> i.stores])
  <2>1. PICK i \in Code : B!Simulate([id |-> given + 1, addr |-> i.addr,
                                      loads |-> i.loads, stores |-> i.stores])
    BY <1>1
  <2>2. PICK inst : inst = [id |-> given + 1, addr |-> i.addr,
                            loads |-> i.loads, stores |-> i.stores]
    OBVIOUS
  <2>3. inst \in Waiting /\ inst.id = given + 1
    <3>1. i \in [addr : Nat, loads : Nat, stores : Nat]
      BY CpuTimersAssumption DEF B!BandwidthAssumption
    <3>2. given + 1 \in Nat
      BY DEF BandwidthInv, Holds
    <3> QED
      BY <2>2, <3>1, <3>2 DEF Waiting
  <2> QED
    BY <2>1, <2>2, <2>3, BandwidthSimulateInv
<1>2. CASE \E c \in Idles : B!Idle(c)
  <2>1. PICK c \in Idles : B!Idle(c)
    BY <1>2
  <2>2. Idles \subseteq Nat /\ c \in Nat
    BY CpuTimersAssumption DEF B!BandwidthAssumption
  <2> QED
    BY <2>1, <2>2, SameInstructions DEF B!Idle, B!waiting, B!reorder, B!fetch, B!counts, BandwidthInv, Holds
<1>3. CASE \E new \in {"FUNCTIONAL", "FULL_WARMING", "SIMULATION"} : B!SetState(new)
  BY <1>3, BandwidthSetStateInv
<1>4. CASE B!Commit \/ B!BeginMemory \/ B!Memory \/ B!FetchLine \/ B!FetchOne
  BY <1>4, BandwidthCommitInv, BandwidthBeginMemoryInv, BandwidthMemoryInv, BandwidthFetchLineInv, BandwidthFetchOneInv
<1>5. CASE B!EndMemory \/ B!FetchWaits \/ B!FetchEnds
  <2>1. /\ UNCHANGED <<q, next, insns, non_executed_, given, retired, ports>>
        /\ cycles' \in {cycles, cycles + 1}
    BY <1>5 DEF B!EndMemory, B!FetchWaits, B!FetchEnds, B!EndCycle, B!waiting, B!reorder,
                B!fetch, B!counts
  <2> QED
    BY <2>1, SameInstructions DEF BandwidthInv, Holds
<1>6. CASE UNCHANGED bandwidth
  BY <1>6, SameInstructions DEF bandwidth, BandwidthInv, Holds
<1> QED
  BY <1>1, <1>2, <1>3, <1>4, <1>5, <1>6 DEF B!Next, B!Cycle

LEMMA OrderAndCursor == BandwidthInv => BufferSound
<1> SUFFICES ASSUME BandwidthInv PROVE BufferSound
  OBVIOUS
<1> USE DEF BandwidthInv
<1>1. B!InProgramOrder
  <2> DEFINE s == [i \in DOMAIN insns |-> insns[i].id]
             t == IF next = B!None THEN <<>> ELSE <<next.id>>
             u == [i \in DOMAIN q |-> q[i].id]
  <2>1. /\ q \in Seq(Waiting) /\ insns \in Seq(Placed) /\ next \in Waiting
        /\ Len(q) \in Nat /\ Len(insns) \in Nat /\ retired \in Nat /\ given \in Nat
        /\ Between \in Nat
    BY HasNumber DEF Holds
  <2>2. s \in Seq(Nat) /\ Len(s) = Len(insns) /\ \A i \in 1..Len(insns) : s[i] = retired + i
    <3>1. s = [i \in 1..Len(insns) |-> retired + i]
      <4>1. DOMAIN insns = 1..Len(insns)
        BY <2>1
      <4>2. \A i \in 1..Len(insns) : insns[i].id = retired + i
        BY DEF Numbered
      <4> QED
        BY <4>1, <4>2
    <3> HIDE DEF s
    <3> QED
      BY <2>1, <3>1
  <2>3. /\ t \in Seq(Nat) /\ Len(t) = Between
        /\ \A i \in 1..Between : t[i] = retired + Len(insns) + i
    <3>1. CASE next = B!None
      BY <3>1 DEF Between
    <3>2. CASE next # B!None
      <4>1. next.id = retired + Len(insns) + 1 /\ next.id \in Nat
        BY <2>1, <3>2 DEF Numbered, Waiting
      <4>2. \A i \in 1..1 : i = 1
        OBVIOUS
      <4> QED
        BY <3>2, <4>1, <4>2 DEF Between
    <3> QED
      BY <3>1, <3>2
  <2>4. /\ u \in Seq(Nat) /\ Len(u) = Len(q)
        /\ \A i \in 1..Len(q) : u[i] = retired + Len(insns) + Between + i
    <3>1. u = [i \in 1..Len(q) |-> retired + Len(insns) + Between + i]
      BY <2>1 DEF Numbered
    <3> HIDE DEF u
    <3> QED
      BY <2>1, <3>1
  <2> HIDE DEF s, t, u
  <2>5. PICK v : v = s \o t
    OBVIOUS
  <2>6. /\ v \in Seq(Nat) /\ Len(v) = Len(insns) + Between
        /\ \A i \in 1..Len(insns) + Between : v[i] = retired + i
    <3>1. /\ v \in Seq(Nat) /\ Len(v) = Len(s) + Len(t)
          /\ \A i \in 1..Len(s) + Len(t) : v[i] = IF i <= Len(s) THEN s[i] ELSE t[i - Len(s)]
      BY <2>2, <2>3, <2>5, ConcatProperties
    <3>2. ASSUME NEW i \in 1..Len(insns) + Between PROVE v[i] = retired + i
      <4>1. CASE i <= Len(insns)
        <5>1. i \in 1..Len(insns) /\ i \in 1..Len(s) + Len(t) /\ i <= Len(s)
          BY <2>1, <2>2, <2>3, <4>1
        <5>2. v[i] = s[i]
          BY <3>1, <5>1
        <5> QED
          BY <2>2, <5>1, <5>2
      <4>2. CASE ~(i <= Len(insns))
        <5>1. i - Len(insns) \in 1..Between
          BY <2>1, <4>2
        <5>2. v[i] = retired + Len(insns) + (i - Len(insns))
          BY <2>2, <2>3, <3>1, <4>2, <5>1
        <5> QED
          BY <2>1, <5>2
      <4> QED
        BY <4>1, <4>2
    <3> QED
      BY <2>2, <2>3, <3>1, <3>2
  <2>7. PICK w : w = v \o u
    OBVIOUS
  <2>8. /\ w \in Seq(Nat) /\ Len(w) = given - retired
        /\ \A i \in 1..given - retired : w[i] = retired + i
    <3>1. /\ w \in Seq(Nat) /\ Len(w) = Len(v) + Len(u)
          /\ \A i \in 1..Len(v) + Len(u) : w[i] = IF i <= Len(v) THEN v[i] ELSE u[i - Len(v)]
      BY <2>4, <2>6, <2>7, ConcatProperties
    <3>2. given - retired = Len(v) + Len(u)
      BY <2>1, <2>4, <2>6 DEF Numbered
    <3>3. ASSUME NEW i \in 1..given - retired PROVE w[i] = retired + i
      <4>1. CASE i <= Len(v)
        BY <2>1, <2>6, <3>1, <3>2, <4>1
      <4>2. CASE ~(i <= Len(v))
        <5>1. i - Len(v) \in 1..Len(q)
          BY <2>1, <2>4, <2>6, <3>2, <4>2
        <5>2. w[i] = retired + Len(insns) + Between + (i - Len(v))
          BY <2>4, <3>1, <3>2, <4>2, <5>1
        <5> QED
          BY <2>1, <2>6, <5>2
      <4> QED
        BY <4>1, <4>2
    <3> QED
      BY <3>1, <3>2, <3>3
  <2>9. w = [i \in 1..given - retired |-> retired + i]
    BY <2>8
  <2> QED
    BY <2>5, <2>7, <2>9 DEF B!InProgramOrder, B!Remembered, s, t, u
<1>2. B!CursorSound
  <2>1. PICK c \in 1..Len(insns) + 1 : ExecutedTo(c)
    OBVIOUS
  <2>2. PICK S : S = {i \in 1..Len(insns) : ~insns[i].executed}
    OBVIOUS
  <2>3. Len(insns) \in Nat /\ c \in Nat
    BY DEF Holds
  <2>4. S = {i \in 1..Len(insns) : ~(i < c)}
    BY <2>1, <2>2 DEF ExecutedTo
  <2>5. CASE c <= Len(insns)
    <3>1. c \in S /\ S \in SUBSET Nat /\ \A i \in S : c <= i
      BY <2>3, <2>4, <2>5
    <3>2. Min(S) = c
      <4>1. Min(S) \in S /\ Min(S) <= c
        BY <3>1, MinIn
      <4>2. Min(S) \in Nat /\ c <= Min(S)
        BY <3>1, <4>1
      <4> QED
        BY <2>3, <4>1, <4>2
    <3>3. B!Min(S) = c /\ S # {}
      BY <3>1, <3>2, SameMin
    <3>4. B!SelectInSeq(insns, LAMBDA e : ~e.executed) = c
      BY <2>2, <3>3 DEF B!SelectInSeq
    <3>5. non_executed_ = retired + c /\ c # 0
      BY <2>1, <2>5 DEF ExecutedTo
    <3>6. insns[c].id = retired + c
      BY <2>3, <2>5 DEF Numbered
    <3> QED
      BY <3>4, <3>5, <3>6 DEF B!CursorSound
  <2>6. CASE ~(c <= Len(insns))
    <3>1. S = {} /\ non_executed_ = 0
      BY <2>1, <2>3, <2>4, <2>6 DEF ExecutedTo
    <3>2. B!SelectInSeq(insns, LAMBDA e : ~e.executed) = 0
      BY <2>2, <3>1 DEF B!SelectInSeq
    <3> QED
      BY <3>1, <3>2 DEF B!CursorSound
  <2> QED
    BY <2>5, <2>6
<1> QED
  BY <1>1, <1>2 DEF BufferSound, B!BufferSound

-----------------------------------------------------------------------------
\* The CPU

\* A CPU whose timer is timer1 behaves as the Pipeline says, and one with
\* another timer leaves it alone: the theorems above hold of every CPU.
THEOREM TimersImplementPipeline == TimersSpec => Spec
<1>1. TimersInit => Init
  BY DEF TimersInit
<1>2. [TimersNext]_<<timer, vars, bandwidth>> => [Next]_vars
  BY DEF TimersNext
<1> QED
  BY <1>1, <1>2, PTL DEF TimersSpec, Spec

\* Through queue, fetch and reorder buffer instructions keep their order and
\* their number, and the iterator into the buffer is at the first that is not
\* executed (bandwidth.cpp:477).
THEOREM OrderKept == TimersSpec => []BufferSound
<1>1. TimersInit => BandwidthInv
  BY BandwidthInitInv DEF TimersInit
<1>2. BandwidthInv /\ [TimersNext]_<<timer, vars, bandwidth>> => BandwidthInv'
  <2>1. [TimersNext]_<<timer, vars, bandwidth>> => B!Next \/ UNCHANGED bandwidth
    BY DEF TimersNext
  <2> QED
    BY <2>1, BandwidthNextInv
<1> QED
  BY <1>1, <1>2, OrderAndCursor, PTL DEF TimersSpec
=============================================================================
