--------------------------- MODULE TokenStreamProofs ---------------------------
(***************************************************************************)
(* The instruction ring keeps the order of the instructions and the last   *)
(* ones that the timer got, for every size and history and over any number *)
(* of wrap-arounds and growths.  The parser, the interleaver and the timer *)
(* use the ring as InstructionRing says, so that this holds in the whole   *)
(* stream, for every guest, every delivery of its tokens and every change  *)
(* of state.                                                               *)
(*                                                                         *)
(* The invariant of the ring says where everything is.  The instruction k  *)
(* places behind `out' is the k-th of those not handed on; the one handed  *)
(* on d places ago is still d slots before `out' if that was in this ring. *)
(* A slot that alloc writes is `elems' behind `out', and as elems is below *)
(* safe_size it is none of the last Space that were handed on.             *)
(*                                                                         *)
(* On top of it is what the stream means: the tokens of an instruction     *)
(* come together, so that the access that run() takes next belongs to the  *)
(* newest instruction; and of the instructions handed on every other at    *)
(* least is one that the timer remembers, so that it finds all of them.    *)
(***************************************************************************)
EXTENDS TokenStream, SequenceTheorems, TLAPS

Insn == [id : Nat, pc : Nat, loads : SUBSET Nat]
Hand == [ring : Nat, slot : Nat, id : Nat]

\* Types that the proofs need beyond TypeOK.
Contents ==
  /\ given \in Seq(Nat) /\ handed \in Seq(Hand)
  /\ mem = [r \in DOMAIN mem |-> mem[r]]
  /\ \A r \in DOMAIN mem : mem[r] \in [DOMAIN mem[r] -> Insn]

\* What is in the ring: the instructions not handed on, in order.
Queued ==
  /\ in = Wrapped(out + elems)
  /\ \A k \in 0..elems - 1 :
       mem[pul][Wrapped(out + k)].id = given[Len(handed) + k + 1]

\* Where an instruction handed on has stayed.
Kept(n) ==
  LET h == handed[n]
      d == Len(handed) + 1 - n
  IN /\ h.ring \in DOMAIN mem /\ h.slot \in DOMAIN mem[h.ring]
     /\ mem[h.ring][h.slot].id = h.id
     /\ h.ring = pul => Wrapped(h.slot + d) = out
History == \A n \in 1..Len(handed) : n + Space > Len(handed) => Kept(n)

IInv == TypeOK /\ Contents /\ InOrder /\ Queued /\ History

\* A slot d before another is not one e behind it when d + e goes not round.
LEMMA Apart ==
  ASSUME TypeOK,
         NEW s \in 0..total_size - 1, NEW d \in 1..Space, NEW e \in 0..safe_size - 1,
         Wrapped(s + d) = out
  PROVE  Wrapped(out + e) # s
BY InstructionRingAssumption DEF TypeOK, Wrapped

\* Different places of the ring are different slots.
LEMMA Distinct ==
  ASSUME TypeOK, NEW k \in 0..safe_size, NEW e \in 0..safe_size, k # e
  PROVE  Wrapped(out + k) # Wrapped(out + e)
BY InstructionRingAssumption DEF TypeOK, Wrapped

\* A place of the ring is a slot.
LEMMA WrappedSlot ==
  ASSUME TypeOK, NEW k \in 0..total_size
  PROVE  Wrapped(out + k) \in 0..total_size - 1
BY InstructionRingAssumption DEF TypeOK, Wrapped

\* A slot that was d before `out' is d + 1 before the next one.
LEMMA Further ==
  ASSUME TypeOK, NEW s \in 0..total_size - 1, NEW d \in 1..Space - 1,
         Wrapped(s + d) = out
  PROVE  Wrapped(s + (d + 1)) = Wrapped(out + 1)
BY InstructionRingAssumption DEF TypeOK, Wrapped

LEMMA InitInv == Init => IInv
<1> SUFFICES ASSUME Init PROVE IInv
  OBVIOUS
<1> USE InstructionRingAssumption DEF Init
<1>1. TypeOK
  BY DEF TypeOK
<1>2. Contents
  BY DEF Contents, Insn, Blank
<1>3. InOrder /\ Queued /\ History
  BY DEF InOrder, Queued, History, Wrapped
<1> QED
  BY <1>1, <1>2, <1>3 DEF IInv

\* What every alloc does to the counters and the list of ids.
LEMMA GivenMore ==
  ASSUME Contents, TypeOK, Given
  PROVE  /\ given' \in Seq(Nat) /\ handed' = handed
         /\ Len(given') = Len(given) + 1
         /\ given'[Len(given) + 1] = unique_id + 1
         /\ \A n \in 1..Len(given) : given'[n] = given[n]
         /\ unique_id' \in 0..MaxIns /\ unique_id' = unique_id + 1
<1>5. unique_id \in 0..MaxIns
  BY DEF TypeOK
<1>6. given' = Append(given, unique_id + 1) /\ given \in Seq(Nat)
  BY DEF Contents, Given
<1>1. given' = Append(given, unique_id + 1) /\ given \in Seq(Nat) /\ unique_id + 1 \in Nat
  BY <1>5, <1>6, InstructionRingAssumption
<1>2. given' \in Seq(Nat)
  BY <1>1, AppendProperties, Zenon
<1>3. Len(given') = Len(given) + 1 /\ given'[Len(given) + 1] = unique_id + 1
  BY <1>1, AppendProperties
<1>4. \A n \in 1..Len(given) : given'[n] = given[n]
  BY <1>1, AppendProperties
<1> QED
  BY <1>2, <1>3, <1>4, InstructionRingAssumption DEF TypeOK, Given

LEMMA AllocHereInv ==
  ASSUME IInv, NEW p \in Nat, NEW L \in SUBSET Nat, AllocHere(p, L)
  PROVE  IInv'
<1> USE InstructionRingAssumption DEF IInv
<1> DEFINE new == [id |-> unique_id + 1, pc |-> p, loads |-> L]
<1>1. /\ pul \in DOMAIN mem /\ in \in DOMAIN mem[pul] /\ new \in Insn
      /\ elems \in 0..safe_size - 1 /\ in = Wrapped(out + elems)
  BY DEF TypeOK, Queued, AllocHere, Insn
<1>2. /\ DOMAIN mem' = DOMAIN mem
      /\ \A r \in DOMAIN mem : DOMAIN mem'[r] = DOMAIN mem[r]
      /\ \A r \in DOMAIN mem \ {pul} : mem'[r] = mem[r]
      /\ mem'[pul][in] = new
      /\ \A s \in DOMAIN mem[pul] \ {in} : mem'[pul][s] = mem[pul][s]
      /\ mem' = [r \in DOMAIN mem' |-> mem'[r]]
  BY <1>1 DEF AllocHere, Fresh, Contents, TypeOK
<1>3. /\ Given /\ elems' = elems + 1 /\ in' = Wrapped(in + 1)
      /\ out' = out /\ safe_size' = safe_size /\ total_size' = total_size
      /\ pul' = pul /\ old_puls' = old_puls /\ handed' = handed
  BY DEF AllocHere, sizes, Given
<1>4. TypeOK'
  <2>1. in' \in 0..total_size - 1
    BY <1>3 DEF TypeOK, Wrapped
  <2>2. elems' \in 0..safe_size /\ unique_id' \in 0..MaxIns
    BY <1>1, <1>3, GivenMore DEF TypeOK
  <2>3. DOMAIN mem' = old_puls' \union {pul'} /\ DOMAIN mem'[pul'] = 0..total_size' - 1
    BY <1>1, <1>2, <1>3 DEF TypeOK
  <2> QED
    BY <2>1, <2>2, <2>3, <1>3 DEF TypeOK
<1>5. Contents'
  <2>1. \A r \in DOMAIN mem : mem'[r] \in [DOMAIN mem[r] -> Insn]
    BY <1>1, <1>2 DEF AllocHere, Fresh, Contents
  <2> QED
    BY <2>1, <1>2, <1>3, GivenMore DEF Contents
<1>6. InOrder'
  <2>1. Len(given') = Len(handed') + elems'
    <3>1. Len(handed) \in Nat /\ elems \in Nat /\ Len(given) = Len(handed) + elems
      BY DEF InOrder, Contents, TypeOK
    <3> QED
      BY <3>1, <1>3, GivenMore
  <2>2. \A n \in 1..Len(handed) : handed[n].id = given'[n]
    <3>1. 1..Len(handed) \subseteq 1..Len(given)
      BY DEF InOrder, Contents, TypeOK
    <3> QED
      BY <3>1, <1>3, GivenMore DEF InOrder
  <2> QED
    BY <2>1, <2>2, <1>3, GivenMore DEF InOrder
<1>7. Queued'
  <2>1. in' = Wrapped(out + (elems + 1))
    BY <1>1, <1>3 DEF TypeOK, Wrapped
  <2>2. ASSUME NEW k \in 0..elems' - 1
        PROVE  mem'[pul][Wrapped(out + k)].id = given'[Len(handed) + k + 1]
    <3>1. CASE k = elems
      <4>1. Len(handed) + k + 1 = Len(given) + 1
        BY <3>1 DEF InOrder, Contents
      <4> QED
        BY <3>1, <4>1, <1>1, <1>2, <1>3, GivenMore
    <3>2. CASE k # elems
      <4>1. k \in 0..elems - 1
        BY <3>2, <1>1, <1>3 DEF TypeOK
      <4>5. k \in 0..safe_size /\ elems \in 0..safe_size /\ k # elems
        BY <4>1, <1>1 DEF TypeOK
      <4>6. Wrapped(out + k) # Wrapped(out + elems)
        BY <4>5, Distinct, Zenon
      <4>2. Wrapped(out + k) \in DOMAIN mem[pul]
        <5>1. k \in 0..total_size
          BY <4>1, <1>1 DEF TypeOK
        <5> QED
          BY <5>1, WrappedSlot DEF TypeOK
      <4>3. mem'[pul][Wrapped(out + k)].id = given[Len(handed) + k + 1]
        BY <4>1, <4>6, <1>1, <4>2, <1>2 DEF Queued
      <4>4. Len(handed) + k + 1 \in 1..Len(given)
        BY <4>1, <1>1 DEF InOrder, Contents
      <4> QED
        BY <4>3, <4>4, <1>3, GivenMore
    <3> QED
      BY <3>1, <3>2
  <2> QED
    BY <2>1, <2>2, <1>3, GivenMore DEF Queued, Wrapped
<1>8. History'
  <2> SUFFICES ASSUME NEW n \in 1..Len(handed), n + Space > Len(handed)
               PROVE  Kept(n)'
    BY <1>3, GivenMore DEF History
  <2>1. Kept(n)
    BY DEF History
  <2>2. handed[n] \in Hand /\ Len(handed) + 1 - n \in 1..Space
    BY DEF Contents
  <2>3. handed[n].ring = pul => handed[n].slot # in
    BY <2>1, <2>2, <1>1, Apart DEF Kept, TypeOK
  <2>4. mem'[handed[n].ring][handed[n].slot] = mem[handed[n].ring][handed[n].slot]
    BY <2>1, <2>3, <1>2 DEF Kept
  <2> QED
    BY <2>1, <2>4, <1>2, <1>3, GivenMore DEF Kept, Wrapped
<1> QED
  BY <1>4, <1>5, <1>6, <1>7, <1>8

\* The ring grown: what was in it is at the start of the new one, and the
\* timer's instructions stay in the old one.
LEMMA AllocGrownInv ==
  ASSUME IInv, NEW p \in Nat, NEW L \in SUBSET Nat, AllocGrown(p, L)
  PROVE  IInv'
<1> USE InstructionRingAssumption DEF IInv
<1> DEFINE new == [id |-> unique_id + 1, pc |-> p, loads |-> L]
           total == 2 * total_size
<1>1. /\ pul \in DOMAIN mem /\ pul + 1 \notin DOMAIN mem /\ pul + 1 \in 1..MaxPools
      /\ new \in Insn /\ elems = safe_size /\ elems \in 0..total - 1
      /\ total \in Nat /\ total_size < total
  <2>1. /\ total_size \in Nat /\ safe_size \in Nat /\ total_size = safe_size + Space
        /\ elems = safe_size /\ pul \in 1..MaxPools /\ pul < MaxPools
        /\ unique_id \in Nat
    BY DEF TypeOK, AllocGrown
  <2>2. pul \in DOMAIN mem /\ pul + 1 \notin DOMAIN mem
    BY <2>1 DEF TypeOK
  <2>3. new \in Insn
    BY <2>1 DEF Insn
  <2> QED
    BY <2>1, <2>2, <2>3
<1>2. /\ Given /\ elems' = elems + 1 /\ in' = elems + 1 /\ out' = 0
      /\ safe_size' = safe_size + total_size /\ total_size' = total
      /\ pul' = pul + 1 /\ old_puls' = old_puls \union {pul} /\ handed' = handed
  BY DEF AllocGrown, Given
<1>3. /\ DOMAIN mem' = DOMAIN mem \union {pul + 1}
      /\ mem' = [r \in DOMAIN mem' |-> mem'[r]]
      /\ \A r \in DOMAIN mem : mem'[r] = mem[r]
      /\ mem'[pul + 1] = Fresh(Doubled, elems, p, L)
  BY <1>1 DEF AllocGrown
<1>4. ASSUME NEW s \in 0..elems - 1 PROVE Wrapped(out + s) \in DOMAIN mem[pul]
  <2>1. s \in 0..total_size /\ DOMAIN mem[pul] = 0..total_size - 1
    BY <1>1 DEF TypeOK
  <2> QED
    BY <2>1, WrappedSlot
<1>5. Doubled \in [0..total - 1 -> Insn]
  <2>1. Blank \in Insn
    BY DEF Blank, Insn
  <2>2. \A s \in 0..elems - 1 : mem[pul][Wrapped(out + s)] \in Insn
    BY <1>4, <1>1 DEF Contents
  <2> QED
    BY <2>1, <2>2, <1>1 DEF Doubled
<1>6. /\ mem'[pul + 1] \in [0..total - 1 -> Insn]
      /\ mem'[pul + 1][elems] = new
      /\ \A s \in 0..elems - 1 : mem'[pul + 1][s] = mem[pul][Wrapped(out + s)]
  <2>1. mem'[pul + 1] = [Doubled EXCEPT ![elems] = new]
    BY <1>3 DEF Fresh
  <2>2. \A s \in 0..elems - 1 : Doubled[s] = mem[pul][Wrapped(out + s)] /\ s # elems
                                /\ s \in 0..total - 1
    BY <1>1 DEF Doubled
  <2> QED
    BY <2>1, <2>2, <1>1, <1>5
<1>7. TypeOK'
  <2>1. in' \in 0..total_size' - 1 /\ elems' \in 0..safe_size' /\ out' \in 0..total_size' - 1
    BY <1>1, <1>2 DEF TypeOK
  <2>2. total_size' \in Nat /\ safe_size' \in Nat /\ total_size' = safe_size' + Space
    BY <1>2 DEF TypeOK
  <2>3. unique_id' \in 0..MaxIns
    BY <1>2, GivenMore
  <2>4. DOMAIN mem' = old_puls' \union {pul'} /\ DOMAIN mem'[pul'] = 0..total_size' - 1
    BY <1>2, <1>3, <1>6 DEF TypeOK
  <2>5. pul' \in 1..MaxPools /\ old_puls' \subseteq 1..pul' - 1
    BY <1>1, <1>2 DEF TypeOK
  <2> QED
    BY <2>1, <2>2, <2>3, <2>4, <2>5 DEF TypeOK
<1>8. Contents'
  <2>1. \A r \in DOMAIN mem' : mem'[r] \in [DOMAIN mem'[r] -> Insn]
    BY <1>3, <1>6 DEF Contents
  <2> QED
    BY <2>1, <1>2, <1>3, GivenMore DEF Contents
<1>9. Len(handed) \in Nat /\ elems \in Nat /\ Len(given) = Len(handed) + elems
  BY <1>1 DEF InOrder, Contents, TypeOK
<1>10. InOrder'
  <2>1. Len(given') = Len(handed') + elems'
    BY <1>2, <1>9, GivenMore
  <2>2. 1..Len(handed) \subseteq 1..Len(given)
    BY <1>9
  <2> QED
    BY <2>1, <2>2, <1>2, GivenMore DEF InOrder
<1>11. Queued'
  <2>1. \A k \in 0..elems : Wrapped(out + k)' = k
    BY <1>1, <1>2 DEF Wrapped, TypeOK
  <2>2. in' = Wrapped(out + elems)'
    BY <1>1, <1>2 DEF Wrapped, TypeOK
  <2>3. \A k \in 0..elems - 1 : mem'[pul + 1][k].id = given[Len(handed) + k + 1]
    BY <1>6 DEF Queued
  <2>4. \A k \in 0..elems - 1 : Len(handed) + k + 1 \in 1..Len(given)
    BY <1>9
  <2>5. \A k \in 0..elems - 1 : mem'[pul + 1][k].id = given'[Len(handed) + k + 1]
    BY <2>3, <2>4, <1>2, GivenMore
  <2>6. mem'[pul + 1][elems].id = given'[Len(handed) + elems + 1]
    BY <1>2, <1>6, <1>9, GivenMore
  <2>7. \A k \in 0..elems : mem'[pul + 1][k].id = given'[Len(handed) + k + 1]
    BY <2>5, <2>6, <1>9
  <2>8. ASSUME NEW k \in 0..elems' - 1
        PROVE  (mem[pul][Wrapped(out + k)].id = given[Len(handed) + k + 1])'
    <3>1. k \in 0..elems /\ Wrapped(out + k)' = k
      BY <2>1, <1>2, <1>9
    <3> QED
      BY <3>1, <2>7, <1>2
  <2> QED
    BY <2>2, <2>8 DEF Queued
<1>12. History'
  <2> SUFFICES ASSUME NEW n \in 1..Len(handed), n + Space > Len(handed)
               PROVE  Kept(n)'
    BY <1>2 DEF History
  <2>1. Kept(n)
    BY DEF History
  <2>2. handed[n].ring # pul + 1
    BY <2>1, <1>1 DEF Kept
  <2> QED
    BY <2>1, <2>2, <1>2, <1>3 DEF Kept
<1> QED
  BY <1>7, <1>8, <1>10, <1>11, <1>12

LEMMA NextInsInv == ASSUME IInv, NextIns PROVE IInv'
<1> USE InstructionRingAssumption DEF IInv
<1> DEFINE h == [ring |-> pul, slot |-> out, id |-> mem[pul][out].id]
<1>1. /\ elems \in 1..safe_size /\ out' = Wrapped(out + 1) /\ elems' = elems - 1
      /\ in' = in /\ safe_size' = safe_size /\ total_size' = total_size
      /\ pul' = pul /\ old_puls' = old_puls /\ mem' = mem
      /\ unique_id' = unique_id /\ given' = given
  BY DEF NextIns, TypeOK, sizes
<1>2. pul \in DOMAIN mem /\ out \in DOMAIN mem[pul] /\ h \in Hand
  BY DEF TypeOK, Contents, Insn, Hand
<1>3. /\ handed' \in Seq(Hand) /\ Len(handed') = Len(handed) + 1
      /\ handed'[Len(handed) + 1] = h
      /\ \A n \in 1..Len(handed) : handed'[n] = handed[n]
  <2>1. handed' = Append(handed, h) /\ handed \in Seq(Hand)
    BY DEF NextIns, Contents
  <2> QED
    BY <2>1, <1>2, AppendProperties
<1>4. out' \in 0..total_size - 1
  BY <1>1 DEF TypeOK, Wrapped
<1>5. TypeOK'
  BY <1>1, <1>4 DEF TypeOK
<1>6. Contents'
  BY <1>1, <1>3 DEF Contents
<1>7. Len(handed) \in Nat /\ elems \in Nat /\ Len(given) = Len(handed) + elems
  BY <1>1 DEF InOrder, Contents, TypeOK
<1>8. h.id = given[Len(handed) + 1]
  <2>1. Wrapped(out + 0) = out /\ 0 \in 0..elems - 1
    BY <1>1 DEF TypeOK, Wrapped
  <2> QED
    BY <2>1, <1>7 DEF Queued
<1>9. InOrder'
  <2>1. \A n \in 1..Len(handed') : n \in 1..Len(handed) \/ n = Len(handed) + 1
    BY <1>3, <1>7
  <2>2. \A n \in 1..Len(handed) : handed'[n].id = given'[n]
    BY <1>1, <1>3 DEF InOrder
  <2>3. handed'[Len(handed) + 1].id = given'[Len(handed) + 1]
    BY <1>1, <1>3, <1>8
  <2>4. Len(given') = Len(handed') + elems'
    BY <1>1, <1>3, <1>7
  <2> QED
    BY <2>1, <2>2, <2>3, <2>4 DEF InOrder
<1>10. Queued'
  <2>1. in' = Wrapped(out' + (elems - 1))
    <3>1. /\ total_size \in Nat /\ out \in 0..total_size - 1
          /\ elems \in 1..total_size - 1
      BY <1>1 DEF TypeOK
    <3>2. in = Wrapped(out + elems)
      BY DEF Queued
    <3> QED
      BY <3>1, <3>2, <1>1 DEF Wrapped
  <2>2. ASSUME NEW k \in 0..elems - 2
        PROVE  mem[pul][Wrapped(out' + k)].id = given[(Len(handed) + 1) + k + 1]
    <3>1. k + 1 \in 0..elems - 1 /\ Wrapped(out + (k + 1)) = Wrapped(out' + k)
      BY <1>1 DEF TypeOK, Wrapped
    <3>2. (Len(handed) + 1) + k + 1 = Len(handed) + (k + 1) + 1
      BY <1>7
    <3> QED
      BY <3>1, <3>2 DEF Queued
  <2> QED
    BY <2>1, <2>2, <1>1, <1>3, <1>7 DEF Queued, Wrapped
<1>11. History'
  <2> SUFFICES ASSUME NEW n \in 1..Len(handed) + 1, n + Space > Len(handed) + 1
               PROVE  Kept(n)'
    BY <1>1, <1>3 DEF History
  <2>1. CASE n = Len(handed) + 1
    <3>1. handed'[n] = h /\ Len(handed') + 1 - n = 1
      BY <2>1, <1>3, <1>7
    <3> QED
      BY <3>1, <1>1, <1>2 DEF Kept, Wrapped
  <2>2. CASE n # Len(handed) + 1
    <3>1. n \in 1..Len(handed) /\ n + Space > Len(handed)
      BY <2>2, <1>7
    <3>2. Kept(n) /\ handed'[n] = handed[n] /\ handed[n] \in Hand
      BY <3>1, <1>3 DEF History, Contents
    <3>3. Len(handed') + 1 - n = (Len(handed) + 1 - n) + 1
          /\ Len(handed) + 1 - n \in 1..Space - 1
      BY <3>1, <1>3, <1>7
    <3>4. handed[n].ring = pul => Wrapped(handed[n].slot + ((Len(handed) + 1 - n) + 1)) = out'
      <4> SUFFICES ASSUME handed[n].ring = pul
                   PROVE  Wrapped(handed[n].slot + ((Len(handed) + 1 - n) + 1)) = out'
        OBVIOUS
      <4>1. handed[n].slot \in 0..total_size - 1 /\ total_size \in Nat
            /\ Space < total_size
        BY <3>2, <1>1 DEF Kept, TypeOK
      <4>2. Wrapped(handed[n].slot + (Len(handed) + 1 - n)) = out
        BY <3>2 DEF Kept
      <4> QED
        BY <4>1, <4>2, <3>3, <1>1, Further
    <3> QED
      BY <3>2, <3>3, <3>4, <1>1 DEF Kept, Wrapped
  <2> QED
    BY <2>1, <2>2
<1> QED
  BY <1>5, <1>6, <1>9, <1>10, <1>11

LEMMA ClearInv == ASSUME IInv, Clear PROVE IInv'
<1> USE InstructionRingAssumption DEF IInv
<1>1. /\ in' = 0 /\ out' = 0 /\ elems' = 0 /\ given' = <<>> /\ handed' = <<>>
      /\ mem' = [r \in {pul} |-> mem[pul]] /\ old_puls' = {}
      /\ safe_size' = safe_size /\ total_size' = total_size
      /\ pul' = pul /\ unique_id' = unique_id
  BY DEF Clear
<1>2. TypeOK'
  BY <1>1 DEF TypeOK
<1>3. Contents'
  BY <1>1 DEF Contents, TypeOK
<1>4. InOrder' /\ Queued' /\ History'
  BY <1>1 DEF InOrder, Queued, History, Wrapped, TypeOK
<1> QED
  BY <1>2, <1>3, <1>4

LEMMA LoadsPushInv ==
  ASSUME IInv, NEW r \in Nat, NEW s \in Nat, NEW x \in Nat, LoadsPush(r, s, x)
  PROVE  IInv'
<1> USE InstructionRingAssumption DEF IInv
<1>1. /\ r \in DOMAIN mem /\ s \in DOMAIN mem[r]
      /\ in' = in /\ out' = out /\ elems' = elems
      /\ safe_size' = safe_size /\ total_size' = total_size
      /\ pul' = pul /\ old_puls' = old_puls
      /\ unique_id' = unique_id /\ given' = given /\ handed' = handed
  BY DEF LoadsPush, sizes
<1>2. /\ DOMAIN mem' = DOMAIN mem
      /\ mem' = [q \in DOMAIN mem' |-> mem'[q]]
      /\ \A q \in DOMAIN mem : /\ mem'[q] \in [DOMAIN mem[q] -> Insn]
                               /\ \A i \in DOMAIN mem[q] : mem'[q][i].id = mem[q][i].id
  <2>1. mem[r] \in [DOMAIN mem[r] -> Insn] /\ mem[r][s] \in Insn
    BY <1>1 DEF Contents
  <2>2. DEFINE pushed == [mem[r][s] EXCEPT !.loads = @ \union {x}]
  <2>3. pushed \in Insn /\ pushed.id = mem[r][s].id
    BY <2>1 DEF Insn
  <2>4. mem' = [mem EXCEPT ![r] = [mem[r] EXCEPT ![s] = pushed]]
    BY DEF LoadsPush
  <2> HIDE DEF pushed
  <2>5. \A q \in DOMAIN mem \ {r} : mem'[q] = mem[q]
    BY <2>4, <1>1 DEF Contents
  <2>6. mem'[r] = [mem[r] EXCEPT ![s] = pushed]
    BY <2>4, <1>1 DEF Contents
  <2>7. /\ mem'[r] \in [DOMAIN mem[r] -> Insn]
        /\ \A i \in DOMAIN mem[r] : mem'[r][i].id = mem[r][i].id
    BY <2>1, <2>3, <2>6
  <2> QED
    BY <2>4, <2>5, <2>7 DEF Contents
<1>3. \A q \in DOMAIN mem : DOMAIN mem'[q] = DOMAIN mem[q]
  BY <1>2
<1>4. TypeOK'
  BY <1>1, <1>2, <1>3 DEF TypeOK
<1>5. Contents'
  BY <1>1, <1>2, <1>3 DEF Contents
<1>6. InOrder'
  BY <1>1 DEF InOrder
<1>7. Queued'
  <2>1. \A k \in 0..elems - 1 : Wrapped(out + k) \in DOMAIN mem[pul]
    BY WrappedSlot DEF TypeOK
  <2>2. pul \in DOMAIN mem /\ (\A k \in Nat : Wrapped(out + k)' = Wrapped(out + k))
    BY <1>1 DEF TypeOK, Wrapped
  <2>5. \A i \in DOMAIN mem[pul] : mem'[pul][i].id = mem[pul][i].id
    BY <2>2, <1>2
  <2>3. \A k \in 0..elems - 1 :
          mem'[pul][Wrapped(out + k)].id = mem[pul][Wrapped(out + k)].id
    BY <2>1, <2>5
  <2>4. \A k \in 0..elems - 1 : k \in Nat
    BY DEF TypeOK
  <2>6. in' = Wrapped(out + elems)'
    BY <1>1 DEF Queued, Wrapped
  <2>7. \A k \in 0..elems - 1 :
          mem'[pul][Wrapped(out + k)'].id = given[Len(handed) + k + 1]
    BY <2>2, <2>3, <2>4 DEF Queued
  <2> QED
    BY <2>6, <2>7, <1>1 DEF Queued
<1>8. History'
  BY <1>1, <1>2, <1>3 DEF History, Kept, Wrapped
<1> QED
  BY <1>4, <1>5, <1>6, <1>7, <1>8

LEMMA HistoryKept == IInv => HistoryIntact
BY DEF IInv, History, HistoryIntact, Kept

\* Every step of the ring.
LEMMA RingStep == ASSUME IInv, [RingNext]_ring PROVE IInv'
<1>1. CASE \E p \in Nat, L \in SUBSET Nat : Alloc(p, L)
  BY <1>1, AllocHereInv, AllocGrownInv DEF Alloc
<1>2. CASE NextIns
  BY <1>2, NextInsInv
<1>3. CASE Clear
  BY <1>3, ClearInv
<1>4. CASE \E r, s, x \in Nat : LoadsPush(r, s, x)
  BY <1>4, LoadsPushInv
<1>5. CASE UNCHANGED ring
  BY <1>5 DEF ring, sizes, IInv, TypeOK, Contents, InOrder, Queued, History,
              Kept, Wrapped
<1> QED
  BY <1>1, <1>2, <1>3, <1>4, <1>5 DEF RingNext

\* The inductive invariant of the ring.
THEOREM RingInvariance == RingSpec => []IInv
BY InitInv, RingStep, PTL DEF RingSpec

\* The ring never holds more than it may: the space for the timer survives
\* every growth.
THEOREM RingTypes == RingSpec => []TypeOK
BY RingInvariance, PTL DEF IInv

\* Instructions are handed on in the order of their allocation, none lost,
\* repeated or overwritten, for any number of wrap-arounds and growths.
THEOREM RingOrder == RingSpec => []InOrder
BY RingInvariance, PTL DEF IInv

\* The last Space instructions handed on are still what they were.
THEOREM RingHistory == RingSpec => []HistoryIntact
BY HistoryKept, RingInvariance, PTL

-----------------------------------------------------------------------------
\* The whole stream

Kind == {"inst", "mem", "prefetch", "cpuid", "noinst"}
Tok == [kind : Kind, pc : Nat]
Address == [ring : Nat, slot : Nat]

\* What the parser hands to the ring: addresses and accesses.
Parsed ==
  /\ executed \in Nat
  /\ tokens \in Seq(Tok) /\ writing \in Seq(Tok)
  /\ pending \in SUBSET Nat
  /\ current \in Address

StreamInv == IInv /\ Parsed

\* The tokens of an instruction are tokens.
LEMMA TokensOfType ==
  ASSUME NEW p \in Nat, NEW s \in Shapes PROVE TokensOf(s, p) \in Seq(Tok)
<1>1. s \in {"plain", "load", "prefetch", "cpuid", "asm", "unknown"}
  BY TokenStreamAssumption DEF Kinds
<1>2. /\ Kinds["plain"] = <<"inst">> /\ Kinds["load"] = <<"inst", "mem">>
      /\ Kinds["prefetch"] = <<"prefetch", "inst">>
      /\ Kinds["cpuid"] = <<"cpuid", "inst">>
      /\ Kinds["asm"] = <<"cpuid", "inst", "mem">>
      /\ Kinds["unknown"] = <<"noinst", "mem">>
  BY DEF Kinds
<1>3. /\ <<"inst">> \in Seq(Kind) /\ <<"inst", "mem">> \in Seq(Kind)
      /\ <<"prefetch", "inst">> \in Seq(Kind)
      /\ <<"cpuid", "inst">> \in Seq(Kind)
      /\ <<"cpuid", "inst", "mem">> \in Seq(Kind)
      /\ <<"noinst", "mem">> \in Seq(Kind)
  BY DEF Kind
<1>4. PICK ks \in Seq(Kind) : Kinds[s] = ks
  BY <1>1, <1>2, <1>3, Zenon
<1>5. [i \in 1..Len(ks) |-> Token(ks[i], p)] \in Seq(Tok)
  BY DEF Token, Tok
<1> QED
  BY <1>4, <1>5 DEF TokensOf

\* The token that run() takes, and the queue after it.
LEMMA TakenType ==
  ASSUME Parsed, Taken
  PROVE  Head(tokens).pc \in Nat /\ tokens' \in Seq(Tok)
<1>1. Head(tokens) \in Tok /\ Tail(tokens) \in Seq(Tok)
  BY HeadTailProperties DEF Parsed, Taken
<1> QED
  BY <1>1 DEF Taken, Tok

\* A change of the simulation state empties the ring or leaves it alone.
LEMMA ChangeRing ==
  ASSUME StreamInv, NEW st, NEW b \in BOOLEAN, ChangeState(st, b)
  PROVE  [RingNext]_ring /\ Parsed'
<1>1. Clear \/ UNCHANGED ring
  BY DEF ChangeState
<1>2. Parsed'
  BY DEF ChangeState, StreamInv, Parsed, guest
<1> QED
  BY <1>1, <1>2 DEF RingNext

\* Every step of the stream is one of the ring or leaves it alone.
LEMMA StreamStep ==
  ASSUME StreamInv, [Next]_vars
  PROVE  [RingNext]_ring /\ Parsed'
<1> USE DEF StreamInv
<1>1. CASE Execute
  <2>1. \E s \in Shapes : writing' = TokensOf(s, executed + 1)
    BY <1>1 DEF Execute
  <2>2. writing' \in Seq(Tok)
    BY <2>1, TokensOfType DEF Parsed
  <2> QED
    BY <1>1, <2>2 DEF Execute, Parsed, parser
<1>2. CASE Write
  <2>1. Head(writing) \in Tok /\ Tail(writing) \in Seq(Tok)
    BY <1>2, HeadTailProperties DEF Write, Parsed
  <2> QED
    BY <1>2, <2>1, AppendProperties DEF Write, Parsed
<1>3. CASE Deliver
  BY <1>3 DEF Deliver, Parsed, NoInst, Address
<1>4. CASE \E e \in {"quantum", "sample"} : Quantum(e)
  BY <1>4 DEF Quantum, Parsed, NoInst, Address, guest
<1>5. CASE EventInstruction
  <2>1. Taken /\ Alloc(Head(tokens).pc, pending)
    BY <1>5 DEF EventInstruction
  <2>2. NewAddress \in Address
    BY DEF NewAddress, Address, IInv, TypeOK
  <2>3. Parsed'
    BY <1>5, <2>1, <2>2, TakenType DEF EventInstruction, Parsed, guest
  <2> QED
    BY <2>1, <2>3, TakenType DEF RingNext, Parsed
<1>6. CASE EventUnknown
  BY <1>6, TakenType DEF EventUnknown, Parsed, NoInst, Address, guest
<1>7. CASE EventMemory
  <2>1. Taken /\ Parsed'
    BY <1>7, TakenType DEF EventMemory, Parsed, guest
  <2>2. UNCHANGED ring \/ LoadsPush(current.ring, current.slot, Head(tokens).pc)
    BY <1>7 DEF EventMemory
  <2>3. current.ring \in Nat /\ current.slot \in Nat
    BY DEF Parsed, Address
  <2> QED
    BY <2>1, <2>2, <2>3, TakenType DEF RingNext
<1>8. CASE EventPrefetch
  BY <1>8, TakenType DEF EventPrefetch, Parsed, guest
<1>9. CASE EventCpuid
  <2>1. Taken /\ Alloc(0, {})
    BY <1>9 DEF EventCpuid
  <2>2. Parsed'
    BY <1>9, <2>1, TakenType DEF EventCpuid, Parsed, guest
  <2> QED
    BY <2>1, <2>2 DEF RingNext
<1>10. CASE RunDone
  BY <1>10 DEF RunDone, Parsed, guest
<1>11. CASE Emit
  BY <1>11 DEF Emit, Parsed, guest, parser, RingNext
<1>12. CASE Discard
  BY <1>12 DEF Discard, Parsed, guest, parser, RingNext
<1>13. CASE Break
  BY <1>13, ChangeRing DEF Break
<1>14. CASE BreakNow
  BY <1>14, ChangeRing DEF BreakNow
<1>15. CASE EmitDone
  BY <1>15 DEF EmitDone, Parsed, guest
<1>16. CASE EndSample
  BY <1>16, ChangeRing DEF EndSample
<1>17. CASE UNCHANGED vars
  BY <1>17 DEF vars, Parsed, guest, parser
<1> QED
  BY <1>1, <1>2, <1>3, <1>4, <1>5, <1>6, <1>7, <1>8, <1>9, <1>10, <1>11, <1>12,
     <1>13, <1>14, <1>15, <1>16, <1>17 DEF Next

LEMMA StreamInitInv == StreamInit => StreamInv
<1>1. StreamInit => Parsed
  BY DEF StreamInit, Parsed, NoInst, Address
<1> QED
  BY <1>1, InitInv DEF StreamInit, StreamInv

THEOREM StreamInvariance == Spec => []StreamInv
<1>1. StreamInv /\ [Next]_vars => StreamInv'
  BY StreamStep, RingStep DEF StreamInv
<1> QED
  BY <1>1, StreamInitInv, PTL DEF Spec

\* The stream of a CPU implements the ring: its initial states are initial
\* states of the ring, and each of its steps is a step of the ring or none.
THEOREM StreamImplementsRing == Spec => RingSpec
<1>1. StreamInit => Init
  BY DEF StreamInit
<1>2. StreamInv /\ [Next]_vars => [RingNext]_ring
  BY StreamStep
<1> QED
  BY <1>1, <1>2, StreamInvariance, PTL DEF Spec, RingSpec

\* The ring has its types and its space for the timer, in every stream.
THEOREM StreamTypes == Spec => []TypeOK
BY StreamImplementsRing, RingTypes, PTL

\* Whatever is parsed, delivered, injected, emptied or broken off: what is
\* handed on to the timers is what was allocated, in that order.
THEOREM StreamOrder == Spec => []InOrder
BY StreamImplementsRing, RingOrder, PTL

\* And the last Space instructions handed on are still what they were, until
\* the ring is emptied.
THEOREM StreamHistory == Spec => []HistoryIntact
BY StreamImplementsRing, RingHistory, PTL

-----------------------------------------------------------------------------
\* What the tokens, the ring and the timer have to do with each other

\* The tokens that run() has not taken, the unwritten ones included.
Unparsed == tokens \o writing

\* k places behind `out'
Queue(k) == mem[pul][Wrapped(out + k)]

Newest == [ring |-> pul, slot |-> Wrapped(out + (elems - 1))]

\* The tokens of an instruction come together and in order, but for those
\* that are gone.
Sentence(i) ==
  LET t == Unparsed[i] IN
  /\ t.pc \in 1..executed
  /\ t.kind \in {"prefetch", "cpuid"} =>
       i < Len(Unparsed) /\ Unparsed[i + 1] = Token("inst", t.pc)
  /\ t.kind = "mem" /\ i > 1 =>
       Unparsed[i - 1].pc = t.pc /\ Unparsed[i - 1].kind \in {"inst", "noinst"}
  /\ t.kind = "inst" /\ t.pc \in accesses =>
       \/ i < Len(Unparsed) /\ Unparsed[i + 1] = Token("mem", t.pc)
       \/ IF i = 1 THEN pending = {t.pc} ELSE Unparsed[i - 1].kind = "prefetch"

Grammar ==
  /\ \A i \in 1..Len(Unparsed) : Sentence(i)
  /\ pending # {} =>
       Unparsed # <<>> /\ Unparsed[1].kind = "inst" /\ pending = {Unparsed[1].pc}
  /\ accesses \subseteq 1..executed

\* Where run() is: at the end of a quantum it takes all, and an access that
\* is delivered apart is in `cut'.
Position ==
  /\ pc \in {"guest", "run", "emit"}
  /\ \A i \in 1..Len(writing) : writing[i].pc = executed
  /\ pc = "run" /\ ending # "guest" => writing = <<>>
  /\ pc = "emit" => Unparsed = <<>>
  /\ pc = "run" /\ writing # <<>> /\ writing[1].kind = "mem" => executed \in cut
  /\ Unparsed # <<>> /\ Unparsed[1].kind = "mem" =>
       /\ pc = "guest" => Unparsed[1].pc \in cut
       /\ pc = "run" /\ current # NoInst =>
            elems > 0 /\ current = Newest /\ Queue(elems - 1).pc = Unparsed[1].pc

\* the last instruction parsed, whose access comes next
Awaiting(k) ==
  /\ pc = "run" /\ current # NoInst /\ k = elems - 1
  /\ Unparsed # <<>> /\ Unparsed[1] = Token("mem", Queue(k).pc)

Accesses ==
  \A k \in 0..elems - 1 :
    /\ Queue(k).pc \in 0..executed
    /\ Queue(k).loads \subseteq {Queue(k).pc}
    /\ Queue(k).pc \in accesses \ cut =>
         Queue(k).loads = {Queue(k).pc} \/ Awaiting(k)

\* A fake instruction is followed by the real one.
Fakes ==
  /\ \A k \in 0..elems - 2 : Queue(k).pc = 0 => Queue(k + 1).pc # 0
  /\ elems > 0 /\ Queue(elems - 1).pc = 0 =>
       Unparsed # <<>> /\ Unparsed[1].kind = "inst"

\* Of what was handed on since an instruction that the timer remembers, every
\* other at least is remembered too, unless the ring has been emptied.
Recent ==
  /\ held \in Seq([ring : Nat, slot : Nat, id : Nat]) /\ Len(held) <= Hold
  /\ sim_state \in {"FUNCTIONAL", "FULL_WARMING", "SIMULATION"}
  /\ sim_state = "FUNCTIONAL" => elems = 0 /\ Unparsed = <<>>
  /\ \A n \in 1..Len(held) :
       (\E k \in 1..Len(handed) : handed[k] = held[n]) =>
       \E k \in 1..Len(handed) :
         /\ handed[k] = held[n]
         /\ Len(handed) <= k + 2 * (Len(held) - n)
                           + (IF elems > 0 /\ Queue(0).pc # 0 THEN 1 ELSE 0)

Meaning == Grammar /\ Position /\ Accesses /\ Fakes /\ Recent

\* What is in the ring does not change with it.
LEMMA RingSame ==
  ASSUME UNCHANGED ring
  PROVE  /\ \A k : Queue(k)' = Queue(k)
         /\ Newest' = Newest /\ elems' = elems /\ handed' = handed
BY DEF ring, sizes, Queue, Newest, Wrapped

\* A token is taken from the front.
LEMMA UnparsedTaken ==
  ASSUME Parsed, Taken, UNCHANGED writing
  PROVE  /\ Unparsed # <<>> /\ Unparsed[1] = Head(tokens) /\ Len(Unparsed) \in Nat
         /\ Unparsed \in Seq(Tok) /\ Unparsed' \in Seq(Tok)
         /\ Len(Unparsed') = Len(Unparsed) - 1
         /\ \A i \in 1..Len(Unparsed) - 1 : Unparsed'[i] = Unparsed[i + 1]
<1>1. tokens \in Seq(Tok) /\ writing \in Seq(Tok) /\ tokens # <<>> /\ Len(tokens) > 0
  BY DEF Parsed, Taken
<1>2. /\ tokens' = Tail(tokens) /\ Tail(tokens) \in Seq(Tok)
      /\ Len(Tail(tokens)) = Len(tokens) - 1
      /\ \A i \in 1..Len(tokens) - 1 : Tail(tokens)[i] = tokens[i + 1]
      /\ Head(tokens) = tokens[1]
  BY <1>1, HeadTailProperties DEF Taken
<1>3. /\ Unparsed \in Seq(Tok) /\ Len(Unparsed) = Len(tokens) + Len(writing)
      /\ \A i \in 1..Len(Unparsed) :
           Unparsed[i] = IF i <= Len(tokens) THEN tokens[i] ELSE writing[i - Len(tokens)]
  BY <1>1, ConcatProperties DEF Unparsed
<1>4. /\ Unparsed' \in Seq(Tok) /\ Len(Unparsed') = Len(tokens) - 1 + Len(writing)
      /\ \A i \in 1..Len(Unparsed') :
           Unparsed'[i] = IF i <= Len(tokens) - 1 THEN tokens[i + 1]
                          ELSE writing[i - (Len(tokens) - 1)]
  <2>1. Unparsed' = Tail(tokens) \o writing
    BY <1>2 DEF Unparsed
  <2> QED
    BY <2>1, <1>1, <1>2, ConcatProperties
<1>5. Len(tokens) \in Nat /\ Len(writing) \in Nat
  BY <1>1
<1> QED
  BY <1>1, <1>2, <1>3, <1>4, <1>5

LEMMA UnparsedType ==
  ASSUME Parsed
  PROVE  /\ Unparsed \in Seq(Tok) /\ Len(Unparsed) \in Nat
         /\ Len(Unparsed) = Len(tokens) + Len(writing)
         /\ (Unparsed = <<>> <=> tokens = <<>> /\ writing = <<>>)
         /\ tokens = <<>> => Unparsed = writing
         /\ writing = <<>> => Unparsed = tokens
<1>1. tokens \in Seq(Tok) /\ writing \in Seq(Tok)
  BY DEF Parsed
<1>2. Unparsed \in Seq(Tok) /\ Len(Unparsed) = Len(tokens) + Len(writing)
  BY <1>1, ConcatProperties DEF Unparsed
<1>3. Len(tokens) \in Nat /\ Len(writing) \in Nat
      /\ (tokens = <<>> <=> Len(tokens) = 0) /\ (writing = <<>> <=> Len(writing) = 0)
      /\ (Unparsed = <<>> <=> Len(Unparsed) = 0)
  BY <1>1, <1>2, EmptySeq
<1>4. (tokens = <<>> => Unparsed = writing) /\ (writing = <<>> => Unparsed = tokens)
  BY <1>1, ConcatEmptySeq DEF Unparsed
<1> QED
  BY <1>2, <1>3, <1>4

\* A token is written to the queue.
LEMMA UnparsedWrite ==
  ASSUME Parsed, Write PROVE Unparsed' = Unparsed
<1>1. tokens \in Seq(Tok) /\ writing \in Seq(Tok) /\ writing # <<>>
  BY DEF Parsed, Write
<1>2. Head(writing) \in Tok /\ Tail(writing) \in Seq(Tok)
      /\ writing = <<Head(writing)>> \o Tail(writing)
  BY <1>1, HeadTailProperties
<1>3. tokens' = tokens \o <<Head(writing)>> /\ writing' = Tail(writing)
  BY <1>1, <1>2, AppendIsConcat DEF Write
<1>4. <<Head(writing)>> \in Seq(Tok)
  BY <1>2
<1> QED
  BY <1>1, <1>2, <1>3, <1>4, ConcatAssociative DEF Unparsed

-----------------------------------------------------------------------------
\* The operations of the ring, seen from its places

LEMMA QueueTypes ==
  ASSUME IInv, NEW k \in 0..elems - 1
  PROVE  /\ Queue(k) \in Insn /\ Wrapped(out + k) \in DOMAIN mem[pul]
         /\ pul \in DOMAIN mem /\ Wrapped(out + k) \in Nat
<1>1. k \in 0..total_size /\ DOMAIN mem[pul] = 0..total_size - 1 /\ pul \in DOMAIN mem
  BY InstructionRingAssumption DEF IInv, TypeOK
<1>2. Wrapped(out + k) \in 0..total_size - 1
  BY <1>1, WrappedSlot DEF IInv
<1>3. mem[pul] \in [DOMAIN mem[pul] -> Insn]
  BY <1>1 DEF IInv, Contents
<1> QED
  BY <1>1, <1>2, <1>3 DEF Queue, IInv, TypeOK

LEMMA QueueAlloc ==
  ASSUME IInv, NEW p \in Nat, NEW L \in SUBSET Nat, Alloc(p, L)
  PROVE  /\ elems' = elems + 1 /\ handed' = handed /\ NewAddress = Newest'
         /\ \A k \in 0..elems - 1 : Queue(k)' = Queue(k)
         /\ \A k : k = elems => Queue(k)'.pc = p /\ Queue(k)'.loads = L
<1> USE InstructionRingAssumption DEF IInv
<1> DEFINE new == [id |-> unique_id + 1, pc |-> p, loads |-> L]
<1>0. /\ safe_size \in Nat /\ elems \in Nat /\ elems \in 0..safe_size /\ out \in Nat /\ out < total_size
      /\ total_size \in Nat /\ elems < total_size /\ pul \in Nat /\ pul \in DOMAIN mem
      /\ DOMAIN mem[pul] = 0..total_size - 1 /\ in = Wrapped(out + elems)
      /\ in \in 0..total_size - 1 /\ pul + 1 \notin DOMAIN mem
      /\ mem[pul] \in [0..total_size - 1 -> Insn]
  <2>1. /\ total_size \in Nat /\ safe_size \in Nat /\ total_size = safe_size + Space
        /\ elems \in 0..safe_size /\ out \in 0..total_size - 1 /\ in \in 0..total_size - 1
        /\ pul \in 1..MaxPools /\ DOMAIN mem = old_puls \union {pul}
        /\ old_puls \subseteq 1..pul - 1 /\ DOMAIN mem[pul] = 0..total_size - 1
    BY DEF TypeOK
  <2>2. in = Wrapped(out + elems)
    BY DEF Queued
  <2>3. mem[pul] \in [DOMAIN mem[pul] -> Insn]
    BY <2>1 DEF Contents
  <2> QED
    BY <2>1, <2>2, <2>3
<1>1. ASSUME AllocHere(p, L)
      PROVE  /\ elems' = elems + 1 /\ handed' = handed /\ NewAddress = Newest'
             /\ \A k \in 0..elems - 1 : Queue(k)' = Queue(k)
             /\ \A k : k = elems => Queue(k)'.pc = p /\ Queue(k)'.loads = L
  <2>1. /\ elems # safe_size /\ elems' = elems + 1 /\ handed' = handed
        /\ UNCHANGED <<out, total_size, pul>>
        /\ mem' = [mem EXCEPT ![pul] = Fresh(@, in, p, L)]
    BY <1>1 DEF AllocHere, Given, sizes
  <2>2. mem'[pul] = [mem[pul] EXCEPT ![in] = new]
    BY <2>1, <1>0 DEF Fresh
  <2>3. mem'[pul][in] = new
    BY <2>2, <1>0
  <2>4. ASSUME NEW k \in 0..elems - 1 PROVE Queue(k)' = Queue(k)
    <3>1. k \in 0..safe_size /\ k # elems
      BY <1>0
    <3>2. Wrapped(out + k) # in
      BY <3>1, <1>0, Distinct
    <3>3. mem'[pul][Wrapped(out + k)] = mem[pul][Wrapped(out + k)]
      BY <3>2, <2>2, QueueTypes
    <3> QED
      BY <3>3, <2>1 DEF Queue, Wrapped
  <2>5. ASSUME NEW k, k = elems PROVE Queue(k)' = new
    <3>1. Wrapped(out + k)' = in
      BY <2>1, <2>5, <1>0 DEF Wrapped
    <3> QED
      BY <3>1, <2>3, <2>1 DEF Queue
  <2>6. NewAddress = Newest'
    <3>1. elems' - 1 = elems
      BY <2>1, <1>0
    <3> QED
      BY <3>1, <2>1, <1>0 DEF NewAddress, Newest, Wrapped
  <2> QED
    BY <2>1, <2>4, <2>5, <2>6
<1>2. ASSUME AllocGrown(p, L)
      PROVE  /\ elems' = elems + 1 /\ handed' = handed /\ NewAddress = Newest'
             /\ \A k \in 0..elems - 1 : Queue(k)' = Queue(k)
             /\ \A k : k = elems => Queue(k)'.pc = p /\ Queue(k)'.loads = L
  <2>1. /\ elems = safe_size /\ elems' = elems + 1 /\ handed' = handed
        /\ out' = 0 /\ pul' = pul + 1 /\ total_size' = 2 * total_size
        /\ mem' = [r \in DOMAIN mem \union {pul + 1} |->
                     IF r = pul + 1 THEN Fresh(Doubled, elems, p, L) ELSE mem[r]]
    BY <1>2 DEF AllocGrown, Given
  <2>2. mem'[pul + 1] = [Doubled EXCEPT ![elems] = new]
    BY <2>1 DEF Fresh
  <2>3. ASSUME NEW k \in 0..elems PROVE Wrapped(out + k)' = k
    <3>1. out' + k = k /\ ~(k >= total_size')
      BY <2>1, <1>0
    <3> QED
      BY <3>1 DEF Wrapped
  <2>4. DOMAIN Doubled = 0..2 * total_size - 1
        /\ \A s \in 0..elems - 1 : Doubled[s] = mem[pul][Wrapped(out + s)]
    BY <1>0 DEF Doubled
  <2>5. ASSUME NEW k \in 0..elems - 1 PROVE Queue(k)' = Queue(k)
    <3>1. k \in 0..elems /\ k # elems
      BY <1>0
    <3>2. mem'[pul + 1][k] = Doubled[k]
      BY <2>2, <3>1
    <3>3. Wrapped(out + k)' = k
      BY <3>1, <2>3
    <3> QED
      BY <3>2, <3>3, <2>1, <2>4 DEF Queue
  <2>6. ASSUME NEW k, k = elems PROVE Queue(k)' = new
    <3>1. elems \in DOMAIN Doubled
      BY <2>4, <1>0
    <3>2. mem'[pul + 1][k] = new
      BY <3>1, <2>2, <2>6
    <3>3. Wrapped(out + k)' = k
      BY <2>3, <2>6, <1>0
    <3> QED
      BY <3>2, <3>3, <2>1 DEF Queue
  <2>7. NewAddress = Newest'
    <3>1. elems' - 1 = elems /\ out' + elems = elems /\ ~(elems >= total_size')
      BY <2>1, <1>0
    <3> QED
      BY <3>1, <2>1, <1>0 DEF NewAddress, Newest, Wrapped
  <2> QED
    BY <2>1, <2>5, <2>6, <2>7
<1> QED
  BY <1>1, <1>2 DEF Alloc

LEMMA QueueNext ==
  ASSUME IInv, NextIns
  PROVE  /\ elems > 0 /\ elems' = elems - 1
         /\ handed' = Append(handed, [ring |-> pul, slot |-> out, id |-> Queue(0).id])
         /\ Wrapped(out + 0) = out
         /\ \A k \in 0..elems - 2 : Queue(k)' = Queue(k + 1)
<1> USE InstructionRingAssumption DEF IInv
<1>1. /\ elems \in Nat /\ elems <= safe_size /\ out \in Nat /\ out < total_size
      /\ total_size \in Nat /\ safe_size \in Nat /\ safe_size < total_size
  BY DEF TypeOK
<1>2. /\ elems # 0 /\ elems' = elems - 1 /\ out' = Wrapped(out + 1)
      /\ UNCHANGED <<mem, pul, total_size>>
      /\ handed' = Append(handed, [ring |-> pul, slot |-> out, id |-> mem[pul][out].id])
  BY DEF NextIns, sizes
<1>3. Wrapped(out + 0) = out
  BY <1>1 DEF Wrapped
<1>4. ASSUME NEW k \in 0..elems - 2 PROVE Wrapped(out + k)' = Wrapped(out + (k + 1))
  <2>1. k \in Nat /\ k + 1 < total_size /\ total_size' = total_size
    BY <1>1, <1>2
  <2>2. CASE out + 1 >= total_size
    <3>1. out' = 0 /\ out + 1 = total_size
      BY <2>2, <1>1, <1>2 DEF Wrapped
    <3> QED
      BY <3>1, <2>1, <1>1 DEF Wrapped
  <2>3. CASE ~(out + 1 >= total_size)
    <3>1. out' = out + 1
      BY <2>3, <1>2 DEF Wrapped
    <3> QED
      BY <3>1, <2>1, <1>1 DEF Wrapped
  <2> QED
    BY <2>2, <2>3
<1> QED
  BY <1>1, <1>2, <1>3, <1>4 DEF Queue

LEMMA QueuePush ==
  ASSUME IInv, elems > 0, NEW x \in Nat, LoadsPush(Newest.ring, Newest.slot, x)
  PROVE  /\ elems' = elems /\ handed' = handed /\ Newest' = Newest
         /\ \A k \in 0..elems - 2 : Queue(k)' = Queue(k)
         /\ \A k : k = elems - 1 =>
              Queue(k)'.pc = Queue(k).pc /\ Queue(k)'.loads = Queue(k).loads \union {x}
<1> USE InstructionRingAssumption DEF IInv
<1> DEFINE s == Wrapped(out + (elems - 1))
<1>1. elems \in Nat /\ elems <= safe_size /\ safe_size \in Nat
  BY DEF TypeOK
<1>2. /\ pul \in DOMAIN mem /\ s \in DOMAIN mem[pul]
      /\ mem' = [mem EXCEPT ![pul][s].loads = @ \union {x}]
      /\ UNCHANGED <<out, elems, pul, total_size, handed>>
  BY DEF LoadsPush, Newest, sizes
<1>3. mem[pul] \in [DOMAIN mem[pul] -> Insn]
  BY <1>2 DEF Contents
<1>4. mem'[pul] = [mem[pul] EXCEPT ![s].loads = @ \union {x}]
  BY <1>2
<1>5. ASSUME NEW k \in 0..elems - 2 PROVE Queue(k)' = Queue(k)
  <2>1. k \in 0..safe_size /\ elems - 1 \in 0..safe_size /\ k # elems - 1
    BY <1>1
  <2>2. Wrapped(out + k) # s
    BY <2>1, Distinct
  <2>3. k \in 0..elems - 1
    BY <1>1
  <2>4. mem'[pul][Wrapped(out + k)] = mem[pul][Wrapped(out + k)]
    BY <2>2, <2>3, <1>4, QueueTypes
  <2> QED
    BY <2>4, <1>2 DEF Queue, Wrapped
<1>6. ASSUME NEW k, k = elems - 1
      PROVE  Queue(k)'.pc = Queue(k).pc /\ Queue(k)'.loads = Queue(k).loads \union {x}
  <2>1. mem[pul][s] \in Insn
    BY <1>2, <1>3
  <2>2. mem'[pul][s] = [mem[pul][s] EXCEPT !.loads = @ \union {x}]
    BY <1>2, <1>4
  <2>3. Wrapped(out + k)' = s /\ Wrapped(out + k) = s
    BY <1>2, <1>6 DEF Wrapped
  <2> QED
    BY <2>1, <2>2, <2>3, <1>2 DEF Queue, Insn
<1> QED
  BY <1>2, <1>5, <1>6 DEF Newest, Wrapped

-----------------------------------------------------------------------------
\* The tokens of an instruction

\* the tokens w of an instruction of shape s at p
Spelled(w, s, p) ==
  /\ w \in Seq(Tok) /\ Len(w) \in 1..3 /\ w[1].kind # "mem"
  /\ \A j \in 1..Len(w) :
       /\ w[j].pc = p
       /\ w[j].kind \in {"prefetch", "cpuid"} =>
            j < Len(w) /\ w[j + 1] = Token("inst", p)
       /\ w[j].kind = "mem" => j > 1 /\ w[j - 1].kind \in {"inst", "noinst"}
       /\ w[j].kind = "inst" /\ s \in {"load", "prefetch", "asm"} =>
            \/ j < Len(w) /\ w[j + 1] = Token("mem", p)
            \/ j > 1 /\ w[j - 1].kind = "prefetch"

LEMMA Sentences ==
  ASSUME NEW s \in Shapes, NEW p \in Nat, NEW w, w = TokensOf(s, p)
  PROVE  Spelled(w, s, p)
<1> USE DEF Spelled
<1>0. s \in {"plain", "load", "prefetch", "cpuid", "asm", "unknown"}
  BY TokenStreamAssumption DEF Kinds
<1>1. w \in Seq(Tok)
  BY TokensOfType
<1>2. /\ Kinds["plain"] = <<"inst">> /\ Kinds["load"] = <<"inst", "mem">>
      /\ Kinds["prefetch"] = <<"prefetch", "inst">>
      /\ Kinds["cpuid"] = <<"cpuid", "inst">>
      /\ Kinds["asm"] = <<"cpuid", "inst", "mem">>
      /\ Kinds["unknown"] = <<"noinst", "mem">>
  BY DEF Kinds
<1>3. \A ks : ks = Kinds[s] => w = [i \in DOMAIN ks |-> Token(ks[i], p)]
  BY DEF TokensOf
<1>4. CASE s = "plain"
  <2>1. w = [i \in 1..1 |-> Token(<<"inst">>[i], p)]
    BY <1>2, <1>3, <1>4
  <2>2. Len(w) = 1 /\ w[1] = Token("inst", p)
    BY <2>1, <1>1
  <2> QED
    BY <2>2, <1>1, <1>4 DEF Token
<1>5. CASE s = "load"
  <2>1. w = [i \in 1..2 |-> Token(<<"inst", "mem">>[i], p)]
    BY <1>2, <1>3, <1>5
  <2>2. Len(w) = 2 /\ w[1] = Token("inst", p) /\ w[2] = Token("mem", p)
    BY <2>1, <1>1
  <2> QED
    BY <2>2, <1>1, <1>5 DEF Token
<1>6. CASE s = "prefetch"
  <2>1. w = [i \in 1..2 |-> Token(<<"prefetch", "inst">>[i], p)]
    BY <1>2, <1>3, <1>6
  <2>2. Len(w) = 2 /\ w[1] = Token("prefetch", p) /\ w[2] = Token("inst", p)
    BY <2>1, <1>1
  <2> QED
    BY <2>2, <1>1, <1>6 DEF Token
<1>7. CASE s = "cpuid"
  <2>1. w = [i \in 1..2 |-> Token(<<"cpuid", "inst">>[i], p)]
    BY <1>2, <1>3, <1>7
  <2>2. Len(w) = 2 /\ w[1] = Token("cpuid", p) /\ w[2] = Token("inst", p)
    BY <2>1, <1>1
  <2> QED
    BY <2>2, <1>1, <1>7 DEF Token
<1>8. CASE s = "asm"
  <2>1. w = [i \in 1..3 |-> Token(<<"cpuid", "inst", "mem">>[i], p)]
    BY <1>2, <1>3, <1>8
  <2>2. Len(w) = 3 /\ w[1] = Token("cpuid", p) /\ w[2] = Token("inst", p)
        /\ w[3] = Token("mem", p)
    BY <2>1, <1>1
  <2> QED
    BY <2>2, <1>1, <1>8 DEF Token
<1>9. CASE s = "unknown"
  <2>1. w = [i \in 1..2 |-> Token(<<"noinst", "mem">>[i], p)]
    BY <1>2, <1>3, <1>9
  <2>2. Len(w) = 2 /\ w[1] = Token("noinst", p) /\ w[2] = Token("mem", p)
    BY <2>1, <1>1
  <2> QED
    BY <2>2, <1>1, <1>9 DEF Token
<1> QED
  BY <1>0, <1>4, <1>5, <1>6, <1>7, <1>8, <1>9

\* The guest executes: new tokens come behind the others.
LEMMA ExecuteMeaning ==
  ASSUME StreamInv, Meaning, Execute PROVE Meaning'
<1> USE DEF StreamInv
<1>0. PICK p : p = executed + 1
  OBVIOUS
<1>1. PICK s \in Shapes :
        /\ writing' = TokensOf(s, p)
        /\ accesses' = IF s \in {"load", "prefetch", "asm"}
                       THEN accesses \union {p} ELSE accesses
  BY <1>0 DEF Execute
<1>2. /\ pc = "guest" /\ writing = <<>> /\ sim_state # "FUNCTIONAL" /\ executed' = p
      /\ p = executed + 1 /\ p \in Nat
      /\ UNCHANGED <<ring, parser, timer, sim_state, cut>> /\ executed \in Nat
      /\ UNCHANGED <<tokens, pc, ending, current, pending, held>>
  BY <1>0 DEF Execute, Needs, parser, timer, Parsed
<1>3. PICK w : w = writing'
  OBVIOUS
<1>4. Spelled(w, s, p)
  BY <1>1, <1>2, <1>3, Sentences
<1> USE DEF Spelled
<1>5. /\ Unparsed = tokens /\ tokens \in Seq(Tok) /\ Len(tokens) \in Nat
      /\ Unparsed' = tokens \o w
  BY <1>2, <1>3, UnparsedType DEF Unparsed, Parsed
<1>6. /\ Len(Unparsed') = Len(tokens) + Len(w) /\ Unparsed' \in Seq(Tok)
      /\ \A i \in 1..Len(Unparsed') :
           Unparsed'[i] = IF i <= Len(tokens) THEN tokens[i] ELSE w[i - Len(tokens)]
  BY <1>4, <1>5, ConcatProperties
<1>7. Unparsed' # <<>>
  BY <1>4, <1>5, <1>6, EmptySeq
<1>8. tokens # <<>> <=> Len(tokens) > 0
  BY <1>5, EmptySeq
<1>9. accesses \subseteq 1..executed /\ accesses' \subseteq accesses \union {p}
  BY <1>1 DEF Meaning, Grammar
<1>10. ASSUME NEW i \in 1..Len(Unparsed') PROVE Sentence(i)'
  <2>1. CASE i <= Len(tokens)
    <3>1. i \in 1..Len(tokens) /\ Unparsed'[i] = tokens[i] /\ Sentence(i)
      BY <2>1, <1>5, <1>6 DEF Meaning, Grammar
    <3>2. i < Len(tokens) => Unparsed'[i + 1] = tokens[i + 1] /\ i < Len(Unparsed')
      BY <3>1, <1>4, <1>5, <1>6
    <3>3. i > 1 => Unparsed'[i - 1] = tokens[i - 1]
      BY <3>1, <1>4, <1>5, <1>6
    <3>4. tokens[i].pc \in 1..executed /\ (tokens[i].pc \in accesses' => tokens[i].pc \in accesses)
      BY <3>1, <1>2, <1>5, <1>9 DEF Sentence
    <3> QED
      BY <3>1, <3>2, <3>3, <3>4, <1>2, <1>5 DEF Sentence
  <2>2. CASE i > Len(tokens)
    <3>1. PICK j \in 1..Len(w) : j = i - Len(tokens)
      BY <2>2, <1>4, <1>5, <1>6
    <3>2. Unparsed'[i] = w[j] /\ i \in Nat
      BY <3>1, <2>2, <1>5, <1>6
    <3>3. j < Len(w) => Unparsed'[i + 1] = w[j + 1] /\ i < Len(Unparsed')
      BY <3>1, <1>4, <1>5, <1>6
    <3>4. ASSUME j > 1
          PROVE  Unparsed'[i - 1] = w[j - 1] /\ i > 1 /\ w[j - 1].pc = p
      <4>1. /\ i - 1 \in 1..Len(Unparsed') /\ ~(i - 1 <= Len(tokens))
            /\ i - 1 - Len(tokens) = j - 1 /\ j - 1 \in 1..Len(w) /\ i > 1
        BY <3>1, <3>4, <1>4, <1>5, <1>6
      <4> QED
        BY <4>1, <1>4, <1>6
    <3>5. p \in accesses' => s \in {"load", "prefetch", "asm"}
      BY <1>1, <1>2, <1>9
    <3>6. w[j].pc = p /\ p \in 1..executed'
      BY <1>2, <1>4, <3>1
    <3> QED
      BY <3>1, <3>2, <3>3, <3>4, <3>5, <3>6, <1>4 DEF Sentence
  <2> QED
    BY <2>1, <2>2, <1>5
<1>11. tokens # <<>> => Unparsed'[1] = Unparsed[1]
  BY <1>4, <1>5, <1>6, <1>8
<1>12. tokens = <<>> => Unparsed'[1] = w[1]
  BY <1>4, <1>5, <1>6, <1>8
<1>13. Grammar'
  BY <1>1, <1>2, <1>5, <1>7, <1>9, <1>10, <1>11 DEF Meaning, Grammar
<1>14. Position'
  <2>1. \A i \in 1..Len(writing') : writing'[i].pc = executed'
    BY <1>2, <1>3, <1>4
  <2>2. Unparsed'[1].kind = "mem" => Unparsed'[1].pc \in cut'
    BY <1>2, <1>4, <1>5, <1>11, <1>12 DEF Meaning, Position
  <2> QED
    BY <2>1, <2>2, <1>2 DEF Meaning, Position
<1>15. /\ \A k : Queue(k)' = Queue(k)
       /\ elems' = elems /\ handed' = handed
  BY <1>2, RingSame
<1>16. Accesses'
  <2> SUFFICES ASSUME NEW k \in 0..elems - 1
               PROVE  /\ Queue(k).pc \in 0..executed'
                      /\ Queue(k).loads \subseteq {Queue(k).pc}
                      /\ Queue(k).pc \in accesses' \ cut => Queue(k).loads = {Queue(k).pc}
    BY <1>2, <1>15 DEF Accesses
  <2>1. /\ Queue(k).pc \in 0..executed
        /\ Queue(k).loads \subseteq {Queue(k).pc}
        /\ Queue(k).pc \in accesses \ cut => Queue(k).loads = {Queue(k).pc}
    BY <1>2 DEF Meaning, Accesses, Awaiting
  <2> QED
    BY <2>1, <1>2, <1>9
<1>17. Fakes'
  BY <1>5, <1>7, <1>11, <1>15 DEF Meaning, Fakes
<1>18. Recent'
  BY <1>2, <1>15 DEF Meaning, Recent
<1> QED
  BY <1>13, <1>14, <1>16, <1>17, <1>18 DEF Meaning

-----------------------------------------------------------------------------
\* run() takes a token.

LEMMA FirstToken ==
  ASSUME StreamInv, Meaning, Taken, UNCHANGED writing, NEW t, t = Head(tokens)
  PROVE  /\ t.pc \in Nat /\ t.pc \in 1..executed /\ pc = "run"
         /\ Unparsed # <<>> /\ Unparsed[1] = t
         /\ t.kind \in {"prefetch", "cpuid"} =>
              Unparsed' # <<>> /\ Unparsed'[1] = Token("inst", t.pc)
         /\ Unparsed' # <<>> /\ Unparsed'[1].kind = "mem" =>
              t.kind \in {"inst", "noinst"} /\ Unparsed'[1].pc = t.pc
         /\ t.kind # "inst" => pending = {}
         /\ t.kind = "inst" => pending \subseteq {t.pc}
         /\ t.kind = "inst" /\ t.pc \in accesses =>
              pending = {t.pc} \/ (Unparsed' # <<>> /\ Unparsed'[1] = Token("mem", t.pc))
         /\ sim_state # "FUNCTIONAL"
<1> USE DEF StreamInv
<1>1. /\ Unparsed # <<>> /\ Unparsed[1] = t /\ Len(Unparsed) \in Nat
      /\ Unparsed \in Seq(Tok) /\ Unparsed' \in Seq(Tok)
      /\ Len(Unparsed') = Len(Unparsed) - 1
      /\ \A i \in 1..Len(Unparsed) - 1 : Unparsed'[i] = Unparsed[i + 1]
  BY UnparsedTaken
<1>2. Len(Unparsed) > 0 /\ (Unparsed' # <<>> <=> Len(Unparsed) > 1)
  BY <1>1, EmptySeq
<1>3. Sentence(1) /\ (Len(Unparsed) > 1 => Sentence(2) /\ Unparsed'[1] = Unparsed[2])
  BY <1>1, <1>2 DEF Meaning, Grammar
<1>4. t.pc \in 1..executed /\ executed \in Nat
  BY <1>1, <1>3 DEF Sentence, Parsed
<1>5. t.kind \in {"prefetch", "cpuid"} =>
        Unparsed' # <<>> /\ Unparsed'[1] = Token("inst", t.pc)
  BY <1>1, <1>2, <1>3 DEF Sentence
<1>6. Unparsed' # <<>> /\ Unparsed'[1].kind = "mem" =>
        t.kind \in {"inst", "noinst"} /\ Unparsed'[1].pc = t.pc
  BY <1>1, <1>2, <1>3 DEF Sentence
<1>7. /\ t.kind # "inst" => pending = {}
      /\ t.kind = "inst" => pending \subseteq {t.pc}
  BY <1>1 DEF Meaning, Grammar
<1>8. t.kind = "inst" /\ t.pc \in accesses =>
        pending = {t.pc} \/ (Unparsed' # <<>> /\ Unparsed'[1] = Token("mem", t.pc))
  BY <1>1, <1>2, <1>3 DEF Sentence
<1>9. sim_state # "FUNCTIONAL" /\ pc = "run"
  BY <1>1 DEF Meaning, Recent, Taken
<1> QED
  BY <1>1, <1>4, <1>5, <1>6, <1>7, <1>8, <1>9

LEMMA GrammarTaken ==
  ASSUME StreamInv, Meaning, Taken, UNCHANGED <<writing, executed, accesses>>,
         Head(tokens).kind = "prefetch" => pending' = pending \union {Head(tokens).pc},
         Head(tokens).kind # "prefetch" => pending' \in {pending, {}}
  PROVE  Grammar' \/ (Head(tokens).kind = "inst" /\ pending' # {})
<1> USE DEF StreamInv
<1> DEFINE t == Head(tokens)
<1> SUFFICES ASSUME ~(t.kind = "inst" /\ pending' # {}) PROVE Grammar'
  OBVIOUS
<1>1. /\ Unparsed # <<>> /\ Unparsed[1] = t /\ Len(Unparsed) \in Nat
      /\ Unparsed \in Seq(Tok) /\ Unparsed' \in Seq(Tok)
      /\ Len(Unparsed') = Len(Unparsed) - 1
      /\ \A i \in 1..Len(Unparsed) - 1 : Unparsed'[i] = Unparsed[i + 1]
  BY UnparsedTaken
<1>2. /\ t.kind \in {"prefetch", "cpuid"} =>
           Unparsed' # <<>> /\ Unparsed'[1] = Token("inst", t.pc)
      /\ t.kind # "inst" => pending = {}
  BY FirstToken
<1>3. t.kind = "prefetch" => pending' = {t.pc}
  BY <1>2
<1>4. t.kind # "prefetch" => pending' = {}
  BY <1>2
<1>5. Unparsed' # <<>> <=> Len(Unparsed') > 0
  BY <1>1, EmptySeq
<1>6. ASSUME NEW i \in 1..Len(Unparsed') PROVE Sentence(i)'
  <2>1. i + 1 \in 1..Len(Unparsed) /\ Unparsed'[i] = Unparsed[i + 1] /\ i \in Nat
    BY <1>1
  <2>2. Sentence(i + 1)
    BY <2>1 DEF Meaning, Grammar
  <2>3. i + 1 < Len(Unparsed) => i < Len(Unparsed') /\ Unparsed'[i + 1] = Unparsed[i + 2]
    BY <1>1, <2>1
  <2>4. i > 1 => Unparsed'[i - 1] = Unparsed[i]
    BY <1>1, <2>1
  <2>5. (i + 1) + 1 = i + 2 /\ (i + 1) - 1 = i /\ i + 1 > 1 /\ i + 1 # 1
    BY <2>1
  <2>6. /\ Unparsed[i + 1].pc \in 1..executed
        /\ Unparsed[i + 1].kind \in {"prefetch", "cpuid"} =>
             i + 1 < Len(Unparsed) /\ Unparsed[i + 2] = Token("inst", Unparsed[i + 1].pc)
        /\ Unparsed[i + 1].kind = "mem" =>
             Unparsed[i].pc = Unparsed[i + 1].pc /\ Unparsed[i].kind \in {"inst", "noinst"}
        /\ Unparsed[i + 1].kind = "inst" /\ Unparsed[i + 1].pc \in accesses =>
             \/ i + 1 < Len(Unparsed) /\ Unparsed[i + 2] = Token("mem", Unparsed[i + 1].pc)
             \/ Unparsed[i].kind = "prefetch"
    BY <2>2, <2>5 DEF Sentence
  <2>7. i = 1 /\ Unparsed[i].kind = "prefetch" => pending' = {Unparsed'[i].pc}
    BY <1>1, <1>2, <1>3 DEF Token
  <2> QED
    BY <2>1, <2>3, <2>4, <2>6, <2>7 DEF Sentence
<1>7. pending' # {} =>
        Unparsed' # <<>> /\ Unparsed'[1].kind = "inst" /\ pending' = {Unparsed'[1].pc}
  BY <1>2, <1>3, <1>4 DEF Token
<1> QED
  BY <1>6, <1>7 DEF Meaning, Grammar

\* What the timer remembers is as recent as before if the next instruction to
\* be handed on is none that is fake.
LEMMA RecentKept ==
  ASSUME StreamInv, Recent, sim_state # "FUNCTIONAL", UNCHANGED <<timer, sim_state>>,
         handed' = handed,
         elems > 0 /\ Queue(0).pc # 0 => elems' > 0 /\ Queue(0)'.pc # 0
  PROVE  Recent'
<1>1. handed \in Seq(Hand) /\ Len(handed) \in Nat /\ held' = held
  BY DEF StreamInv, IInv, Contents, timer
<1>2. Len(held) \in Nat
  BY DEF Recent
<1>3. ASSUME NEW n \in 1..Len(held), \E k \in 1..Len(handed) : handed[k] = held[n]
      PROVE  \E k \in 1..Len(handed) :
               /\ handed[k] = held[n]
               /\ Len(handed) <= k + 2 * (Len(held) - n)
                           + (IF elems' > 0 /\ Queue(0)'.pc # 0 THEN 1 ELSE 0)
  <2>1. PICK k \in 1..Len(handed) :
               /\ handed[k] = held[n]
               /\ Len(handed) <= k + 2 * (Len(held) - n)
                           + (IF elems > 0 /\ Queue(0).pc # 0 THEN 1 ELSE 0)
    BY <1>3 DEF Recent
  <2>2. Len(handed) <= k + 2 * (Len(held) - n)
                           + (IF elems' > 0 /\ Queue(0)'.pc # 0 THEN 1 ELSE 0)
    BY <2>1, <1>1, <1>2
  <2> QED
    BY <2>1, <2>2
<1> QED
  BY <1>1, <1>3 DEF Recent

LEMMA NewestAt == ASSUME NEW k, k = elems' - 1 PROVE Queue(elems - 1)' = Queue(k)'
BY DEF Queue, Wrapped

LEMMA InstructionMeaning ==
  ASSUME StreamInv, Meaning, EventInstruction PROVE Meaning'
<1> USE DEF StreamInv
<1>0. /\ Taken /\ Head(tokens).kind = "inst" /\ Alloc(Head(tokens).pc, pending)
      /\ current' = NewAddress /\ pending' = {}
      /\ UNCHANGED <<executed, writing, accesses, cut, pc, ending, timer, sim_state>>
  BY DEF EventInstruction, guest
<1>1. PICK t : t = Head(tokens)
  OBVIOUS
<1>2. /\ t.pc \in Nat /\ t.pc \in 1..executed /\ pc = "run" /\ executed \in Nat
      /\ Unparsed # <<>> /\ Unparsed[1] = t
      /\ Unparsed' # <<>> /\ Unparsed'[1].kind = "mem" => Unparsed'[1].pc = t.pc
      /\ pending \subseteq {t.pc}
      /\ t.pc \in accesses =>
           pending = {t.pc} \/ (Unparsed' # <<>> /\ Unparsed'[1] = Token("mem", t.pc))
      /\ sim_state # "FUNCTIONAL"
  BY <1>0, <1>1, FirstToken DEF Parsed
<1>3. /\ elems' = elems + 1 /\ handed' = handed /\ current' = Newest'
      /\ \A k \in 0..elems - 1 : Queue(k)' = Queue(k)
      /\ \A k : k = elems => Queue(k)'.pc = t.pc /\ Queue(k)'.loads = pending
  BY <1>0, <1>1, <1>2, QueueAlloc DEF Parsed
<1>4. elems \in Nat /\ IInv'
  BY <1>0, StreamStep, RingStep DEF IInv, TypeOK, Next
<1>5. current' # NoInst
  BY <1>3, <1>4 DEF Newest, NoInst, IInv, TypeOK
<1>6. Grammar'
  BY <1>0, GrammarTaken
<1>7. Position'
  <2>1. Unparsed' # <<>> /\ Unparsed'[1].kind = "mem" =>
          Queue(elems - 1)'.pc = Unparsed'[1].pc
    <3>1. elems = elems' - 1
      BY <1>3, <1>4
    <3> QED
      BY <3>1, <1>2, <1>3, NewestAt
  <2> QED
    BY <2>1, <1>0, <1>2, <1>3, <1>4 DEF Meaning, Position
<1>8. Accesses'
  <2> SUFFICES ASSUME NEW k \in 0..elems' - 1
               PROVE  /\ Queue(k)'.pc \in 0..executed
                      /\ Queue(k)'.loads \subseteq {Queue(k)'.pc}
                      /\ Queue(k)'.pc \in accesses \ cut =>
                           Queue(k)'.loads = {Queue(k)'.pc} \/ Awaiting(k)'
    BY <1>0 DEF Accesses
  <2>1. CASE k = elems
    <3>1. Queue(k)'.pc = t.pc /\ Queue(k)'.loads = pending /\ k = elems' - 1
      BY <2>1, <1>3, <1>4
    <3>2. Unparsed' # <<>> /\ Unparsed'[1] = Token("mem", t.pc) => Awaiting(k)'
      BY <3>1, <1>0, <1>2, <1>5 DEF Awaiting
    <3> QED
      BY <3>1, <3>2, <1>2
  <2>2. CASE k # elems
    <3>1. k \in 0..elems - 1
      BY <2>2, <1>3, <1>4
    <3>2. ~Awaiting(k)
      BY <1>0, <1>1, <1>2 DEF Awaiting, Token
    <3> QED
      BY <3>1, <3>2, <1>3 DEF Meaning, Accesses
  <2> QED
    BY <2>1, <2>2
<1>9. Fakes'
  <2>1. ASSUME NEW k \in 0..elems' - 2, Queue(k)'.pc = 0 PROVE Queue(k + 1)'.pc # 0
    <3>1. k \in 0..elems - 1 /\ k + 1 \in Nat /\ k + 1 <= elems
      BY <1>3, <1>4
    <3>2. CASE k + 1 = elems
      BY <3>2, <1>2, <1>3
    <3>3. CASE k + 1 # elems
      <4>1. k \in 0..elems - 2 /\ k + 1 \in 0..elems - 1
        BY <3>1, <3>3, <1>4
      <4>2. Queue(k)' = Queue(k) /\ Queue(k + 1)' = Queue(k + 1)
        BY <3>1, <4>1, <1>3
      <4> QED
        BY <4>1, <4>2, <2>1 DEF Meaning, Fakes
    <3> QED
      BY <3>2, <3>3
  <2>2. Queue(elems - 1)'.pc # 0
    <3>1. elems = elems' - 1
      BY <1>3, <1>4
    <3> QED
      BY <3>1, <1>2, <1>3, NewestAt
  <2> QED
    BY <2>1, <2>2 DEF Fakes
<1>10. Recent'
  <2>1. elems > 0 /\ Queue(0).pc # 0 => elems' > 0 /\ Queue(0)'.pc # 0
    BY <1>3, <1>4
  <2> QED
    BY <2>1, <1>0, <1>2, <1>3, RecentKept DEF Meaning
<1> QED
  BY <1>6, <1>7, <1>8, <1>9, <1>10 DEF Meaning

\* A token that leaves the ring alone.
LEMMA QuietToken ==
  ASSUME StreamInv, Meaning, Taken, Head(tokens).kind # "inst",
         UNCHANGED <<ring, writing, executed, accesses, cut, pc, ending, timer, sim_state>>,
         Head(tokens).kind = "mem" => current = NoInst,
         Head(tokens).kind = "noinst" => current' = NoInst,
         Head(tokens).kind = "prefetch" => pending' = pending \union {Head(tokens).pc},
         Head(tokens).kind # "prefetch" => pending' = pending
  PROVE  Meaning'
<1> USE DEF StreamInv
<1>1. PICK t : t = Head(tokens)
  OBVIOUS
<1>2. /\ pc = "run" /\ Unparsed # <<>> /\ Unparsed[1] = t /\ sim_state # "FUNCTIONAL"
      /\ Unparsed' # <<>> /\ Unparsed'[1].kind = "mem" => t.kind \in {"inst", "noinst"}
  BY <1>1, FirstToken
<1>3. /\ \A k : Queue(k)' = Queue(k)
      /\ elems' = elems /\ handed' = handed
  BY RingSame
<1>4. Grammar'
  BY GrammarTaken
<1>5. Position'
  BY <1>1, <1>2 DEF Meaning, Position
<1>6. Accesses'
  <2> SUFFICES ASSUME NEW k \in 0..elems - 1
               PROVE  /\ Queue(k).pc \in 0..executed
                      /\ Queue(k).loads \subseteq {Queue(k).pc}
                      /\ Queue(k).pc \in accesses \ cut => Queue(k).loads = {Queue(k).pc}
    BY <1>3 DEF Accesses
  <2>1. ~Awaiting(k)
    BY <1>1, <1>2 DEF Awaiting, Token
  <2> QED
    BY <2>1 DEF Meaning, Accesses
<1>7. Fakes'
  <2>1. elems > 0 => Queue(elems - 1).pc # 0
    BY <1>1, <1>2 DEF Meaning, Fakes
  <2> QED
    BY <2>1, <1>3 DEF Meaning, Fakes
<1>8. Recent'
  BY <1>2, <1>3, RecentKept DEF Meaning
<1> QED
  BY <1>4, <1>5, <1>6, <1>7, <1>8 DEF Meaning

LEMMA MemoryMeaning ==
  ASSUME StreamInv, Meaning, EventMemory PROVE Meaning'
<1> USE DEF StreamInv
<1>0. /\ Taken /\ Head(tokens).kind = "mem"
      /\ IF current = NoInst THEN UNCHANGED ring
         ELSE LoadsPush(current.ring, current.slot, Head(tokens).pc)
      /\ UNCHANGED <<executed, writing, accesses, cut, pc, ending, current, pending,
                     timer, sim_state>>
  BY DEF EventMemory, guest
<1>1. CASE current = NoInst
  BY <1>0, <1>1, QuietToken
<1>2. CASE current # NoInst
  <2>1. PICK t : t = Head(tokens)
    OBVIOUS
  <2>2. /\ t.pc \in Nat /\ pc = "run" /\ Unparsed # <<>> /\ Unparsed[1] = t
        /\ t.kind = "mem" /\ sim_state # "FUNCTIONAL"
        /\ ~(Unparsed' # <<>> /\ Unparsed'[1].kind = "mem")
    BY <1>0, <2>1, FirstToken
  <2>3. elems > 0 /\ current = Newest /\ Queue(elems - 1).pc = t.pc
    BY <1>2, <2>2 DEF Meaning, Position
  <2>4. /\ elems' = elems /\ handed' = handed
        /\ \A k \in 0..elems - 2 : Queue(k)' = Queue(k)
        /\ \A k : k = elems - 1 =>
             Queue(k)'.pc = Queue(k).pc /\ Queue(k)'.loads = Queue(k).loads \union {t.pc}
    BY <1>0, <1>2, <2>1, <2>2, <2>3, QueuePush
  <2>5. elems \in Nat
    BY DEF IInv, TypeOK
  <2>6. \A k \in 0..elems - 1 : k \in 0..elems - 2 \/ k = elems - 1
    BY <2>5
  <2>7. \A k \in 0..elems - 1 : Queue(k)'.pc = Queue(k).pc
    BY <2>4, <2>6
  <2>8. Grammar'
    BY <1>0, GrammarTaken
  <2>9. Position'
    BY <1>0, <2>2 DEF Meaning, Position
  <2>10. Accesses'
    <3> SUFFICES ASSUME NEW k \in 0..elems - 1
                 PROVE  /\ Queue(k)'.pc \in 0..executed
                        /\ Queue(k)'.loads \subseteq {Queue(k)'.pc}
                        /\ Queue(k)'.pc \in accesses \ cut => Queue(k)'.loads = {Queue(k)'.pc}
      BY <1>0, <2>4 DEF Accesses
    <3>1. CASE k = elems - 1
      BY <3>1, <2>3, <2>4 DEF Meaning, Accesses
    <3>2. CASE k # elems - 1
      <4>1. Queue(k)' = Queue(k)
        BY <3>2, <2>4, <2>6
      <4>2. ~Awaiting(k)
        BY <3>2 DEF Awaiting
      <4> QED
        BY <4>1, <4>2 DEF Meaning, Accesses
    <3> QED
      BY <3>1, <3>2
  <2>11. Fakes'
    <3>1. Queue(elems - 1)'.pc # 0
      <4>1. Queue(elems - 1).pc # 0
        BY <2>2, <2>3 DEF Meaning, Fakes
      <4>2. PICK k : k = elems - 1
        OBVIOUS
      <4>3. k \in 0..elems - 1 /\ Queue(k).pc # 0 /\ k = elems' - 1
        BY <4>1, <4>2, <2>3, <2>4, <2>5
      <4> QED
        BY <4>3, <2>7, NewestAt
    <3>2. ASSUME NEW k \in 0..elems - 2, Queue(k)'.pc = 0 PROVE Queue(k + 1)'.pc # 0
      <4>1. k \in 0..elems - 1 /\ k + 1 \in 0..elems - 1
        BY <2>5
      <4>2. Queue(k)'.pc = Queue(k).pc /\ Queue(k + 1)'.pc = Queue(k + 1).pc
        BY <4>1, <2>7
      <4> QED
        BY <3>2, <4>2 DEF Meaning, Fakes
    <3> QED
      BY <3>1, <3>2, <2>4 DEF Fakes
  <2>12. Recent'
    <3>1. 0 \in 0..elems - 1
      BY <2>3, <2>5
    <3>2. Queue(0)'.pc = Queue(0).pc
      BY <3>1, <2>7
    <3> QED
      BY <3>2, <1>0, <2>2, <2>4, RecentKept DEF Meaning
  <2> QED
    BY <2>8, <2>9, <2>10, <2>11, <2>12 DEF Meaning
<1> QED
  BY <1>1, <1>2

LEMMA CpuidMeaning ==
  ASSUME StreamInv, Meaning, EventCpuid PROVE Meaning'
<1> USE DEF StreamInv
<1>0. /\ Taken /\ Head(tokens).kind = "cpuid" /\ Alloc(0, {})
      /\ UNCHANGED <<executed, writing, accesses, cut, pc, ending, current, pending,
                     timer, sim_state>>
  BY DEF EventCpuid, guest
<1>1. PICK t : t = Head(tokens)
  OBVIOUS
<1>2. /\ pc = "run" /\ executed \in Nat /\ t.kind = "cpuid"
      /\ Unparsed # <<>> /\ Unparsed[1] = t
      /\ Unparsed' # <<>> /\ Unparsed'[1] = Token("inst", t.pc)
      /\ sim_state # "FUNCTIONAL"
  BY <1>0, <1>1, FirstToken DEF Parsed
<1>3. /\ elems' = elems + 1 /\ handed' = handed
      /\ \A k \in 0..elems - 1 : Queue(k)' = Queue(k)
      /\ \A k : k = elems => Queue(k)'.pc = 0 /\ Queue(k)'.loads = {}
  BY <1>0, QueueAlloc
<1>4. elems \in Nat
  BY DEF IInv, TypeOK
<1>5. Unparsed'[1].kind = "inst"
  BY <1>2 DEF Token
<1>6. Grammar'
  BY <1>0, GrammarTaken
<1>7. Position'
  BY <1>0, <1>2, <1>5 DEF Meaning, Position
<1>8. Accesses'
  <2> SUFFICES ASSUME NEW k \in 0..elems' - 1
               PROVE  /\ Queue(k)'.pc \in 0..executed
                      /\ Queue(k)'.loads \subseteq {Queue(k)'.pc}
                      /\ Queue(k)'.pc \in accesses \ cut => Queue(k)'.loads = {Queue(k)'.pc}
    BY <1>0 DEF Accesses
  <2>1. CASE k = elems
    <3>1. 0 \notin accesses
      BY DEF Meaning, Grammar
    <3> QED
      BY <3>1, <2>1, <1>2, <1>3
  <2>2. CASE k # elems
    <3>1. k \in 0..elems - 1
      BY <2>2, <1>3, <1>4
    <3>2. ~Awaiting(k)
      BY <1>2 DEF Awaiting, Token
    <3> QED
      BY <3>1, <3>2, <1>3 DEF Meaning, Accesses
  <2> QED
    BY <2>1, <2>2
<1>9. Fakes'
  <2>1. ASSUME NEW k \in 0..elems' - 2, Queue(k)'.pc = 0 PROVE Queue(k + 1)'.pc # 0
    <3>1. k \in 0..elems - 1 /\ k + 1 \in Nat /\ k + 1 <= elems
      BY <1>3, <1>4
    <3>2. Queue(k).pc = 0
      BY <2>1, <3>1, <1>3
    <3>3. k + 1 # elems
      <4>1. k + 1 = elems => k = elems - 1 /\ elems > 0
        BY <3>1, <1>4
      <4> QED
        BY <4>1, <3>2, <1>2 DEF Meaning, Fakes
    <3>4. k \in 0..elems - 2 /\ k + 1 \in 0..elems - 1
      BY <3>1, <3>3, <1>4
    <3>5. Queue(k + 1)' = Queue(k + 1)
      BY <3>4, <1>3
    <3> QED
      BY <3>2, <3>4, <3>5 DEF Meaning, Fakes
  <2> QED
    BY <2>1, <1>2, <1>5 DEF Fakes
<1>10. Recent'
  <2>1. elems > 0 /\ Queue(0).pc # 0 => elems' > 0 /\ Queue(0)'.pc # 0
    BY <1>3, <1>4
  <2> QED
    BY <2>1, <1>0, <1>2, <1>3, RecentKept DEF Meaning
<1> QED
  BY <1>6, <1>7, <1>8, <1>9, <1>10 DEF Meaning

-----------------------------------------------------------------------------
\* Steps that leave the ring, its tokens and the timer alone

LEMMA QuietMeaning ==
  ASSUME StreamInv, Meaning, Unparsed' = Unparsed,
         UNCHANGED <<ring, pending, executed, accesses, timer, sim_state>>
  PROVE  Grammar' /\ Fakes' /\ Recent'
<1>1. /\ \A k : Queue(k)' = Queue(k)
      /\ elems' = elems /\ handed' = handed
  BY RingSame
<1>2. \A i \in 1..Len(Unparsed) : Sentence(i)'
  BY DEF Sentence, Meaning, Grammar
<1>3. Grammar'
  BY <1>2 DEF Meaning, Grammar
<1>4. Fakes'
  BY <1>1 DEF Meaning, Fakes
<1>5. Recent'
  BY <1>1 DEF Meaning, Recent, timer
<1> QED
  BY <1>3, <1>4, <1>5

LEMMA QuietAccesses ==
  ASSUME StreamInv, Meaning, UNCHANGED <<ring, executed, accesses>>, cut \subseteq cut',
         \A k \in 0..elems - 1 : Awaiting(k) => Queue(k).pc \in cut'
  PROVE  Accesses'
<1>1. /\ \A k : Queue(k)' = Queue(k)
      /\ elems' = elems
  BY RingSame
<1> QED
  BY <1>1 DEF Meaning, Accesses

LEMMA GuestMeaning ==
  ASSUME StreamInv, Meaning,
         Write \/ Deliver \/ (\E e \in {"quantum", "sample"} : Quantum(e))
         \/ RunDone \/ EmitDone
  PROVE  Meaning'
<1> USE DEF StreamInv
<1>0. /\ tokens \in Seq(Tok) /\ writing \in Seq(Tok)
      /\ tokens = <<>> => Unparsed = writing
  BY UnparsedType DEF Parsed
<1>1. CASE Write
  <2>1. /\ pc = "guest" /\ writing # <<>> /\ writing' = Tail(writing)
        /\ UNCHANGED <<ring, pc, ending, current, pending, timer, sim_state,
                       executed, accesses, cut>>
    BY <1>1 DEF Write
  <2>2. Unparsed' = Unparsed
    BY <1>1, UnparsedWrite
  <2>3. \A i \in 1..Len(writing') : writing'[i].pc = executed
    <3>1. /\ Len(Tail(writing)) = Len(writing) - 1
          /\ \A i \in 1..Len(Tail(writing)) : Tail(writing)[i] = writing[i + 1]
      BY <1>0, <2>1, HeadTailProperties
    <3>2. Len(writing) \in Nat
      BY <1>0
    <3>3. \A i \in 1..Len(Tail(writing)) : i + 1 \in 1..Len(writing)
      BY <3>1, <3>2
    <3> QED
      BY <3>1, <3>3, <2>1 DEF Meaning, Position
  <2>4. Position'
    BY <2>1, <2>2, <2>3 DEF Meaning, Position
  <2>5. Accesses'
    BY <2>1, QuietAccesses DEF Awaiting
  <2> QED
    BY <2>1, <2>2, <2>4, <2>5, QuietMeaning DEF Meaning
<1>2. CASE Deliver
  <2>1. /\ pc = "guest" /\ pc' = "run" /\ ending' = "guest" /\ current' = NoInst
        /\ cut' = IF writing # <<>> /\ Head(writing).kind = "mem"
                  THEN cut \union {executed} ELSE cut
        /\ UNCHANGED <<ring, tokens, pending, timer, sim_state, executed, writing, accesses>>
    BY <1>2 DEF Deliver
  <2>2. Unparsed' = Unparsed
    BY <2>1 DEF Unparsed
  <2>3. writing # <<>> => Head(writing) = writing[1]
    BY <1>0
  <2>4. Position'
    BY <2>1, <2>2, <2>3 DEF Meaning, Position
  <2>5. Accesses'
    BY <2>1, QuietAccesses DEF Awaiting
  <2> QED
    BY <2>1, <2>2, <2>4, <2>5, QuietMeaning DEF Meaning
<1>3. CASE \E e \in {"quantum", "sample"} : Quantum(e)
  <2>1. /\ pc = "guest" /\ writing = <<>> /\ pc' = "run" /\ current' = NoInst
        /\ UNCHANGED <<ring, tokens, pending, timer, sim_state, executed, writing,
                       accesses, cut>>
    BY <1>3 DEF Quantum, guest
  <2>2. Unparsed' = Unparsed
    BY <2>1 DEF Unparsed
  <2>4. Position'
    BY <2>1, <2>2 DEF Meaning, Position
  <2>5. Accesses'
    BY <2>1, QuietAccesses DEF Awaiting
  <2> QED
    BY <2>1, <2>2, <2>4, <2>5, QuietMeaning DEF Meaning
<1>4. CASE RunDone
  <2>1. /\ pc = "run" /\ tokens = <<>>
        /\ pc' = (IF ending = "guest" THEN "guest" ELSE "emit")
        /\ UNCHANGED <<ring, tokens, ending, current, pending, timer, sim_state,
                       executed, writing, accesses, cut>>
    BY <1>4 DEF RunDone, guest
  <2>2. Unparsed' = Unparsed /\ Unparsed = writing
    BY <1>0, <2>1 DEF Unparsed
  <2>3. writing # <<>> /\ writing[1].kind = "mem" => writing[1].pc = executed /\ executed \in cut
    <3>1. writing # <<>> => 1 \in 1..Len(writing)
      BY <1>0, EmptySeq
    <3> QED
      BY <3>1, <2>1 DEF Meaning, Position
  <2>4. Position'
    BY <2>1, <2>2, <2>3 DEF Meaning, Position
  <2>5. Accesses'
    BY <2>1, <2>2, <2>3, QuietAccesses DEF Awaiting, Token
  <2> QED
    BY <2>1, <2>2, <2>4, <2>5, QuietMeaning DEF Meaning
<1>5. CASE EmitDone
  <2>1. /\ pc = "emit" /\ pc' = "guest"
        /\ UNCHANGED <<ring, tokens, ending, current, pending, timer, sim_state,
                       executed, writing, accesses, cut>>
    BY <1>5 DEF EmitDone, guest
  <2>2. Unparsed' = Unparsed
    BY <2>1 DEF Unparsed
  <2>4. Position'
    BY <2>1, <2>2 DEF Meaning, Position
  <2>5. Accesses'
    BY <2>1, QuietAccesses DEF Awaiting
  <2> QED
    BY <2>1, <2>2, <2>4, <2>5, QuietMeaning DEF Meaning
<1> QED
  BY <1>1, <1>2, <1>3, <1>4, <1>5

-----------------------------------------------------------------------------
\* Steps of end_quantum

\* An instruction leaves the ring when all tokens have been taken.
LEMMA NextMeaning ==
  ASSUME StreamInv, Meaning, pc = "emit", NextIns, UNCHANGED <<parser, guest>>
  PROVE  /\ Grammar' /\ Position' /\ Accesses' /\ Fakes'
         /\ Queue(0).pc = 0 => elems' > 0 /\ Queue(0)'.pc # 0
<1> USE DEF StreamInv
<1>1. Unparsed = <<>> /\ Unparsed' = Unparsed /\ UNCHANGED <<pc, pending, executed, accesses>>
  BY DEF Meaning, Position, Unparsed, parser, guest
<1>2. /\ elems > 0 /\ elems' = elems - 1 /\ elems \in Nat
      /\ \A k \in 0..elems - 2 : Queue(k)' = Queue(k + 1)
  BY QueueNext DEF IInv, TypeOK
<1>3. Grammar'
  BY <1>1 DEF Meaning, Grammar, Sentence
<1>4. Position'
  BY <1>1 DEF Meaning, Position, parser, guest
<1>5. Accesses'
  <2> SUFFICES ASSUME NEW k \in 0..elems - 2
               PROVE  /\ Queue(k)'.pc \in 0..executed
                      /\ Queue(k)'.loads \subseteq {Queue(k)'.pc}
                      /\ Queue(k)'.pc \in accesses \ cut => Queue(k)'.loads = {Queue(k)'.pc}
    BY <1>1, <1>2 DEF Accesses, guest
  <2>1. k + 1 \in 0..elems - 1 /\ Queue(k)' = Queue(k + 1)
    BY <1>2
  <2>2. ~Awaiting(k + 1)
    BY DEF Awaiting
  <2> QED
    BY <2>1, <2>2 DEF Meaning, Accesses
<1>6. Queue(elems - 1).pc # 0
  BY <1>1, <1>2 DEF Meaning, Fakes
<1>7. Fakes'
  <2>1. ASSUME NEW k \in 0..elems' - 2, Queue(k)'.pc = 0 PROVE Queue(k + 1)'.pc # 0
    <3>1. /\ k \in 0..elems - 2 /\ k + 1 \in 0..elems - 2
      BY <1>2
    <3>2. Queue(k)' = Queue(k + 1) /\ Queue(k + 1)' = Queue((k + 1) + 1)
      BY <3>1, <1>2
    <3>3. Queue(k + 1).pc = 0 => Queue((k + 1) + 1).pc # 0
      BY <3>1 DEF Meaning, Fakes
    <3> QED
      BY <2>1, <3>2, <3>3
  <2>2. ASSUME elems' > 0 PROVE Queue(elems - 1)'.pc # 0
    <3>1. PICK k : k = elems - 2
      OBVIOUS
    <3>2. k \in 0..elems - 2 /\ k + 1 = elems - 1 /\ k = elems' - 1
      BY <2>2, <3>1, <1>2
    <3>3. Queue(k)'.pc # 0
      BY <3>2, <1>2, <1>6
    <3> QED
      BY <3>2, <3>3, NewestAt
  <2> QED
    BY <2>1, <2>2 DEF Fakes
<1>8. ASSUME Queue(0).pc = 0 PROVE elems' > 0 /\ Queue(0)'.pc # 0
  <2>1. elems # 1
    <3>1. elems = 1 => elems - 1 = 0
      OBVIOUS
    <3> QED
      BY <3>1, <1>6, <1>8
  <2>2. 0 \in 0..elems - 2 /\ 0 + 1 = 1
    BY <2>1, <1>2
  <2>3. Queue(0)' = Queue(1) /\ Queue(1).pc # 0
    BY <2>2, <1>2, <1>8 DEF Meaning, Fakes
  <2> QED
    BY <2>1, <2>3, <1>2
<1> QED
  BY <1>3, <1>4, <1>5, <1>7, <1>8

\* A fake instruction counts, but the real one behind it comes next.
LEMMA DiscardMeaning == ASSUME StreamInv, Meaning, Discard PROVE Meaning'
<1> USE DEF StreamInv
<1>1. /\ pc = "emit" /\ NextIns /\ mem[pul][out].pc = 0
      /\ UNCHANGED <<parser, guest, held, sim_state>>
  BY DEF Discard, timer
<1>2. Queue(0).pc = 0
  BY <1>1, QueueNext DEF Queue
<1>3. /\ Grammar' /\ Position' /\ Accesses' /\ Fakes'
      /\ elems' > 0 /\ Queue(0)'.pc # 0
  BY <1>1, <1>2, NextMeaning
<1>4. sim_state # "FUNCTIONAL"
  BY <1>1, QueueNext DEF Meaning, Recent
<1>5. PICK h : h = [ring |-> pul, slot |-> out, id |-> mem[pul][out].id]
  OBVIOUS
<1>10. handed' = Append(handed, h) /\ handed \in Seq(Hand) /\ h \in Hand
  BY <1>1, <1>5 DEF IInv, Contents, NextIns, Hand, Insn, TypeOK
<1>6. handed \in Seq(Hand) /\ Len(handed) \in Nat /\ Len(handed') = Len(handed) + 1
      /\ \A k \in 1..Len(handed) : handed'[k] = handed[k]
  BY <1>10, AppendProperties
<1>7. Len(held) \in Nat
  BY DEF Meaning, Recent
<1>8. ASSUME NEW n \in 1..Len(held), \E k \in 1..Len(handed') : handed'[k] = held[n]
      PROVE  \E k \in 1..Len(handed') :
               handed'[k] = held[n] /\ Len(handed') <= k + 2 * (Len(held) - n) + 1
  <2>1. CASE \E j \in 1..Len(handed) : handed[j] = held[n]
    <3>1. PICK k \in 1..Len(handed) :
            /\ handed[k] = held[n]
            /\ Len(handed) <= k + 2 * (Len(held) - n)
                              + (IF elems > 0 /\ Queue(0).pc # 0 THEN 1 ELSE 0)
      BY <2>1, <1>8 DEF Meaning, Recent
    <3>2. Len(handed) <= k + 2 * (Len(held) - n)
      BY <3>1, <1>2, <1>6, <1>7
    <3>3. k \in 1..Len(handed') /\ Len(handed') <= k + 2 * (Len(held) - n) + 1
      BY <3>1, <3>2, <1>6, <1>7
    <3> QED
      BY <3>1, <3>3, <1>6
  <2>2. CASE ~(\E j \in 1..Len(handed) : handed[j] = held[n])
    <3>1. handed'[Len(handed')] = held[n] /\ Len(handed') \in 1..Len(handed')
      BY <2>2, <1>6, <1>8
    <3>2. Len(handed') <= Len(handed') + 2 * (Len(held) - n) + 1
      BY <1>6, <1>7
    <3> QED
      BY <3>1, <3>2
  <2> QED
    BY <2>1, <2>2
<1>9. Recent'
  BY <1>1, <1>3, <1>4, <1>8 DEF Meaning, Recent
<1> QED
  BY <1>3, <1>9 DEF Meaning

\* The timer remembers the instruction it gets, and forgets from the front.
LEMMA EmitMeaning == ASSUME StreamInv, Meaning, Emit PROVE Meaning'
<1> USE DEF StreamInv
<1>1. PICK h : /\ h = [ring |-> pul, slot |-> out, id |-> mem[pul][out].id]
               /\ held' \in Remembered(h)
  BY DEF Emit
<1>2. /\ pc = "emit" /\ NextIns
      /\ UNCHANGED <<parser, guest, sim_state>>
  BY DEF Emit
<1>3. Grammar' /\ Position' /\ Accesses' /\ Fakes'
  BY <1>2, NextMeaning
<1>4. sim_state # "FUNCTIONAL"
  BY <1>2, QueueNext DEF Meaning, Recent
<1>5. handed' = Append(handed, h) /\ handed \in Seq(Hand) /\ h \in Hand
  BY <1>1, <1>2 DEF IInv, Contents, NextIns, Hand, Insn, TypeOK
<1>6. /\ Len(handed) \in Nat /\ Len(handed') = Len(handed) + 1
      /\ handed'[Len(handed) + 1] = h
      /\ \A k \in 1..Len(handed) : handed'[k] = handed[k]
  BY <1>5, AppendProperties
<1>7. held \in Seq(Hand) /\ Len(held) \in Nat /\ Len(held) <= Hold /\ Hold \in Nat
  BY TokenStreamAssumption DEF Meaning, Recent, Hand
<1>8. PICK longer : longer = Append(held, h)
  OBVIOUS
<1>9. /\ longer \in Seq(Hand) /\ Len(longer) = Len(held) + 1
      /\ longer[Len(held) + 1] = h
      /\ \A n \in 1..Len(held) : longer[n] = held[n]
  BY <1>5, <1>7, <1>8, AppendProperties
<1>10. PICK i \in (IF Len(held) < Hold THEN 1 ELSE Len(held) + 2 - Hold)..Len(held) + 2 :
         held' = SubSeq(longer, i, Len(held) + 1)
  BY <1>1, <1>8 DEF Remembered
<1>11. i \in 1..Len(longer) + 1 /\ Len(longer) \in i - 1..Len(longer) /\ i \in Nat
       /\ Len(held) + 2 - i <= Hold
  BY <1>7, <1>9, <1>10
<1>12. /\ held' \in Seq(Hand) /\ Len(held') = Len(held) + 2 - i
       /\ \A n \in 1..Len(held') : held'[n] = longer[i + n - 1]
  <2>1. held' = SubSeq(longer, i, Len(longer))
    BY <1>9, <1>10
  <2>2. /\ SubSeq(longer, i, Len(longer)) \in Seq(Hand)
        /\ Len(SubSeq(longer, i, Len(longer))) =
             IF i <= Len(longer) THEN Len(longer) - i + 1 ELSE 0
        /\ \A n \in 1..Len(longer) - i + 1 :
             SubSeq(longer, i, Len(longer))[n] = longer[i + n - 1]
    <3>1. \A n \in i..Len(longer) : longer[n] \in Hand
      <4>1. \A n \in i..Len(longer) : n \in 1..Len(longer)
        BY <1>7, <1>9, <1>11
      <4> QED
        BY <1>9, <4>1
    <3>2. i \in Int /\ Len(longer) \in Int
      BY <1>7, <1>9, <1>11
    <3> QED
      BY <3>1, <3>2, SubSeqProperties
  <2> QED
    BY <2>1, <2>2, <1>7, <1>9, <1>11
<1>13. ASSUME NEW n \in 1..Len(held'), \E k \in 1..Len(handed') : handed'[k] = held'[n]
       PROVE  \E k \in 1..Len(handed') :
                handed'[k] = held'[n] /\ Len(handed') <= k + 2 * (Len(held') - n)
  <2>2. PICK m \in 1..Len(held) + 1 : m = i + n - 1
    BY <1>7, <1>11, <1>12
  <2>3. held'[n] = longer[m] /\ Len(held') - n = Len(held) + 1 - m
    BY <2>2, <1>7, <1>11, <1>12
  <2>4. CASE m = Len(held) + 1
    <3>1. Len(handed') \in 1..Len(handed') /\ handed'[Len(handed')] = held'[n]
          /\ Len(handed') <= Len(handed') + 2 * (Len(held') - n)
      BY <2>3, <2>4, <1>6, <1>7, <1>9
    <3> QED
      BY <3>1
  <2>5. CASE m # Len(held) + 1 /\ ~(\E j \in 1..Len(handed) : handed[j] = held'[n])
    <3>1. handed'[Len(handed')] = held'[n] /\ Len(handed') \in 1..Len(handed')
      BY <2>5, <1>6, <1>13
    <3>2. Len(handed') <= Len(handed') + 2 * (Len(held') - n)
      BY <1>6, <1>11, <1>12
    <3> QED
      BY <3>1, <3>2
  <2>6. CASE m # Len(held) + 1 /\ \E j \in 1..Len(handed) : handed[j] = held'[n]
    <3>0. m \in 1..Len(held)
      BY <2>2, <2>6, <1>7
    <3>1. m \in 1..Len(held) /\ held'[n] = held[m]
      BY <3>0, <2>3, <1>9
    <3>2. PICK k \in 1..Len(handed) :
            /\ handed[k] = held[m]
            /\ Len(handed) <= k + 2 * (Len(held) - m)
                              + (IF elems > 0 /\ Queue(0).pc # 0 THEN 1 ELSE 0)
      BY <2>6, <3>1 DEF Meaning, Recent
    <3>3. Len(handed) <= k + 2 * (Len(held) - m) + 1
      BY <3>1, <3>2, <1>6, <1>7
    <3>4. k \in 1..Len(handed') /\ Len(handed') <= k + 2 * (Len(held') - n)
      BY <2>3, <3>1, <3>3, <1>6, <1>7
    <3> QED
      BY <3>1, <3>2, <3>4, <1>6
  <2> QED
    BY <2>4, <2>5, <2>6
<1>14. Recent'
  <2>1. Len(handed') \in Nat /\ Len(held') \in Nat
    BY <1>6, <1>11, <1>12
  <2>2. ASSUME NEW n \in 1..Len(held'), \E k \in 1..Len(handed') : handed'[k] = held'[n]
        PROVE  \E k \in 1..Len(handed') :
                 /\ handed'[k] = held'[n]
                 /\ Len(handed') <= k + 2 * (Len(held') - n)
                                    + (IF elems' > 0 /\ Queue(0)'.pc # 0 THEN 1 ELSE 0)
    <3>1. PICK k \in 1..Len(handed') :
            handed'[k] = held'[n] /\ Len(handed') <= k + 2 * (Len(held') - n)
      BY <1>13, <2>2
    <3>2. Len(handed') <= k + 2 * (Len(held') - n)
                          + (IF elems' > 0 /\ Queue(0)'.pc # 0 THEN 1 ELSE 0)
      BY <3>1, <2>1
    <3> QED
      BY <3>1, <3>2
  <2>3. held' \in Seq([ring : Nat, slot : Nat, id : Nat]) /\ Len(held') <= Hold
    BY <1>11, <1>12 DEF Hand
  <2> QED
    BY <2>2, <2>3, <1>2, <1>4 DEF Meaning, Recent
<1> QED
  BY <1>3, <1>14 DEF Meaning

\* A change of the simulation state finds no tokens, and leaves nothing in
\* the ring; if the ring is emptied, nothing the timer remembers was handed on
\* since.
LEMMA ChangeMeaning ==
  ASSUME StreamInv, Meaning, Unparsed = <<>>, NEW new, NEW b \in BOOLEAN,
         ChangeState(new, b), b \/ elems = 0,
         new \in {"FUNCTIONAL", "FULL_WARMING", "SIMULATION"}
  PROVE  Meaning'
<1> USE DEF StreamInv
<1>1. /\ sim_state' = new /\ pc' = "guest"
      /\ UNCHANGED <<tokens, writing, executed, accesses>>
      /\ held' = (IF sim_state = "SIMULATION" THEN <<>> ELSE held)
      /\ pending' \in {pending, {}}
  BY DEF ChangeState, EndTimer, guest
<1>2. Unparsed' = <<>> /\ writing = <<>>
  BY <1>1, UnparsedType DEF Unparsed
<1>3. elems' = 0
  BY DEF ChangeState, Clear, ring
<1>4. Grammar'
  <2>1. \A i \in 1..Len(Unparsed') : Sentence(i)'
    BY <1>2
  <2> QED
    BY <2>1, <1>1, <1>2 DEF Meaning, Grammar
<1>5. Position'
  BY <1>1, <1>2 DEF Position
<1>6. Accesses' /\ Fakes'
  BY <1>3 DEF Accesses, Fakes
<1>7. Recent'
  <2>1. held \in Seq([ring : Nat, slot : Nat, id : Nat]) /\ Len(held) <= Hold
        /\ Hold \in Nat
    BY TokenStreamAssumption DEF Meaning, Recent
  <2>2. held' \in Seq([ring : Nat, slot : Nat, id : Nat]) /\ Len(held') <= Hold
    BY <1>1, <2>1
  <2>4. ASSUME NEW n \in 1..Len(held'), \E k \in 1..Len(handed') : handed'[k] = held'[n]
        PROVE  \E k \in 1..Len(handed') :
                 /\ handed'[k] = held'[n]
                 /\ Len(handed') <= k + 2 * (Len(held') - n)
                                    + (IF elems' > 0 /\ Queue(0)'.pc # 0 THEN 1 ELSE 0)
    <3>1. held' # <<>>
      BY <2>2
    <3>2. held' = held
      BY <3>1, <1>1
    <3>3. UNCHANGED ring
      <4>1. CASE Clear
        BY <4>1, <2>4, EmptySeq DEF Clear
      <4> QED
        BY <4>1 DEF ChangeState
    <3>4. handed' = handed /\ elems' = elems /\ \A k : Queue(k)' = Queue(k)
      BY <3>3, RingSame
    <3> QED
      BY <3>2, <3>4, <2>4 DEF Meaning, Recent
  <2> QED
    BY <1>1, <1>2, <1>3, <2>2, <2>4 DEF Recent
<1> QED
  BY <1>4, <1>5, <1>6, <1>7 DEF Meaning

-----------------------------------------------------------------------------
\* All steps

LEMMA MeaningInit == StreamInit => StreamInv /\ Meaning
<1> SUFFICES ASSUME StreamInit PROVE Meaning
  BY StreamInitInv
<1>1. /\ tokens = <<>> /\ writing = <<>> /\ elems = 0 /\ handed = <<>> /\ pc = "guest"
      /\ pending = {} /\ accesses = {} /\ held = <<>>
      /\ sim_state \in {"FUNCTIONAL", "FULL_WARMING", "SIMULATION"}
  BY DEF StreamInit, Init
<1>2. Unparsed = <<>>
  BY <1>1, StreamInitInv, UnparsedType DEF StreamInv
<1>3. Grammar
  BY <1>1, <1>2 DEF Grammar
<1>4. Position
  BY <1>1, <1>2 DEF Position
<1>5. Accesses /\ Fakes
  BY <1>1 DEF Accesses, Fakes
<1>6. Recent
  BY <1>1, <1>2, TokenStreamAssumption DEF Recent
<1> QED
  BY <1>3, <1>4, <1>5, <1>6 DEF Meaning

LEMMA MeaningStep ==
  ASSUME StreamInv, Meaning, [Next]_vars
  PROVE  StreamInv' /\ Meaning'
<1>0. StreamInv'
  BY StreamStep, RingStep DEF StreamInv
<1>1. CASE Execute
  BY <1>0, <1>1, ExecuteMeaning
<1>2. CASE Write \/ Deliver \/ (\E e \in {"quantum", "sample"} : Quantum(e))
           \/ RunDone \/ EmitDone
  BY <1>0, <1>2, GuestMeaning
<1>3. CASE EventInstruction
  BY <1>0, <1>3, InstructionMeaning
<1>4. CASE EventUnknown
  BY <1>0, <1>4, QuietToken DEF EventUnknown, guest
<1>5. CASE EventMemory
  BY <1>0, <1>5, MemoryMeaning
<1>6. CASE EventPrefetch
  BY <1>0, <1>6, QuietToken DEF EventPrefetch, guest
<1>7. CASE EventCpuid
  BY <1>0, <1>7, CpuidMeaning
<1>8. CASE Emit
  BY <1>0, <1>8, EmitMeaning
<1>9. CASE Discard
  BY <1>0, <1>9, DiscardMeaning
<1>10. /\ pc = "emit" => Unparsed = <<>>
       /\ sim_state \in {"FUNCTIONAL", "FULL_WARMING", "SIMULATION"}
       /\ sim_state = "FUNCTIONAL" => Unparsed = <<>>
  BY DEF Meaning, Position, Recent
<1>11. /\ Following[sim_state] \subseteq {"FUNCTIONAL", "FULL_WARMING", "SIMULATION"}
       /\ FollowingBroken[sim_state] \subseteq {"FUNCTIONAL", "FULL_WARMING", "SIMULATION"}
  <2>1. /\ Following["FUNCTIONAL"] = {"FUNCTIONAL", "FULL_WARMING", "SIMULATION"}
        /\ Following["FULL_WARMING"] = {"SIMULATION"}
        /\ Following["SIMULATION"] = {"SIMULATION", "FUNCTIONAL"}
    BY DEF Following
  <2>2. /\ FollowingBroken["FUNCTIONAL"] = {"FUNCTIONAL", "FULL_WARMING", "SIMULATION"}
        /\ FollowingBroken["FULL_WARMING"] = {"SIMULATION", "FUNCTIONAL"}
        /\ FollowingBroken["SIMULATION"] = {"SIMULATION", "FUNCTIONAL"}
    BY DEF Following, FollowingBroken
  <2> QED
    BY <2>1, <2>2, <1>10
<1>12. CASE Break
  BY <1>0, <1>10, <1>11, <1>12, ChangeMeaning DEF Break
<1>13. CASE BreakNow
  BY <1>0, <1>10, <1>11, <1>13, ChangeMeaning DEF BreakNow
<1>14. CASE EndSample
  BY <1>0, <1>10, <1>11, <1>14, ChangeMeaning DEF EndSample
<1>15. CASE UNCHANGED vars
  <2>1. /\ Unparsed' = Unparsed
        /\ UNCHANGED <<ring, pending, executed, accesses, timer, sim_state>>
        /\ UNCHANGED <<pc, ending, current, writing, cut>>
    BY <1>15 DEF vars, parser, guest, Unparsed
  <2>2. \A k : Queue(k)' = Queue(k)
    BY <2>1, RingSame
  <2>3. Position'
    BY <2>1, <2>2, RingSame DEF Meaning, Position
  <2>4. Accesses'
    BY <2>1, <2>2, RingSame DEF Meaning, Accesses, Awaiting
  <2> QED
    BY <1>0, <2>1, <2>3, <2>4, QuietMeaning DEF Meaning
<1> QED
  BY <1>1, <1>2, <1>3, <1>4, <1>5, <1>6, <1>7, <1>8, <1>9, <1>12, <1>13,
     <1>14, <1>15 DEF Next

LEMMA AttachedThen == ASSUME StreamInv, Meaning PROVE Attached
<1> SUFFICES ASSUME NEW n \in 1..elems, NEW i, i = mem[pul][Wrapped(out + n - 1)]
             PROVE  /\ i.loads \subseteq {i.pc}
                    /\ pc = "emit" /\ i.pc \in accesses \ cut => i.loads = {i.pc}
  BY DEF Attached
<1>1. PICK k : k = n - 1
  OBVIOUS
<1>2. k \in 0..elems - 1 /\ out + n - 1 = out + k
  BY <1>1 DEF StreamInv, IInv, TypeOK
<1>3. i = Queue(k)
  BY <1>2 DEF Queue
<1>4. pc = "emit" => ~Awaiting(k)
  BY DEF Awaiting
<1> QED
  BY <1>2, <1>3, <1>4 DEF Meaning, Accesses

LEMMA HeldThen == ASSUME StreamInv, Meaning PROVE HeldIntact
<1> SUFFICES ASSUME NEW n \in DOMAIN held, \E k \in DOMAIN handed : handed[k] = held[n]
             PROVE  Intact(held[n])
  BY DEF HeldIntact
<1>0. handed \in Seq(Hand) /\ held \in Seq(Hand)
  BY DEF StreamInv, IInv, Contents, Meaning, Recent, Hand
<1>1. /\ n \in 1..Len(held) /\ Len(held) \in Nat /\ Len(held) <= Hold
      /\ \E k \in 1..Len(handed) : handed[k] = held[n]
  BY <1>0 DEF Meaning, Recent
<1>2. PICK k \in 1..Len(handed) :
        /\ handed[k] = held[n]
        /\ Len(handed) <= k + 2 * (Len(held) - n)
                          + (IF elems > 0 /\ Queue(0).pc # 0 THEN 1 ELSE 0)
  BY <1>1 DEF Meaning, Recent
<1>3. Len(handed) \in Nat /\ Hold \in Nat /\ Space \in Nat /\ 2 * Hold <= Space
  BY TokenStreamAssumption, InstructionRingAssumption DEF StreamInv, IInv, Contents
<1>4. k + Space > Len(handed)
  <2>1. PICK l \in Nat : l = Len(held)
    BY <1>1
  <2>2. n \in 1..l /\ l <= Hold /\ k \in 1..Len(handed)
    BY <2>1, <1>1, <1>2
  <2>3. Len(handed) <= k + 2 * (l - n) + (IF elems > 0 /\ Queue(0).pc # 0 THEN 1 ELSE 0)
    BY <2>1, <1>2
  <2>4. Len(handed) <= k + 2 * (l - n) + 1
    BY <2>2, <2>3, <1>3
  <2> QED
    BY <2>2, <2>4, <1>3
<1>5. Kept(k)
  BY <1>4 DEF StreamInv, IInv, History
<1> QED
  BY <1>2, <1>5 DEF Kept, Intact, Slots

\* The invariant of the tokens, the ring and the timer.
THEOREM StreamMeaning == Spec => [](StreamInv /\ Meaning)
BY MeaningInit, MeaningStep, PTL DEF Spec

\* For every guest, delivery of its tokens and growth of the ring, an
\* instruction is handed on with its own accesses, and with all that were not
\* delivered apart from it.
THEOREM AccessesAttached == Spec => []Attached
BY AttachedThen, StreamMeaning, PTL

\* A timer that remembers at most Hold instructions finds each of them as it
\* was when twice as many slots are kept for it, whatever it drops and however
\* many fakes come in between, if it was handed on since the ring was emptied.
THEOREM RememberedIntact == Spec => []HeldIntact
BY HeldThen, StreamMeaning, PTL

=============================================================================
