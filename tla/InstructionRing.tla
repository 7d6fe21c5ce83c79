--------------------------- MODULE InstructionRing ---------------------------
(***************************************************************************)
(* The instruction pool of a CPU (abaeterno/lib/instructions.h, .cpp).     *)
(*                                                                         *)
(* The token parser allocates instructions, the interleaver hands them on  *)
(* to the timer, and the timer remembers the last ones by their addresses. *)
(* The pool is a ring that leaves a space for those.  A ring that is full  *)
(* is copied into one of twice the size; what it held stays until clear(), *)
(* because the timer still points there.                                   *)
(***************************************************************************)
EXTENDS Naturals, Sequences

CONSTANTS
  Size,    \* create(s, p): instructions that fit before the ring grows
  Space,   \* and slots left for the timer, its history + 1
  MaxIns,  \* bound of the model: instructions
  MaxPools \* bound of the model: rings

ASSUME InstructionRingAssumption ==
  /\ Size \in Nat \ {0} /\ Space \in Nat \ {0}
  /\ MaxIns \in Nat /\ MaxPools \in Nat \ {0}

VARIABLES
  in, out, elems, safe_size, total_size,
  pul,       \* the ring in use; rings are numbered
  old_puls,  \* the rings before it that clear() has not freed
  mem,       \* mem[r][s]: the instruction in slot s of ring r
  unique_id, \* Instruction::unique_id
  given,     \* ids that alloc has given out since the last clear()
  handed     \* instructions that next has handed on since then

sizes == <<safe_size, total_size, pul, old_puls>>
ring  == <<in, out, elems, sizes, mem, unique_id, given, handed>>

Blank == [id |-> 0, pc |-> 0, loads |-> {}]

Init ==
  /\ in = 0 /\ out = 0 /\ elems = 0
  /\ safe_size = Size /\ total_size = Size + Space
  /\ pul = 1 /\ old_puls = {}
  /\ mem = [r \in {1} |-> [s \in 0..Size + Space - 1 |-> Blank]]
  /\ unique_id = 0
  /\ given = <<>> /\ handed = <<>>

-----------------------------------------------------------------------------
\* k % total_size, for k below twice the size
Wrapped(k) == IF k >= total_size THEN k - total_size ELSE k

\* Instruction::init of slot s of ring m
Fresh(m, s, p, L) == [m EXCEPT ![s] = [id |-> unique_id + 1, pc |-> p, loads |-> L]]

Given ==
  /\ unique_id < MaxIns
  /\ unique_id' = unique_id + 1
  /\ given' = Append(given, unique_id + 1)
  /\ UNCHANGED handed

\* Mutant: the ring may fill up to its last slot.
AllocHere_Full(p, L) ==
  /\ elems # total_size
  /\ mem' = [mem EXCEPT ![pul] = Fresh(@, in, p, L)]
  /\ in' = Wrapped(in + 1)
  /\ elems' = elems + 1
  /\ Given
  /\ UNCHANGED <<out, sizes>>

\* alloc and Instruction::init for the code at p, with accesses L, with room
\* in the ring
AllocHere(p, L) ==
  /\ elems # safe_size
  /\ mem' = [mem EXCEPT ![pul] = Fresh(@, in, p, L)]
  /\ in' = Wrapped(in + 1)
  /\ elems' = elems + 1
  /\ Given
  /\ UNCHANGED <<out, sizes>>

\* Mutant: the ring is copied from its first slot on.
Doubled_FromFirst ==
  [s \in 0..2 * total_size - 1 |->
     IF s < elems THEN mem[pul][s] ELSE Blank]

\* the ring that resize() makes: elems clones from out on
Doubled ==
  [s \in 0..2 * total_size - 1 |->
     IF s < elems THEN mem[pul][Wrapped(out + s)] ELSE Blank]

\* Mutant: resize doubles the part that may be filled, not the space.
AllocGrown_SafeDoubled(p, L) ==
  /\ elems = safe_size
  /\ pul < MaxPools
  /\ mem' = [r \in DOMAIN mem \union {pul + 1} |->
               IF r = pul + 1 THEN Fresh(Doubled, elems, p, L) ELSE mem[r]]
  /\ old_puls' = old_puls \union {pul}
  /\ pul' = pul + 1
  /\ out' = 0
  /\ in' = elems + 1
  /\ elems' = elems + 1
  /\ safe_size' = 2 * total_size
  /\ total_size' = 2 * total_size
  /\ Given

\* the same through resize()
AllocGrown(p, L) ==
  /\ elems = safe_size
  /\ pul < MaxPools
  /\ mem' = [r \in DOMAIN mem \union {pul + 1} |->
               IF r = pul + 1 THEN Fresh(Doubled, elems, p, L) ELSE mem[r]]
  /\ old_puls' = old_puls \union {pul}
  /\ pul' = pul + 1
  /\ out' = 0
  /\ in' = elems + 1
  /\ elems' = elems + 1
  /\ safe_size' = safe_size + total_size
  /\ total_size' = 2 * total_size
  /\ Given

Alloc(p, L) == AllocHere(p, L) \/ AllocGrown(p, L)

\* next
NextIns ==
  /\ elems # 0
  /\ handed' = Append(handed, [ring |-> pul, slot |-> out,
                               id |-> mem[pul][out].id])
  /\ out' = Wrapped(out + 1)
  /\ elems' = elems - 1
  /\ UNCHANGED <<in, sizes, mem, unique_id, given>>

\* clear
Clear ==
  /\ mem' = [r \in {pul} |-> mem[pul]]
  /\ old_puls' = {}
  /\ in' = 0 /\ out' = 0 /\ elems' = 0
  /\ given' = <<>> /\ handed' = <<>>
  /\ UNCHANGED <<safe_size, total_size, pul, unique_id>>

\* LoadsPush, StoresPush: an access of the instruction at this address
LoadsPush(r, s, x) ==
  /\ r \in DOMAIN mem /\ s \in DOMAIN mem[r]
  /\ mem' = [mem EXCEPT ![r][s].loads = @ \union {x}]
  /\ UNCHANGED <<in, out, elems, sizes, unique_id, given, handed>>

RingNext ==
  \/ \E p \in Nat, L \in SUBSET Nat : Alloc(p, L)
  \/ NextIns
  \/ Clear
  \/ \E r, s, x \in Nat : LoadsPush(r, s, x)

RingSpec == Init /\ [][RingNext]_ring

-----------------------------------------------------------------------------
\* Properties

Slots(r) == DOMAIN mem[r]

\* Types; the ring never holds more than safe_size instructions, so that the
\* space for the timer is there after it has grown, too.
TypeOK ==
  /\ total_size \in Nat /\ safe_size \in Nat
  /\ total_size = safe_size + Space
  /\ elems \in 0..safe_size
  /\ in \in 0..total_size - 1 /\ out \in 0..total_size - 1
  /\ pul \in 1..MaxPools
  /\ old_puls \subseteq 1..pul - 1
  /\ DOMAIN mem = old_puls \union {pul}
  /\ DOMAIN mem[pul] = 0..total_size - 1
  /\ unique_id \in 0..MaxIns

\* "take instructions off a preallocated pool which wraps around"
\* (instructions.h): the n-th instruction handed on is the n-th allocated,
\* over any wrap-around and growth of the ring; none is lost or overwritten
\* before its turn.
InOrder ==
  /\ Len(given) = Len(handed) + elems
  /\ \A n \in 1..Len(handed) : handed[n].id = given[n]

\* "(leaving a space for instructions given to timers)" (instructions.h): the
\* last Space instructions handed on are still what they were, wherever they
\* are, however many have been allocated since.
HistoryIntact ==
  \A n \in 1..Len(handed) :
    LET h == handed[n] IN
    n + Space > Len(handed) =>
      /\ h.ring \in DOMAIN mem /\ h.slot \in DOMAIN mem[h.ring]
      /\ mem[h.ring][h.slot].id = h.id

=============================================================================
