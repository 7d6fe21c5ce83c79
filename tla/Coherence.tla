----------------------------- MODULE Coherence -----------------------------
(***************************************************************************)
(* The simulated memory hierarchy while it is warmed up                    *)
(* (src/src/abaeterno/mem_lib): every core has a write-through L1 without  *)
(* write-allocate over a write-back L2; the L2s share a bus to the main    *)
(* memory, whose protocol snoops them (cache_impl.h, bus.h, main_memory.h, *)
(* mesi.cpp, moesi.cpp, futurebus.cpp).  These are the hierarchies of      *)
(* src/examples.                                                           *)
(*                                                                         *)
(* While warming, updates and invalidations take place at once, and the    *)
(* single simulation thread serves one access after the other: an access   *)
(* with all it does to other caches is a step.  Which line is evicted is   *)
(* left open, since it depends on the recency of all others.               *)
(***************************************************************************)
EXTENDS Naturals, FiniteSets

CONSTANTS
  Caches,          \* the cores, each with its L1 and its L2
  Tags,            \* memory lines that compete for the same set
  L1Ways, L2Ways,  \* lines in a set of an L1 and of an L2
  Protocols        \* what the bus may be configured with

ASSUME CoherenceAssumption ==
  /\ L1Ways \in Nat \ {0} /\ L2Ways \in Nat \ {0}
  /\ Protocols \subseteq {"MESI", "MOESI", "FUTUREBUS"}

VARIABLES
  protocol,  \* the bus's protocol; it never changes
  l1,        \* lines of the L1s: valid, invalidated but present, or absent
  l2,        \* MOESI state of the lines in the L2s; "I" if not there
  stale      \* lines whose last write has not reached the main memory

vars == <<protocol, l1, l2, stale>>

Valid == {"M", "O", "E", "S"}
States == Valid \union {"I"}
IsExclusive(s) == s \in {"M", "E"}
IsDirty(s) == s \in {"M", "O"}

Init ==
  /\ protocol \in Protocols
  /\ l1 = [c \in Caches |-> [t \in Tags |-> "none"]]
  /\ l2 = [c \in Caches |-> [t \in Tags |-> "I"]]
  /\ stale = {}

-----------------------------------------------------------------------------
\* Storage

\* Mutant: a full set is taken for one with a line to spare.
L2Victims_OffByOne(c) ==
  LET valid == {t \in Tags : l2[c][t] # "I"}
  IN IF Cardinality(valid) <= L2Ways THEN {{}} ELSE {{t} : t \in valid}

\* find_lru of a full L2 set: any line, for it is all valid ones; nothing is
\* evicted while there is an invalid line.
L2Victims(c) ==
  LET valid == {t \in Tags : l2[c][t] # "I"}
  IN IF Cardinality(valid) < L2Ways THEN {{}} ELSE {{t} : t \in valid}

\* find_lru of an L1 set, for t: its own line, an unused or an invalidated one
\* before a valid one
L1Victims(line, t) ==
  LET valid   == {x \in Tags : line[x] = "valid"}
      present == {x \in Tags : line[x] # "none"}
  IN IF t \in present \/ Cardinality(present) < L1Ways THEN {{}}
     ELSE IF valid # present THEN {{x} : x \in present \ valid}
     ELSE {{x} : x \in valid}

\* perform_invalidate in an L1: a line that is present takes over the state
\* its L2 passes on, whatever its own
Pass(l, s) ==
  IF l = "none" THEN "none" ELSE IF s = "I" THEN "invalid" ELSE "valid"

-----------------------------------------------------------------------------
\* The bus

\* What a protocol tells a snooped cache to become; "-" for nothing
Demote(p) ==
  [s \in Valid |-> IF p = "MESI" \/ s = "E" THEN "S"
                   ELSE IF s = "M" THEN "O" ELSE "-"]
Kill  == [s \in Valid |-> "I"]
Share == [s \in Valid |-> IF s \in {"O", "S"} THEN "S" ELSE "-"]
Leave == [s \in Valid |-> "-"]

Copies(t) == [d \in Caches |-> l2[d][t]]
Snooped(cp, c, to) == {d \in Caches \ {c} : cp[d] # "I" /\ to[cp[d]] # "-"}

\* perform_invalidate: the snooped caches that write their line back
Writers(cp, c, to) ==
  {d \in Snooped(cp, c, to) : IsDirty(cp[d]) /\ to[cp[d]] = "S"}

\* The copies when the bus has snooped for c.  The first cache that writes
\* back does so over the bus, and a write on the bus invalidates every copy
\* but the writer's, the asking cache's too.
Snoop(cp, c, to) ==
  IF Writers(cp, c, to) = {}
  THEN {[d \in Caches |-> IF d \in Snooped(cp, c, to) THEN to[cp[d]] ELSE cp[d]]}
  ELSE {[d \in Caches |-> IF d = w THEN "S" ELSE "I"] : w \in Writers(cp, c, to)}

\* read: other copies are demoted; the reader's line is shared with them, or
\* comes exclusively from the main memory.
ReadState(cp, c) ==
  IF \E d \in Caches \ {c} : cp[d] # "I" THEN "S" ELSE "E"

\* Mutant: a writer with a shared copy does not ask the others.
ReadXSnoop_Silent(ms) == IF ms # "I" THEN Leave ELSE Kill

\* readx: what the protocol tells the others, for a writer in state ms
ReadXSnoop(ms) ==
  IF IsExclusive(ms) THEN Leave
  ELSE IF protocol = "FUTUREBUS" /\ ms # "I" THEN Share ELSE Kill

\* readx: the writer's new state
ReadXState(cp, c) ==
  LET ms    == cp[c]
      found == Snooped(cp, c, ReadXSnoop(ms)) # {}
  IN IF IsExclusive(ms) \/ protocol = "MOESI" THEN "M"
     ELSE IF protocol = "MESI" THEN IF found /\ ms = "S" THEN "E" ELSE "M"
     ELSE IF ms = "I" THEN "E" ELSE IF found THEN "O" ELSE "M"

-----------------------------------------------------------------------------
\* An access of core c to line t through its L2.  The bus snoops with to and
\* leaves the copies cp; c's line gets state s; the lines vs are evicted: from
\* c's L1 for inclusion, and, when dirty, from everywhere by the writeback.
Access(c, t, to, cp, s, vs) ==
  l2' = [d \in Caches |-> [x \in Tags |->
           IF x = t THEN IF d = c THEN s ELSE cp[d]
           ELSE IF x \in vs /\ (d = c \/ IsDirty(l2[c][x])) THEN "I"
           ELSE l2[d][x]]]

\* Mutant: an eviction does not reach the L1.
L1After_NotInclusive(c, t, to, cp, vs) ==
  [d \in Caches |-> [x \in Tags |->
    IF x = t /\ d # c
       /\ (d \in Snooped(Copies(t), c, to) \/ cp[d] # l2[d][t])
    THEN Pass(l1[d][x], cp[d])
    ELSE l1[d][x]]]

\* What an access through the L2 does to the L1s: invalidate passes the new
\* state on to them.
L1After(c, t, to, cp, vs) ==
  [d \in Caches |-> [x \in Tags |->
    IF x = t /\ d # c
       /\ (d \in Snooped(Copies(t), c, to) \/ cp[d] # l2[d][t])
    THEN Pass(l1[d][x], cp[d])
    ELSE IF x \in vs /\ (d = c \/ (IsDirty(l2[c][x]) /\ l2[d][x] # "I"))
    THEN Pass(l1[d][x], "I")
    ELSE l1[d][x]]]

WrittenBack(c, t, to, vs) ==
  {x \in vs : IsDirty(l2[c][x])}
    \union (IF Writers(Copies(t), c, to) # {} THEN {t} ELSE {})

\* the L1 allocates t, evicting us
Fill(line, t, us) ==
  [x \in Tags |-> IF x = t THEN "valid" ELSE IF x \in us THEN "none" ELSE line[x]]

-----------------------------------------------------------------------------
\* read: a miss in the L1 that hits in the L2
ReadL2(c, t) ==
  /\ l1[c][t] # "valid"
  /\ l2[c][t] # "I"
  /\ \E us \in L1Victims(l1[c], t) :
       l1' = [l1 EXCEPT ![c] = Fill(l1[c], t, us)]
  /\ UNCHANGED <<protocol, l2, stale>>

\* read: a miss in both
ReadMiss(c, t) ==
  LET to == Demote(protocol)
  IN /\ l1[c][t] # "valid"
     /\ l2[c][t] = "I"
     /\ \E cp \in Snoop(Copies(t), c, to), vs \in L2Victims(c) :
          /\ Access(c, t, to, cp, ReadState(Copies(t), c), vs)
          /\ LET after == L1After(c, t, to, cp, vs)
             IN \E us \in L1Victims(after[c], t) :
                  l1' = [after EXCEPT ![c] = Fill(after[c], t, us)]
          /\ stale' = stale \ WrittenBack(c, t, to, vs)
     /\ UNCHANGED protocol

\* Mutant: a write miss that evicts a dirty line forgets it.
Write_NoWriteback(c, t) ==
  LET ms == l2[c][t]
      to == ReadXSnoop(ms)
  IN /\ \E cp \in Snoop(Copies(t), c, to),
           vs \in IF ms = "I" THEN L2Victims(c) ELSE {{}} :
          /\ l2' = [d \in Caches |-> [x \in Tags |->
                      IF x = t THEN IF d = c THEN ReadXState(Copies(t), c) ELSE cp[d]
                      ELSE IF x \in vs /\ d = c THEN "I" ELSE l2[d][x]]]
          /\ l1' = L1After(c, t, to, cp, vs)
          /\ stale' = (stale \ WrittenBack(c, t, to, {})) \union {t}
     /\ UNCHANGED protocol

\* write: the L1 writes through, and has its line again if it had it before;
\* the L2 obtains t for writing, allocating it if needed.
Write(c, t) ==
  LET ms == l2[c][t]
      to == ReadXSnoop(ms)
  IN /\ \E cp \in Snoop(Copies(t), c, to),
           vs \in IF ms = "I" THEN L2Victims(c) ELSE {{}} :
          /\ Access(c, t, to, cp, ReadXState(Copies(t), c), vs)
          /\ l1' = L1After(c, t, to, cp, vs)
          /\ stale' = (stale \ WrittenBack(c, t, to, vs)) \union {t}
     /\ UNCHANGED protocol

Next == \E c \in Caches, t \in Tags : ReadL2(c, t) \/ ReadMiss(c, t) \/ Write(c, t)

Spec == Init /\ [][Next]_vars

-----------------------------------------------------------------------------
\* Properties

\* Types, and no set of a cache holds more lines than it has ways.
TypeOK ==
  /\ protocol \in Protocols
  /\ l1 \in [Caches -> [Tags -> {"valid", "invalid", "none"}]]
  /\ l2 \in [Caches -> [Tags -> States]]
  /\ stale \subseteq Tags
  /\ \A c \in Caches :
       /\ Cardinality({t \in Tags : l1[c][t] # "none"}) <= L1Ways
       /\ Cardinality({t \in Tags : l2[c][t] # "I"}) <= L2Ways

\* "I have the only copy => No need to worry about others" (mesi.cpp:67): a
\* modified or exclusive line is the only copy, and a line has one owner.
SingleWriter ==
  \A t \in Tags : \A c, d \in Caches :
    c # d =>
      /\ IsExclusive(l2[c][t]) => l2[d][t] = "I"
      /\ l2[c][t] = "O" => l2[d][t] # "O"

\* Inclusion: what is valid in an L1 is valid in the L2 below it
\* (inclusive_invalidations, and snoops passed on by invalidate).
Inclusion ==
  \A c \in Caches, t \in Tags : l1[c][t] = "valid" => l2[c][t] # "I"

\* With MOESI no write is lost: while the main memory has an old value, some
\* cache holds the line dirty and will write it back.
DirtyKept ==
  protocol = "MOESI" => \A t \in stale : \E c \in Caches : IsDirty(l2[c][t])

=============================================================================
