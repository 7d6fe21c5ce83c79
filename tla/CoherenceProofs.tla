-------------------------- MODULE CoherenceProofs --------------------------
(***************************************************************************)
(* Proofs about Coherence, for any number of cores and lines, any          *)
(* associativity and each of the three protocols.                          *)
(***************************************************************************)
EXTENDS Coherence, FiniteSetTheorems, TLAPS

Typed ==
  /\ protocol \in {"MESI", "MOESI", "FUTUREBUS"}
  /\ l1 \in [Caches -> [Tags -> {"valid", "invalid", "none"}]]
  /\ l2 \in [Caches -> [Tags -> States]]
  /\ stale \subseteq Tags

\* The copies of one line: an exclusive one is alone, an owner is unique.
Sound(cp) ==
  \A c, d \in Caches :
    c # d =>
      /\ IsExclusive(cp[c]) => cp[d] = "I"
      /\ cp[c] = "O" => cp[d] # "O"

IInv == Typed /\ SingleWriter /\ Inclusion /\ DirtyKept

-----------------------------------------------------------------------------
\* One line on the bus

\* What the bus sees of a line is typed and sound.
LEMMA CopiesTyped ==
  ASSUME Typed, SingleWriter, NEW t \in Tags
  PROVE  /\ Copies(t) \in [Caches -> States]
         /\ Sound(Copies(t))
         /\ \A d \in Caches : Copies(t)[d] = l2[d][t]
BY DEF Typed, SingleWriter, Copies, Sound

\* Snooping with a table of legal states.
LEMMA SnoopTyped ==
  ASSUME NEW cp \in [Caches -> States], NEW c \in Caches,
         NEW to \in [Valid -> States \union {"-"}], NEW np \in Snoop(cp, c, to)
  PROVE  np \in [Caches -> States]
BY DEF Snoop, Snooped, Writers, States, Valid

\* A read leaves sound copies; with MOESI it writes nothing back, and a dirty
\* copy stays dirty.
LEMMA ReadSound ==
  ASSUME NEW p \in {"MESI", "MOESI", "FUTUREBUS"},
         NEW cp \in [Caches -> States], Sound(cp),
         NEW c \in Caches, cp[c] = "I",
         NEW np \in Snoop(cp, c, Demote(p))
  PROVE  /\ np \in [Caches -> States]
         /\ Sound([d \in Caches |-> IF d = c THEN ReadState(cp, c) ELSE np[d]])
         /\ ReadState(cp, c) \in Valid
         /\ p = "MOESI" =>
              /\ Writers(cp, c, Demote(p)) = {}
              /\ \A d \in Caches \ {c} : IsDirty(cp[d]) => IsDirty(np[d])
<1> DEFINE to == Demote(p)
<1>1. to \in [Valid -> States \union {"-"}]
  BY DEF Demote, Valid, States
<1>2. np \in [Caches -> States]
  BY <1>1, SnoopTyped
<1>3. CASE Writers(cp, c, to) = {}
  <2>1. \A d \in Caches : np[d] = IF d \in Snooped(cp, c, to) THEN to[cp[d]] ELSE cp[d]
    BY <1>3 DEF Snoop
  <2>2. \A d \in Caches \ {c} : np[d] \in {"O", "S", "I"} /\ (np[d] = "I" => cp[d] = "I")
    BY <2>1 DEF Snooped, Demote, Valid, States
  <2>3. \A d \in Caches \ {c} : np[d] = "O" => cp[d] \in {"M", "O"}
    BY <2>1 DEF Snooped, Demote, Valid, States
  <2> DEFINE st == [d \in Caches |-> IF d = c THEN ReadState(cp, c) ELSE np[d]]
  <2>a. ReadState(cp, c) \in {"S", "E"}
    BY DEF ReadState
  <2>b. ASSUME NEW d \in Caches \ {c}, ReadState(cp, c) = "E"
        PROVE  np[d] = "I"
    <3>1. cp[d] = "I"
      BY <2>b DEF ReadState
    <3> QED
      BY <2>1, <3>1 DEF Snooped
  <2>c. ASSUME NEW d \in Caches, NEW e \in Caches, d # e, st[d] = "O"
        PROVE  st[e] # "O"
    <3>1. d # c /\ np[d] = "O"
      BY <2>a, <2>c
    <3>2. CASE e = c
      BY <2>a, <3>2
    <3>3. CASE e # c
      <4>1. cp[d] \in {"M", "O"} /\ (np[e] = "O" => cp[e] \in {"M", "O"})
        BY <2>3, <3>1, <3>3
      <4> QED
        BY <2>c, <3>1, <3>3, <4>1 DEF Sound, IsExclusive
    <3> QED
      BY <3>2, <3>3
  <2>d. ASSUME NEW d \in Caches, NEW e \in Caches, d # e, IsExclusive(st[d])
        PROVE  st[e] = "I"
    <3>1. d = c /\ ReadState(cp, c) = "E"
      BY <2>2, <2>a, <2>d DEF IsExclusive
    <3> QED
      BY <2>b, <2>d, <3>1
  <2>4. Sound(st)
    BY <2>c, <2>d DEF Sound
  <2>5. p = "MOESI" => \A d \in Caches \ {c} : IsDirty(cp[d]) => IsDirty(np[d])
    BY <2>1 DEF Snooped, Demote, Valid, States, IsDirty
  <2> QED
    BY <1>2, <1>3, <2>a, <2>4, <2>5 DEF Valid
<1>4. CASE Writers(cp, c, to) # {}
  <2>1. PICK w \in Writers(cp, c, to) : np = [d \in Caches |-> IF d = w THEN "S" ELSE "I"]
    BY <1>4 DEF Snoop
  <2>2. w \in Caches \ {c} /\ cp[w] # "I"
    BY DEF Writers, Snooped
  <2>3. ReadState(cp, c) = "S"
    BY <2>2 DEF ReadState
  <2>4. Sound([d \in Caches |-> IF d = c THEN ReadState(cp, c) ELSE np[d]])
    BY <2>1, <2>2, <2>3 DEF Sound, IsExclusive
  <2>5. p # "MOESI"
    BY <2>1 DEF Writers, Snooped, Demote, IsDirty, Valid
  <2> QED
    BY <1>2, <2>3, <2>4, <2>5 DEF Valid
<1> QED
  BY <1>3, <1>4

\* A write leaves sound copies and a valid one with the writer; with MOESI the
\* writer's is modified, and nothing is written back.
LEMMA WriteSound ==
  ASSUME protocol \in {"MESI", "MOESI", "FUTUREBUS"},
         NEW cp \in [Caches -> States], Sound(cp), NEW c \in Caches,
         NEW np \in Snoop(cp, c, ReadXSnoop(cp[c]))
  PROVE  /\ np \in [Caches -> States]
         /\ ReadXState(cp, c) \in Valid
         /\ Sound([d \in Caches |-> IF d = c THEN ReadXState(cp, c) ELSE np[d]])
         /\ protocol = "MOESI" => /\ ReadXState(cp, c) = "M"
                                  /\ Writers(cp, c, ReadXSnoop(cp[c])) = {}
<1> DEFINE to == ReadXSnoop(cp[c])
<1> DEFINE s == ReadXState(cp, c)
<1>1. to \in [Valid -> States \union {"-"}]
  BY DEF ReadXSnoop, Leave, Kill, Share, Valid, States
<1>2. np \in [Caches -> States]
  BY <1>1, SnoopTyped
<1>3. s \in Valid
  BY DEF ReadXState, Valid
<1>4. CASE IsExclusive(cp[c])
  <2>1. to = Leave /\ s = "M"
    BY <1>4 DEF ReadXSnoop, ReadXState
  <2>2. Snooped(cp, c, to) = {} /\ Writers(cp, c, to) = {}
    BY <2>1 DEF Snooped, Writers, Leave, Valid, States
  <2>3. \A d \in Caches : np[d] = cp[d]
    BY <2>2 DEF Snoop
  <2>4. \A d \in Caches \ {c} : np[d] = "I"
    BY <2>3, <1>4 DEF Sound
  <2> QED
    BY <1>2, <1>3, <2>1, <2>2, <2>4 DEF Sound, IsExclusive
<1>5. CASE ~IsExclusive(cp[c]) /\ ~(protocol = "FUTUREBUS" /\ cp[c] # "I")
  <2>1. to = Kill /\ s \in {"M", "E"} /\ (protocol = "MOESI" => s = "M")
    BY <1>5 DEF ReadXSnoop, ReadXState
  <2>2. Writers(cp, c, to) = {}
    BY <2>1 DEF Snooped, Writers, Kill, Valid, States
  <2>3. \A d \in Caches : np[d] = IF d \in Snooped(cp, c, to) THEN to[cp[d]] ELSE cp[d]
    BY <2>2 DEF Snoop
  <2>4. \A d \in Caches \ {c} : np[d] = "I"
    BY <2>1, <2>3 DEF Snooped, Kill, Valid, States
  <2> QED
    BY <1>2, <1>3, <2>1, <2>2, <2>4 DEF Sound, IsExclusive
<1>6. CASE ~IsExclusive(cp[c]) /\ protocol = "FUTUREBUS" /\ cp[c] # "I"
  <2>1. to = Share
    BY <1>6 DEF ReadXSnoop
  <2>2. \A d \in Caches \ {c} : cp[d] \in {"O", "S", "I"}
    BY <1>6 DEF Sound, IsExclusive, States, Valid
  <2>3. \A d \in Caches \ {c} : cp[d] # "I" <=> d \in Snooped(cp, c, to)
    BY <2>1, <2>2 DEF Snooped, Share, Valid
  <2>4. CASE Snooped(cp, c, to) = {}
    <3>1. s = "M"
      BY <1>6, <2>4 DEF ReadXState
    <3>2. \A d \in Caches \ {c} : np[d] = "I"
      BY <2>3, <2>4 DEF Snoop, Writers
    <3> QED
      BY <1>2, <1>3, <1>6, <3>1, <3>2 DEF Sound, IsExclusive
  <2>5. CASE Snooped(cp, c, to) # {}
    <3>1. s = "O"
      BY <1>6, <2>5 DEF ReadXState
    <3>2. \A d \in Caches \ {c} : np[d] \in {"S", "I"}
      <4>1. CASE Writers(cp, c, to) = {}
        <5>1. \A d \in Caches : np[d] = IF d \in Snooped(cp, c, to) THEN to[cp[d]] ELSE cp[d]
          BY <4>1 DEF Snoop
        <5> QED
          BY <2>1, <2>2, <2>3, <5>1 DEF Share, Valid
      <4>2. CASE Writers(cp, c, to) # {}
        BY <4>2 DEF Snoop
      <4> QED
        BY <4>1, <4>2
    <3> QED
      BY <1>2, <1>3, <1>6, <3>1, <3>2 DEF Sound, IsExclusive
  <2> QED
    BY <2>4, <2>5
<1> QED
  BY <1>4, <1>5, <1>6

-----------------------------------------------------------------------------
\* An access: the line itself, and the lines evicted for it

\* An access leaves states in the L2s.
LEMMA AccessTyped ==
  ASSUME Typed, NEW c \in Caches, NEW t \in Tags, NEW to,
         NEW cp \in [Caches -> States], NEW s \in States, NEW vs \in SUBSET Tags,
         Access(c, t, to, cp, s, vs)
  PROVE  l2' \in [Caches -> [Tags -> States]]
BY DEF Typed, Access, States

\* An access keeps every line sound if the accessed one is: evictions only
\* take copies away.
LEMMA AccessSound ==
  ASSUME Typed, SingleWriter, NEW c \in Caches, NEW t \in Tags, NEW to,
         NEW cp \in [Caches -> States], NEW s \in States, NEW vs \in SUBSET Tags,
         Sound([d \in Caches |-> IF d = c THEN s ELSE cp[d]]),
         Access(c, t, to, cp, s, vs)
  PROVE  SingleWriter'
<1> SUFFICES ASSUME NEW x \in Tags, NEW a \in Caches, NEW b \in Caches, a # b
             PROVE  /\ IsExclusive(l2'[a][x]) => l2'[b][x] = "I"
                    /\ l2'[a][x] = "O" => l2'[b][x] # "O"
  BY DEF SingleWriter
<1>1. CASE x = t
  <2>1. \A d \in Caches : l2'[d][x] = IF d = c THEN s ELSE cp[d]
    BY <1>1 DEF Access
  <2> QED
    BY <2>1 DEF Sound
<1>2. CASE x # t
  <2>1. \A d \in Caches : l2'[d][x] = "I" \/ l2'[d][x] = l2[d][x]
    BY <1>2 DEF Access
  <2>2. /\ IsExclusive(l2[a][x]) => l2[b][x] = "I"
        /\ l2[a][x] = "O" => l2[b][x] # "O"
    BY DEF SingleWriter
  <2> QED
    BY <2>1, <2>2 DEF IsExclusive
<1> QED
  BY <1>1, <1>2

\* What an access leaves in the L1s is typed.
LEMMA L1AfterTyped ==
  ASSUME Typed, NEW c \in Caches, NEW t \in Tags, NEW to, NEW cp, NEW vs
  PROVE  L1After(c, t, to, cp, vs) \in [Caches -> [Tags -> {"valid", "invalid", "none"}]]
BY DEF Typed, L1After, Pass

\* What is left valid in the L1s is valid in the L2s below.
LEMMA AccessInclusive ==
  ASSUME Typed, Inclusion, NEW c \in Caches, NEW t \in Tags, NEW to,
         NEW cp \in [Caches -> States], NEW s \in Valid, NEW vs \in SUBSET Tags,
         Access(c, t, to, cp, s, vs),
         NEW d \in Caches, NEW x \in Tags,
         L1After(c, t, to, cp, vs)[d][x] = "valid"
  PROVE  l2'[d][x] # "I"
<1>1. l1[d][x] = "valid" => l2[d][x] # "I"
  BY DEF Inclusion
<1>2. CASE x = t /\ d = c
  BY <1>2 DEF Access, Valid
<1>3. CASE x = t /\ d # c
  <2>1. l2'[d][x] = cp[d]
    BY <1>3 DEF Access
  <2>2. CASE d \in Snooped(Copies(t), c, to) \/ cp[d] # l2[d][t]
    BY <1>3, <2>1, <2>2 DEF L1After, Pass
  <2>3. CASE ~(d \in Snooped(Copies(t), c, to) \/ cp[d] # l2[d][t])
    BY <1>1, <1>3, <2>1, <2>3 DEF L1After
  <2> QED
    BY <2>2, <2>3
<1>4. CASE x # t
  BY <1>1, <1>4 DEF Access, L1After, Pass
<1> QED
  BY <1>2, <1>3, <1>4

\* With MOESI, where snooping writes nothing back, a line that is still stale
\* is still dirty somewhere.
LEMMA AccessDirty ==
  ASSUME Typed, DirtyKept, protocol = "MOESI", protocol' = protocol,
         NEW c \in Caches, NEW t \in Tags, NEW to,
         NEW cp \in [Caches -> States], NEW s \in States, NEW vs \in SUBSET Tags,
         Access(c, t, to, cp, s, vs),
         Writers(Copies(t), c, to) = {},
         \/ /\ s = "M"
            /\ stale' = (stale \ WrittenBack(c, t, to, vs)) \union {t}
         \/ /\ l2[c][t] = "I"
            /\ \A d \in Caches \ {c} : IsDirty(l2[d][t]) => IsDirty(cp[d])
            /\ stale' = stale \ WrittenBack(c, t, to, vs)
  PROVE  DirtyKept'
<1> SUFFICES ASSUME NEW x \in stale'
             PROVE  \E d \in Caches : IsDirty(l2'[d][x])
  BY DEF DirtyKept, IsDirty
<1>1. CASE x = t
  <2>1. CASE s = "M"
    <3>1. l2'[c][t] = "M"
      BY <2>1 DEF Access
    <3> QED
      BY <1>1, <3>1 DEF IsDirty
  <2>2. CASE s # "M"
    <3>1. PICK d \in Caches : IsDirty(l2[d][t])
      BY <1>1, <2>2 DEF DirtyKept
    <3>2. d # c /\ IsDirty(cp[d])
      BY <2>2, <3>1 DEF IsDirty
    <3>3. l2'[d][t] = cp[d]
      BY <3>2 DEF Access
    <3> QED
      BY <1>1, <3>2, <3>3
  <2> QED
    BY <2>1, <2>2
<1>2. CASE x # t
  <2>1. x \in stale /\ x \notin WrittenBack(c, t, to, vs) /\ x \in Tags
    BY <1>2 DEF Typed
  <2>2. PICK d \in Caches : IsDirty(l2[d][x])
    BY <2>1 DEF DirtyKept
  <2>3. ~(x \in vs /\ (d = c \/ IsDirty(l2[c][x])))
    BY <2>1, <2>2 DEF WrittenBack
  <2>4. l2'[d][x] = l2[d][x]
    BY <1>2, <2>1, <2>3 DEF Access
  <2> QED
    BY <2>2, <2>4
<1> QED
  BY <1>1, <1>2

\* Victims are lines.
LEMMA VictimsTyped ==
  ASSUME NEW c \in Caches, NEW vs \in L2Victims(c)
  PROVE  vs \in SUBSET Tags
BY DEF L2Victims

-----------------------------------------------------------------------------
\* The steps

\* The caches start empty.
LEMMA InitIInv == Init => IInv
<1> SUFFICES ASSUME Init PROVE IInv
  OBVIOUS
<1>1. Typed
  BY CoherenceAssumption DEF Init, Typed, States
<1>2. SingleWriter
  BY DEF Init, SingleWriter, IsExclusive
<1>3. Inclusion /\ DirtyKept
  BY DEF Init, Inclusion, DirtyKept
<1> QED
  BY <1>1, <1>2, <1>3 DEF IInv

\* Only the L1 changes, and it gets a line that its L2 has.
LEMMA ReadL2Keeps ==
  ASSUME IInv, NEW c \in Caches, NEW t \in Tags, ReadL2(c, t)
  PROVE  IInv'
<1>1. PICK us \in L1Victims(l1[c], t) : l1' = [l1 EXCEPT ![c] = Fill(l1[c], t, us)]
  BY DEF ReadL2
<1>2. protocol' = protocol /\ l2' = l2 /\ stale' = stale /\ l2[c][t] # "I"
  BY DEF ReadL2
<1>3. Fill(l1[c], t, us) \in [Tags -> {"valid", "invalid", "none"}]
  BY DEF Fill, IInv, Typed
<1>4. Typed'
  BY <1>1, <1>2, <1>3 DEF IInv, Typed
<1>5. SingleWriter' /\ DirtyKept'
  BY <1>2 DEF IInv, SingleWriter, DirtyKept
<1>6. ASSUME NEW d \in Caches, NEW x \in Tags, l1'[d][x] = "valid"
      PROVE  l2'[d][x] # "I"
  <2>1. CASE d = c /\ x = t
    BY <1>2, <2>1
  <2>2. CASE d = c /\ x # t
    <3>1. l1[c][x] = "valid"
      BY <1>1, <1>6, <2>2 DEF Fill, IInv, Typed
    <3> QED
      BY <1>2, <2>2, <3>1 DEF IInv, Inclusion
  <2>3. CASE d # c
    <3>1. l1[d][x] = "valid"
      BY <1>1, <1>6, <2>3 DEF IInv, Typed
    <3> QED
      BY <1>2, <3>1 DEF IInv, Inclusion
  <2> QED
    BY <2>1, <2>2, <2>3
<1>7. Inclusion'
  BY <1>6 DEF Inclusion
<1> QED
  BY <1>4, <1>5, <1>7 DEF IInv

\* A read that misses in both caches.
LEMMA ReadMissKeeps ==
  ASSUME IInv, NEW c \in Caches, NEW t \in Tags, ReadMiss(c, t)
  PROVE  IInv'
<1> DEFINE to == Demote(protocol)
<1> DEFINE s == ReadState(Copies(t), c)
<1>1. PICK cp \in Snoop(Copies(t), c, to), vs \in L2Victims(c) :
        /\ Access(c, t, to, cp, s, vs)
        /\ \E us \in L1Victims(L1After(c, t, to, cp, vs)[c], t) :
             l1' = [L1After(c, t, to, cp, vs) EXCEPT
                      ![c] = Fill(L1After(c, t, to, cp, vs)[c], t, us)]
        /\ stale' = stale \ WrittenBack(c, t, to, vs)
  BY DEF ReadMiss
<1> DEFINE after == L1After(c, t, to, cp, vs)
<1>2. PICK us \in L1Victims(after[c], t) : l1' = [after EXCEPT ![c] = Fill(after[c], t, us)]
  BY <1>1
<1>3. protocol' = protocol /\ l2[c][t] = "I"
  BY DEF ReadMiss
<1>4. vs \in SUBSET Tags
  BY VictimsTyped
<1>5. /\ Typed /\ SingleWriter /\ Inclusion /\ DirtyKept
      /\ protocol \in {"MESI", "MOESI", "FUTUREBUS"}
  BY DEF IInv, Typed
<1>6. /\ Copies(t) \in [Caches -> States] /\ Sound(Copies(t))
      /\ \A d \in Caches : Copies(t)[d] = l2[d][t]
  BY <1>5, CopiesTyped
<1>7. /\ cp \in [Caches -> States] /\ s \in Valid
      /\ Sound([d \in Caches |-> IF d = c THEN s ELSE cp[d]])
      /\ protocol = "MOESI" =>
           /\ Writers(Copies(t), c, to) = {}
           /\ \A d \in Caches \ {c} : IsDirty(Copies(t)[d]) => IsDirty(cp[d])
  <2>1. Copies(t)[c] = "I"
    BY <1>3, <1>6
  <2> QED
    BY <1>5, <1>6, <2>1, ReadSound
<1>8. s \in States
  BY <1>7 DEF States
<1>9. Typed'
  <2>1. l2' \in [Caches -> [Tags -> States]]
    BY <1>1, <1>4, <1>5, <1>7, <1>8, AccessTyped
  <2>2. after \in [Caches -> [Tags -> {"valid", "invalid", "none"}]]
    BY <1>5, L1AfterTyped
  <2>3. Fill(after[c], t, us) \in [Tags -> {"valid", "invalid", "none"}]
    BY <2>2 DEF Fill
  <2>4. l1' \in [Caches -> [Tags -> {"valid", "invalid", "none"}]]
    BY <1>2, <2>2, <2>3
  <2> QED
    BY <1>1, <1>3, <1>5, <2>1, <2>4 DEF Typed
<1>10. SingleWriter'
  BY <1>1, <1>4, <1>5, <1>7, <1>8, AccessSound
<1>11. ASSUME NEW d \in Caches, NEW x \in Tags, l1'[d][x] = "valid"
       PROVE  l2'[d][x] # "I"
  <2>1. after \in [Caches -> [Tags -> {"valid", "invalid", "none"}]]
    BY <1>5, L1AfterTyped
  <2>2. CASE d = c /\ x = t
    BY <1>1, <1>7, <2>2 DEF Access, Valid
  <2>3. CASE ~(d = c /\ x = t)
    <3>1. after[d][x] = "valid"
      BY <1>2, <1>11, <2>1, <2>3 DEF Fill
    <3>2. Access(c, t, to, cp, s, vs) /\ cp \in [Caches -> States] /\ s \in Valid
      BY <1>1, <1>7
    <3> HIDE DEF to, s, after
    <3> QED
      BY <1>4, <1>5, <3>1, <3>2, AccessInclusive DEF after
  <2> QED
    BY <2>2, <2>3
<1>12. Inclusion'
  BY <1>11 DEF Inclusion
<1>13. DirtyKept'
  <2>1. CASE protocol = "MOESI"
    <3>1. \A d \in Caches \ {c} : IsDirty(l2[d][t]) => IsDirty(cp[d])
      BY <1>6, <1>7, <2>1
    <3> QED
      BY <1>1, <1>3, <1>4, <1>5, <1>7, <1>8, <2>1, <3>1, AccessDirty
  <2>2. CASE protocol # "MOESI"
    BY <1>3, <2>2 DEF DirtyKept
  <2> QED
    BY <2>1, <2>2
<1> QED
  BY <1>9, <1>10, <1>12, <1>13 DEF IInv

\* A write, hit or miss.
LEMMA WriteKeeps ==
  ASSUME IInv, NEW c \in Caches, NEW t \in Tags, Write(c, t)
  PROVE  IInv'
<1> DEFINE to == ReadXSnoop(l2[c][t])
<1> DEFINE s == ReadXState(Copies(t), c)
<1>1. PICK cp \in Snoop(Copies(t), c, to),
           vs \in IF l2[c][t] = "I" THEN L2Victims(c) ELSE {{}} :
        /\ Access(c, t, to, cp, s, vs)
        /\ l1' = L1After(c, t, to, cp, vs)
        /\ stale' = (stale \ WrittenBack(c, t, to, vs)) \union {t}
  BY DEF Write
<1>2. protocol' = protocol
  BY DEF Write
<1>3. vs \in SUBSET Tags
  BY VictimsTyped
<1>4. /\ Typed /\ SingleWriter /\ Inclusion /\ DirtyKept
      /\ protocol \in {"MESI", "MOESI", "FUTUREBUS"}
  BY DEF IInv, Typed
<1>5. /\ Copies(t) \in [Caches -> States] /\ Sound(Copies(t))
      /\ \A d \in Caches : Copies(t)[d] = l2[d][t]
  BY <1>4, CopiesTyped
<1>6. /\ cp \in [Caches -> States] /\ s \in Valid
      /\ Sound([d \in Caches |-> IF d = c THEN s ELSE cp[d]])
      /\ protocol = "MOESI" => s = "M" /\ Writers(Copies(t), c, to) = {}
  <2>1. to = ReadXSnoop(Copies(t)[c])
    BY <1>5
  <2> QED
    BY <1>4, <1>5, <2>1, WriteSound
<1>7. s \in States
  BY <1>6 DEF States
<1>8. Typed'
  <2>1. l2' \in [Caches -> [Tags -> States]]
    BY <1>1, <1>3, <1>4, <1>6, <1>7, AccessTyped
  <2>2. l1' \in [Caches -> [Tags -> {"valid", "invalid", "none"}]]
    BY <1>1, <1>4, L1AfterTyped
  <2> QED
    BY <1>1, <1>2, <1>4, <2>1, <2>2 DEF Typed
<1>9. SingleWriter'
  BY <1>1, <1>3, <1>4, <1>6, <1>7, AccessSound
<1>10. Inclusion'
  <2>1. ASSUME NEW d \in Caches, NEW x \in Tags, l1'[d][x] = "valid"
        PROVE  l2'[d][x] # "I"
    BY <1>1, <1>3, <1>4, <1>6, <2>1, AccessInclusive
  <2> QED
    BY <2>1 DEF Inclusion
<1>11. DirtyKept'
  <2>1. CASE protocol = "MOESI"
    BY <1>1, <1>2, <1>3, <1>4, <1>6, <1>7, <2>1, AccessDirty
  <2>2. CASE protocol # "MOESI"
    BY <1>2, <2>2 DEF DirtyKept
  <2> QED
    BY <2>1, <2>2
<1> QED
  BY <1>8, <1>9, <1>10, <1>11 DEF IInv

-----------------------------------------------------------------------------
\* Lines and ways

L1Lines(line) == {x \in Tags : line[x] # "none"}
L2Lines(c) == {x \in Tags : l2[c][x] # "I"}

\* No set holds more lines than it has ways.
Fits(S, n) == IsFiniteSet(S) /\ Cardinality(S) <= n
Fit == \A c \in Caches : Fits(L1Lines(l1[c]), L1Ways) /\ Fits(L2Lines(c), L2Ways)

\* A line comes in where there is room or where another one leaves.
LEMMA Replaced ==
  ASSUME NEW n \in Nat, NEW S, Fits(S, n), NEW t, NEW us,
         \/ us = {} /\ (t \in S \/ Cardinality(S) < n)
         \/ \E v \in S : us = {v},
         NEW T \in SUBSET ((S \ us) \union {t})
  PROVE  Fits(T, n)
<1> DEFINE rest == S \ us
           all == rest \union {t}
<1>1. IsFiniteSet(S) /\ Cardinality(S) \in Nat /\ Cardinality(S) <= n
  BY FS_CardinalityType DEF Fits
<1>2. IsFiniteSet(rest) /\ Cardinality(rest) \in Nat
      /\ (Cardinality(rest) < n \/ (t \in rest /\ Cardinality(rest) <= n))
  <2>1. CASE us = {} /\ (t \in S \/ Cardinality(S) < n)
    <3>1. rest = S
      BY <2>1
    <3> QED
      BY <1>1, <2>1, <3>1
  <2>2. CASE \E v \in S : us = {v}
    <3>1. PICK v \in S : us = {v}
      BY <2>2
    <3>2. IsFiniteSet(S \ {v}) /\ Cardinality(S \ {v}) = Cardinality(S) - 1
      BY <1>1, FS_RemoveElement
    <3>3. Cardinality(S \ {v}) \in Nat
      BY <3>2, FS_CardinalityType
    <3> QED
      BY <1>1, <3>1, <3>2, <3>3
  <2> QED
    BY <2>1, <2>2
<1>3. IsFiniteSet(all) /\ Cardinality(all) \in Nat /\ Cardinality(all) <= n
  <2>1. IsFiniteSet(all)
        /\ Cardinality(all) = IF t \in rest THEN Cardinality(rest) ELSE Cardinality(rest) + 1
    BY <1>2, FS_AddElement
  <2> HIDE DEF rest, all
  <2> QED
    BY <1>2, <2>1
<1>4. IsFiniteSet(T) /\ Cardinality(T) <= Cardinality(all)
  BY <1>3, FS_Subset
<1>5. Cardinality(T) \in Nat
  BY <1>4, FS_CardinalityType
<1> QED
  BY <1>3, <1>4, <1>5 DEF Fits

LEMMA Fewer ==
  ASSUME NEW n \in Nat, NEW S, Fits(S, n), NEW T \in SUBSET S PROVE Fits(T, n)
<1>1. IsFiniteSet(T) /\ Cardinality(T) <= Cardinality(S)
  BY FS_Subset DEF Fits
<1>2. Cardinality(T) \in Nat /\ Cardinality(S) \in Nat
  BY <1>1, FS_CardinalityType DEF Fits
<1> QED
  BY <1>1, <1>2 DEF Fits

\* Snooping brings a line to nobody.
LEMMA SnoopBringsNone ==
  ASSUME NEW cp, NEW c \in Caches, NEW to, NEW np \in Snoop(cp, c, to),
         NEW d \in Caches, np[d] # "I"
  PROVE  cp[d] # "I"
BY DEF Snoop, Snooped, Writers

\* Invalidating an L1 line leaves it in its place.
LEMMA L1AfterFits ==
  ASSUME Typed, Fit, NEW c \in Caches, NEW t \in Tags, NEW to, NEW cp, NEW vs,
         NEW d \in Caches
  PROVE  Fits(L1Lines(L1After(c, t, to, cp, vs)[d]), L1Ways)
<1>1. L1Lines(L1After(c, t, to, cp, vs)[d]) \subseteq L1Lines(l1[d])
  BY DEF L1Lines, L1After, Pass
<1> QED
  BY <1>1, Fewer, CoherenceAssumption DEF Fit

LEMMA FillFits ==
  ASSUME NEW line, NEW t \in Tags, NEW us \in L1Victims(line, t),
         Fits(L1Lines(line), L1Ways)
  PROVE  Fits(L1Lines(Fill(line, t, us)), L1Ways)
<1>1. L1Lines(Fill(line, t, us)) \subseteq (L1Lines(line) \ us) \union {t}
  BY DEF L1Lines, Fill
<1>2. \/ us = {} /\ (t \in L1Lines(line) \/ Cardinality(L1Lines(line)) < L1Ways)
      \/ \E v \in L1Lines(line) : us = {v}
  BY DEF L1Victims, L1Lines
<1> QED
  BY <1>1, <1>2, Replaced, CoherenceAssumption

\* The L2 lines after an access.
LEMMA AccessFits ==
  ASSUME Typed, Fit, NEW c \in Caches, NEW t \in Tags, NEW to, NEW s,
         NEW cp \in Snoop(Copies(t), c, to),
         NEW vs \in IF l2[c][t] = "I" THEN L2Victims(c) ELSE {{}},
         Access(c, t, to, cp, s, vs), NEW d \in Caches
  PROVE  Fits(L2Lines(d)', L2Ways)
<1>1. L2Lines(d)' \subseteq (L2Lines(d) \ (IF d = c THEN vs ELSE {})) \union {t}
  BY DEF L2Lines, Access
<1>2. CASE d # c
  <2>1. cp[d] # "I" => l2[d][t] # "I"
    BY SnoopBringsNone DEF Copies
  <2>2. L2Lines(d)' \subseteq L2Lines(d)
    BY <1>2, <2>1 DEF L2Lines, Access
  <2> QED
    BY <2>2, Fewer, CoherenceAssumption DEF Fit
<1>3. CASE d = c
  <2>1. \/ vs = {} /\ (t \in L2Lines(c) \/ Cardinality(L2Lines(c)) < L2Ways)
        \/ \E v \in L2Lines(c) : vs = {v}
    BY DEF L2Victims, L2Lines
  <2>2. L2Lines(c)' \subseteq (L2Lines(c) \ vs) \union {t}
    BY <1>1, <1>3
  <2>3. Fits(L2Lines(c), L2Ways) /\ L2Ways \in Nat
    BY CoherenceAssumption DEF Fit
  <2> QED
    BY <1>3, <2>1, <2>2, <2>3, Replaced
<1> QED
  BY <1>2, <1>3

LEMMA StepFits == ASSUME IInv, Fit, [Next]_vars PROVE Fit'
<1> USE DEF IInv
<1>1. ASSUME NEW c \in Caches, NEW t \in Tags, ReadL2(c, t) PROVE Fit'
  <2>1. PICK us \in L1Victims(l1[c], t) : l1' = [l1 EXCEPT ![c] = Fill(l1[c], t, us)]
    BY <1>1 DEF ReadL2
  <2>2. Fits(L1Lines(Fill(l1[c], t, us)), L1Ways)
    BY FillFits DEF Fit
  <2>3. \A d \in Caches : l1'[d] = IF d = c THEN Fill(l1[c], t, us) ELSE l1[d]
    BY <2>1 DEF Typed
  <2>4. \A d \in Caches : Fits(L1Lines(l1'[d]), L1Ways)
    BY <2>2, <2>3 DEF Fit
  <2>5. l2' = l2
    BY <1>1 DEF ReadL2
  <2> QED
    BY <2>4, <2>5 DEF Fit, L1Lines, L2Lines
<1>2. ASSUME NEW c \in Caches, NEW t \in Tags, ReadMiss(c, t) PROVE Fit'
  <2> DEFINE to == Demote(protocol)
  <2>1. PICK cp \in Snoop(Copies(t), c, to), vs \in L2Victims(c) :
          /\ Access(c, t, to, cp, ReadState(Copies(t), c), vs)
          /\ LET after == L1After(c, t, to, cp, vs)
             IN \E us \in L1Victims(after[c], t) :
                  l1' = [after EXCEPT ![c] = Fill(after[c], t, us)]
    BY <1>2 DEF ReadMiss
  <2> DEFINE after == L1After(c, t, to, cp, vs)
  <2>2. PICK us \in L1Victims(after[c], t) :
          l1' = [after EXCEPT ![c] = Fill(after[c], t, us)]
    BY <2>1
  <2>3. \A d \in Caches : Fits(L1Lines(after[d]), L1Ways)
    BY L1AfterFits
  <2>4. Fits(L1Lines(Fill(after[c], t, us)), L1Ways)
    BY <2>2, <2>3, FillFits
  <2>5. \A d \in Caches : l1'[d] = IF d = c THEN Fill(after[c], t, us) ELSE after[d]
    BY <2>2 DEF L1After
  <2> HIDE DEF after, to
  <2>6. \A d \in Caches : Fits(L1Lines(l1'[d]), L1Ways)
    BY <2>3, <2>4, <2>5
  <2>7. l2[c][t] = "I"
    BY <1>2 DEF ReadMiss
  <2>8. \A d \in Caches : Fits(L2Lines(d)', L2Ways)
    BY <2>1, <2>7, AccessFits
  <2> QED
    BY <2>6, <2>8 DEF Fit, L1Lines
<1>3. ASSUME NEW c \in Caches, NEW t \in Tags, Write(c, t) PROVE Fit'
  <2> DEFINE to == ReadXSnoop(l2[c][t])
  <2>1. PICK cp \in Snoop(Copies(t), c, to),
             vs \in IF l2[c][t] = "I" THEN L2Victims(c) ELSE {{}} :
          /\ Access(c, t, to, cp, ReadXState(Copies(t), c), vs)
          /\ l1' = L1After(c, t, to, cp, vs)
    BY <1>3 DEF Write
  <2> HIDE DEF to
  <2>2. \A d \in Caches : Fits(L1Lines(l1'[d]), L1Ways)
    BY <2>1, L1AfterFits
  <2>3. \A d \in Caches : Fits(L2Lines(d)', L2Ways)
    BY <2>1, AccessFits
  <2> QED
    BY <2>2, <2>3 DEF Fit, L1Lines
<1>4. CASE UNCHANGED vars
  BY <1>4 DEF vars, Fit, L1Lines, L2Lines
<1> QED
  BY <1>1, <1>2, <1>3, <1>4 DEF Next

-----------------------------------------------------------------------------
\* The theorems

\* The properties below are inductive together with the types: each step keeps
\* every one of them, once it is known what snooping does to a line's copies.
THEOREM Invariance == Spec => []IInv
<1>1. ASSUME IInv, [Next]_vars
      PROVE  IInv'
  <2>1. CASE Next
    <3>1. PICK c \in Caches, t \in Tags : ReadL2(c, t) \/ ReadMiss(c, t) \/ Write(c, t)
      BY <2>1 DEF Next
    <3>2. CASE ReadL2(c, t)
      BY <1>1, <3>2, ReadL2Keeps
    <3>3. CASE ReadMiss(c, t)
      BY <1>1, <3>3, ReadMissKeeps
    <3>4. CASE Write(c, t)
      BY <1>1, <3>4, WriteKeeps
    <3> QED
      BY <3>1, <3>2, <3>3, <3>4
  <2>2. CASE UNCHANGED vars
    BY <1>1, <2>2 DEF IInv, Typed, SingleWriter, Inclusion, DirtyKept, vars
  <2> QED
    BY <1>1, <2>1, <2>2
<1> QED
  BY <1>1, InitIInv, PTL DEF Spec

\* A modified or exclusive line is the only copy of its line, and no line has
\* two owners, whatever the cores read and write under any of the protocols.
THEOREM Coherent == Spec => []SingleWriter
<1>1. IInv => SingleWriter
  BY DEF IInv
<1> QED
  BY <1>1, Invariance, PTL

\* Evictions and snoops reach the L1s: none holds a line its L2 has lost.
THEOREM Inclusive == Spec => []Inclusion
<1>1. IInv => Inclusion
  BY DEF IInv
<1> QED
  BY <1>1, Invariance, PTL

\* With MOESI, what was written last is in memory or dirty in some L2.
THEOREM NothingLost == Spec => []DirtyKept
<1>1. IInv => DirtyKept
  BY DEF IInv
<1> QED
  BY <1>1, Invariance, PTL

\* find_lru and allocate (storage_many.h): no set of an L1 or an L2 ever holds
\* more lines than it has ways, for any associativity.
THEOREM SetsFit == Spec => []TypeOK
<1>1. Init => Fit
  <2> SUFFICES ASSUME Init, NEW c \in Caches
               PROVE  Fits(L1Lines(l1[c]), L1Ways) /\ Fits(L2Lines(c), L2Ways)
    BY DEF Fit
  <2>1. L1Lines(l1[c]) = {} /\ L2Lines(c) = {}
    BY DEF Init, L1Lines, L2Lines
  <2> QED
    BY <2>1, FS_EmptySet, CoherenceAssumption DEF Fits
<1>2. Spec => []Fit
  BY <1>1, StepFits, Invariance, PTL DEF Spec
<1>3. Spec => [](protocol \in Protocols)
  <2>1. Init => protocol \in Protocols
    BY DEF Init
  <2>2. protocol \in Protocols /\ [Next]_vars => (protocol \in Protocols)'
    BY DEF Next, vars, ReadL2, ReadMiss, Write
  <2> QED
    BY <2>1, <2>2, PTL DEF Spec
<1>4. IInv /\ Fit /\ protocol \in Protocols => TypeOK
  BY DEF IInv, Typed, Fit, Fits, L1Lines, L2Lines, TypeOK
<1> QED
  BY <1>2, <1>3, <1>4, Invariance, PTL

=============================================================================
