--------------------------- MODULE NodeRegistryProofs ---------------------------
(***************************************************************************)
(* The forms of register_node agree on the entry of a machine, for any     *)
(* number of machines, macs and ports.                                     *)
(*                                                                         *)
(* A mac never changes its entry once it has one, and an entry that has a  *)
(* mac is not erased.  Machines that do not share macs or ports then have  *)
(* their own entries; that each has one needs Separate, a condition on     *)
(* where time stamps come from.                                            *)
(***************************************************************************)
EXTENDS NodeRegistry, WellFoundedInduction, TLAPS

Fields == [addr : Addrs \union {NoAddr}, mac : Macs \union {NoMac},
           id : Ids \union {0}, simtime : Nat]

\* nodes_ and mac_map_
Typed ==
  /\ used \in 0..MaxNodes /\ nodes \subseteq 1..used
  /\ node \in [Entries -> Fields]
  /\ DOMAIN mac_map \subseteq Macs
  /\ \A m \in DOMAIN mac_map : mac_map[m] \in nodes

\* mac_map_ and the macs of the entries agree
Mapping ==
  /\ \A m \in DOMAIN mac_map : node[mac_map[m]].mac # NoMac
  /\ \A e \in nodes : node[e].mac # NoMac =>
       node[e].mac \in DOMAIN mac_map /\ mac_map[node[e].mac] = e
  /\ \A m \in Macs : seen[m] # NoAddr => m \in DOMAIN mac_map

IInv == TypeOK /\ Mapping /\ Located

-----------------------------------------------------------------------------
\* Loops

LEMMA Least ==
  ASSUME NEW T \in SUBSET Nat, T # {}
  PROVE  \E x \in T : \A y \in T : x <= y
<1>1. PICK x \in T : \A y \in T : ~ (<<y, x>> \in OpToRel(<, Nat))
  BY NatLessThanWellFounded, WFMin
<1>2. \A y \in T : ~(y < x)
  BY <1>1 DEF OpToRel
<1> QED
  BY <1>2

LEMMA BeginType ==
  ASSUME NEW u \in 0..MaxNodes, NEW S \in SUBSET (1..u)
  PROVE  Begin(S) \in 0..MaxNodes
<1> USE NodeRegistryAssumption
<1>1. CASE S = {}
  BY <1>1 DEF Begin
<1>2. CASE S # {}
  <2>1. PICK x \in S : \A y \in S : x <= y
    BY <1>2, Least
  <2>2. Min(S) \in S
    BY <2>1 DEF Min
  <2>3. Begin(S) = Min(S)
    BY <1>2 DEF Begin
  <2>4. \A y \in S : y \in 0..MaxNodes
    OBVIOUS
  <2> QED
    BY <2>2, <2>3, <2>4, Zenon
<1> QED
  BY <1>1, <1>2

-----------------------------------------------------------------------------
\* What a step does to the registry: m is mapped to e, whose fields become n.

Changed(m, e, n) ==
  /\ used' \in 0..MaxNodes /\ nodes' \subseteq 1..used'
  /\ e \in nodes' /\ node'[e] = n
  /\ node' \in [Entries -> Fields]
  /\ DOMAIN mac_map' = DOMAIN mac_map \union {m}
  /\ mac_map'[m] = e
  /\ \A x \in DOMAIN mac_map : mac_map'[x] = mac_map[x] /\ mac_map[x] \in nodes'
  /\ \A f \in nodes' \ {e} : f \in nodes /\ node'[f] = node[f]

LEMMA EntryTypes ==
  ASSUME Typed, NEW e \in nodes
  PROVE  e \in Entries /\ node[e] \in Fields
<1>1. used \in Nat /\ used <= MaxNodes /\ MaxNodes \in Nat
  BY NodeRegistryAssumption DEF Typed
<1>2. e \in 1..used
  BY DEF Typed
<1>3. e \in Entries
  BY <1>1, <1>2 DEF Entries
<1> QED
  BY <1>3 DEF Typed

LEMMA NewEntryChanges ==
  ASSUME Typed, NEW m \in Macs, m \notin DOMAIN mac_map, NEW n \in Fields,
         NewEntry(n), mac_map' = Mapped(m, used + 1)
  PROVE  Changed(m, used + 1, n) /\ used + 1 \notin nodes
<1> USE NodeRegistryAssumption DEF Typed
<1>1. used + 1 \in Entries /\ used + 1 \notin nodes /\ used' = used + 1
      /\ nodes' = nodes \union {used + 1}
  BY DEF NewEntry, Entries
<1>2. /\ DOMAIN mac_map' = DOMAIN mac_map \union {m}
      /\ mac_map'[m] = used + 1
      /\ \A x \in DOMAIN mac_map : mac_map'[x] = mac_map[x]
  BY DEF Mapped
<1>3. /\ node' \in [Entries -> Fields] /\ node'[used + 1] = n
      /\ \A f \in nodes : node'[f] = node[f]
  BY <1>1 DEF NewEntry, Entries
<1> QED
  BY <1>1, <1>2, <1>3 DEF Changed, Entries

LEMMA EditChanges ==
  ASSUME Typed, NEW m \in Macs, NEW e \in nodes, NEW n \in Fields,
         m \notin DOMAIN mac_map \/ mac_map[m] = e,
         used' = used, nodes' \subseteq nodes, e \in nodes',
         \A x \in DOMAIN mac_map : mac_map[x] \in nodes',
         node' = [node EXCEPT ![e] = n],
         mac_map' = Mapped(m, e) \/ (mac_map' = mac_map /\ m \in DOMAIN mac_map)
  PROVE  Changed(m, e, n)
<1> USE NodeRegistryAssumption DEF Typed
<1>1. e \in Entries
  BY EntryTypes
<1>2. /\ DOMAIN mac_map' = DOMAIN mac_map \union {m}
      /\ mac_map'[m] = e
      /\ \A x \in DOMAIN mac_map : mac_map'[x] = mac_map[x]
  BY DEF Mapped
<1>3. /\ node' \in [Entries -> Fields] /\ node'[e] = n
      /\ \A f \in nodes \ {e} : node'[f] = node[f]
  BY <1>1 DEF Entries
<1> QED
  BY <1>1, <1>2, <1>3 DEF Changed, Entries

-----------------------------------------------------------------------------
\* A packet with source m at port a

\* What is known of the entry e that the packet's mac leads to.
Packet(m, a, e, n) ==
  /\ n.addr = a /\ n.mac \in Macs
  /\ \/ /\ e \notin nodes
        /\ n.mac = m /\ n.id = 0 /\ n.simtime = 0
     \/ /\ e \in nodes
        /\ n.id \in {0, node[e].id} /\ n.simtime = node[e].simtime
        /\ n.mac = m \/ n.mac = node[e].mac
        /\ node[e].addr = a \/ (m \in DOMAIN mac_map /\ mac_map[m] = e)
  /\ n.mac = m \/ (n.mac \in DOMAIN mac_map /\ mac_map[n.mac] = e)

LEMMA AdoptPortChanges ==
  ASSUME Typed, Mapping, NEW m \in Macs, NEW a \in Addrs, AdoptPort(m, a)
  PROVE  \E e, n : Changed(m, e, n) /\ Packet(m, a, e, n)
<1> USE NodeRegistryAssumption DEF Typed
<1>1. PICK e \in EntriesAt(a) :
        /\ node' = [node EXCEPT ![e].mac = m]
        /\ mac_map' = Mapped(m, e)
  BY DEF AdoptPort
<1>2. e \in nodes /\ node[e].addr = a /\ e \in Entries /\ node[e] \in Fields
  BY EntryTypes DEF EntriesAt
<1> DEFINE n == [node[e] EXCEPT !.mac = m]
<1>3. /\ n \in Fields /\ n.addr = a /\ n.mac = m /\ n.id = node[e].id
      /\ n.simtime = node[e].simtime
  BY <1>2 DEF Fields
<1>4. node' = [node EXCEPT ![e] = n]
  BY <1>1
<1>5. m \notin DOMAIN mac_map /\ used' = used /\ nodes' = nodes
  BY DEF AdoptPort
<1> HIDE DEF n
<1>6. Changed(m, e, n)
  BY <1>1, <1>2, <1>3, <1>4, <1>5, EditChanges
<1>7. Packet(m, a, e, n)
  BY <1>2, <1>3 DEF Packet
<1> QED
  BY <1>6, <1>7

LEMMA NewMacChanges ==
  ASSUME Typed, Mapping, NEW m \in Macs, NEW a \in Addrs, NewMac(m, a)
  PROVE  \E e, n : Changed(m, e, n) /\ Packet(m, a, e, n)
<1> USE NodeRegistryAssumption DEF Typed
<1> DEFINE n == [Blank EXCEPT !.addr = a, !.mac = m]
<1>1. NewEntry(n) /\ mac_map' = Mapped(m, used + 1) /\ m \notin DOMAIN mac_map
  BY DEF NewMac
<1>2. n \in Fields /\ n.mac = m /\ n.addr = a /\ n.id = 0 /\ n.simtime = 0
  BY DEF Fields, Blank
<1> HIDE DEF n
<1>3. Packet(m, a, used + 1, n)
  <2>1. used + 1 \notin nodes
    OBVIOUS
  <2> QED
    BY <1>2, <2>1 DEF Packet
<1> QED
  BY <1>1, <1>2, <1>3, NewEntryChanges

LEMMA SamePortChanges ==
  ASSUME Typed, Mapping, NEW m \in Macs, NEW a \in Addrs, SamePort(m, a)
  PROVE  \E e, n : Changed(m, e, n) /\ Packet(m, a, e, n)
<1> USE NodeRegistryAssumption DEF Typed
<1> DEFINE e == mac_map[m]
<1>1. /\ m \in DOMAIN mac_map /\ node[e].addr = a
      /\ used' = used /\ nodes' = nodes /\ node' = node
      /\ mac_map' = mac_map
  BY DEF SamePort, registry
<1>2. e \in nodes
  BY <1>1
<1>3. node[e] \in Fields
  BY <1>2, EntryTypes
<1>4. Changed(m, e, node[e])
  BY <1>1, <1>2, <1>3 DEF Changed
<1>5. Packet(m, a, e, node[e])
  <2>1. node[e].mac \in Macs /\ node[e].mac \in DOMAIN mac_map
        /\ mac_map[node[e].mac] = e
    BY <1>1, <1>2, <1>3 DEF Mapping
  <2> QED
    BY <1>1, <1>2, <1>3, <2>1 DEF Packet, Fields
<1> QED
  BY <1>4, <1>5

LEMMA SetPortChanges ==
  ASSUME Typed, Mapping, NEW m \in Macs, NEW a \in Addrs, SetPort(m, a)
  PROVE  \E e, n : Changed(m, e, n) /\ Packet(m, a, e, n)
<1> USE NodeRegistryAssumption DEF Typed
<1> DEFINE e == mac_map[m]
           n == [node[e] EXCEPT !.addr = a]
<1>1. /\ m \in DOMAIN mac_map /\ e \in nodes /\ e \in Entries
      /\ node[e] \in Fields
  BY EntryTypes DEF SetPort
<1>2. /\ n \in Fields /\ n.addr = a /\ n.mac = node[e].mac /\ n.id = node[e].id
      /\ n.simtime = node[e].simtime
  BY <1>1 DEF Fields
<1>3. /\ node' = [node EXCEPT ![e] = n] /\ used' = used /\ mac_map' = mac_map
      /\ nodes' = nodes \ {f \in EntriesAt(a) : PortOnly(f)}
  BY DEF SetPort
<1>4. nodes' \subseteq nodes /\ \A x \in DOMAIN mac_map : mac_map[x] \in nodes'
  BY <1>3 DEF PortOnly, Mapping
<1> HIDE DEF n
<1>5. Changed(m, e, n)
  BY <1>1, <1>2, <1>3, <1>4, EditChanges
<1>6. Packet(m, a, e, n)
  BY <1>1, <1>2 DEF Packet, Mapping, Fields
<1> QED
  BY <1>5, <1>6

LEMMA ReplacePortChanges ==
  ASSUME Typed, Mapping, NEW m \in Macs, NEW a \in Addrs, ReplacePort(m, a)
  PROVE  \E e, n : Changed(m, e, n) /\ Packet(m, a, e, n)
<1> USE NodeRegistryAssumption DEF Typed
<1> DEFINE e == mac_map[m]
           n == [node[e] EXCEPT !.addr = a, !.id = 0]
<1>1. /\ m \in DOMAIN mac_map /\ e \in nodes /\ e \in Entries
      /\ node[e] \in Fields
  BY EntryTypes DEF ReplacePort
<1>2. /\ n \in Fields /\ n.addr = a /\ n.mac = node[e].mac /\ n.id = 0
      /\ n.simtime = node[e].simtime
  BY <1>1 DEF Fields
<1>3. /\ node' = [node EXCEPT ![e] = n] /\ used' = used /\ mac_map' = mac_map
      /\ nodes' = nodes
  BY <1>1 DEF ReplacePort
<1> HIDE DEF n
<1>5. Changed(m, e, n)
  BY <1>1, <1>2, <1>3, EditChanges
<1>6. Packet(m, a, e, n)
  BY <1>1, <1>2 DEF Packet, Mapping, Fields
<1> QED
  BY <1>5, <1>6

LEMMA MacChanges ==
  ASSUME Typed, Mapping, NEW m \in Macs, NEW a \in Addrs, RegisterMac(m, a)
  PROVE  \E e, n : Changed(m, e, n) /\ Packet(m, a, e, n)
BY AdoptPortChanges, NewMacChanges, SamePortChanges, SetPortChanges,
   ReplacePortChanges DEF RegisterMac

-----------------------------------------------------------------------------
\* A time stamp t with id i

\* What is known of the entry e that the time stamp is recorded in.
Stamp(i, t, e, n) ==
  /\ n.mac \in Macs
  /\ n.mac = MacBase[i] \/ (n.mac \in DOMAIN mac_map /\ mac_map[n.mac] = e)
  /\ \/ /\ e \notin nodes /\ n.addr = NoAddr /\ n.mac = MacBase[i]
        /\ n.id = i /\ n.simtime = t
     \/ /\ e \in nodes /\ n.addr = node[e].addr
        /\ n.id = IF node[e].id = 0 THEN i ELSE node[e].id
        /\ n.simtime \in {node[e].simtime, t}
        /\ n.mac = node[e].mac \/ (node[e].mac = NoMac /\ n.mac = MacBase[i])
        /\ \/ MacBase[i] \in DOMAIN mac_map /\ mac_map[MacBase[i]] = e
           \/ MacBase[i] \notin DOMAIN mac_map /\ node[e].addr = CtrlPort[i]

LEMMA KnownChanges ==
  ASSUME Typed, Mapping, NEW i \in Ids, NEW t \in Nat, NEW e \in nodes,
         \/ MacBase[i] \in DOMAIN mac_map /\ mac_map[MacBase[i]] = e
         \/ MacBase[i] \notin DOMAIN mac_map /\ node[e].addr = CtrlPort[i],
         Known(i, e, t)
  PROVE  \E n : Changed(n.mac, e, n) /\ Stamp(i, t, e, n)
<1> USE NodeRegistryAssumption DEF Typed
<1> DEFINE n == [node[e] EXCEPT !.id = IF @ = 0 THEN i ELSE @,
                                !.mac = IF node[e].mac = NoMac
                                        THEN MacBase[i] ELSE @,
                                !.simtime = IF t > @ THEN t ELSE @]
<1>1. e \in Entries /\ node[e] \in Fields /\ MacBase[i] \in Macs
  BY EntryTypes
<1>2. /\ n.addr = node[e].addr
      /\ n.id = IF node[e].id = 0 THEN i ELSE node[e].id
      /\ n.mac = IF node[e].mac = NoMac THEN MacBase[i] ELSE node[e].mac
      /\ n.simtime \in {node[e].simtime, t}
  BY <1>1 DEF Fields
<1>3. n \in Fields
  BY <1>1 DEF Fields
<1>4. node' = [node EXCEPT ![e] = n] /\ used' = used /\ nodes' = nodes
  BY <1>1 DEF Known
<1>5. mac_map' = IF node[e].mac = NoMac THEN Mapped(MacBase[i], e) ELSE mac_map
  BY DEF Known
<1> HIDE DEF n
<1>6. n.mac \in Macs
  BY <1>1, <1>2 DEF Fields
<1>7. CASE node[e].mac = NoMac
  <2>1. n.mac = MacBase[i] /\ MacBase[i] \notin DOMAIN mac_map
    BY <1>2, <1>7 DEF Mapping
  <2>2. mac_map' = Mapped(n.mac, e)
    BY <1>5, <1>7, <2>1
  <2>3. Changed(n.mac, e, n)
    BY <1>3, <1>4, <1>6, <2>1, <2>2, EditChanges
  <2>4. Stamp(i, t, e, n)
    BY <1>2, <1>6, <1>7, <2>1 DEF Stamp
  <2> QED
    BY <2>3, <2>4
<1>8. CASE node[e].mac # NoMac
  <2>1. n.mac = node[e].mac /\ n.mac \in DOMAIN mac_map /\ mac_map[n.mac] = e
    BY <1>2, <1>8 DEF Mapping
  <2>2. mac_map' = mac_map
    BY <1>5, <1>8
  <2>3. Changed(n.mac, e, n)
    BY <1>3, <1>4, <1>6, <2>1, <2>2, EditChanges
  <2>4. Stamp(i, t, e, n)
    BY <1>2, <1>6, <2>1 DEF Stamp
  <2> QED
    BY <2>3, <2>4
<1> QED
  BY <1>7, <1>8

LEMMA IdChanges ==
  ASSUME Typed, Mapping, NEW i \in Ids, NEW t \in Nat, RegisterId(i, t)
  PROVE  \E e, n : Changed(n.mac, e, n) /\ Stamp(i, t, e, n)
<1> USE NodeRegistryAssumption DEF Typed
<1>1. CASE MacBase[i] \in DOMAIN mac_map
  BY <1>1, KnownChanges DEF RegisterId
<1>2. CASE MacBase[i] \notin DOMAIN mac_map /\ EntriesAt(CtrlPort[i]) # {}
  <2>1. PICK e \in EntriesAt(CtrlPort[i]) : Known(i, e, t)
    BY <1>2 DEF RegisterId
  <2>2. e \in nodes /\ node[e].addr = CtrlPort[i]
    BY DEF EntriesAt
  <2> QED
    BY <1>2, <2>1, <2>2, KnownChanges
<1>3. CASE MacBase[i] \notin DOMAIN mac_map /\ EntriesAt(CtrlPort[i]) = {}
  <2> DEFINE n == [Blank EXCEPT !.mac = MacBase[i], !.id = i, !.simtime = t]
  <2>1. Unknown(i, t)
    BY <1>3 DEF RegisterId
  <2>2. NewEntry(n) /\ mac_map' = Mapped(MacBase[i], used + 1)
    BY <2>1 DEF Unknown
  <2>3. /\ n \in Fields /\ n.addr = NoAddr /\ n.mac = MacBase[i] /\ n.id = i
        /\ n.simtime = t /\ n.mac \in Macs
    BY DEF Fields, Blank
  <2> HIDE DEF n
  <2>4. Changed(n.mac, used + 1, n) /\ used + 1 \notin nodes
    BY <1>3, <2>2, <2>3, NewEntryChanges
  <2>5. Stamp(i, t, used + 1, n)
    BY <2>3, <2>4 DEF Stamp
  <2> QED
    BY <2>4, <2>5
<1> QED
  BY <1>1, <1>2, <1>3

-----------------------------------------------------------------------------
\* The invariant

\* Whoever registered, nodes_ and mac_map_ agree again.
LEMMA MappingKept ==
  ASSUME Typed, Mapping, NEW m \in Macs, NEW e, NEW n, Changed(m, e, n),
         n.mac \in Macs,
         n.mac = m \/ (n.mac \in DOMAIN mac_map /\ mac_map[n.mac] = e),
         \A x \in Macs : seen'[x] # NoAddr => seen[x] # NoAddr \/ x = m
  PROVE  Typed' /\ Mapping'
<1> USE NodeRegistryAssumption
<1>1. \A x \in DOMAIN mac_map' :
        x = m \/ (x \in DOMAIN mac_map /\ mac_map'[x] = mac_map[x])
  BY DEF Changed
<1>2. Typed'
  <2>1. DOMAIN mac_map' \subseteq Macs
    BY DEF Changed, Typed
  <2>2. \A x \in DOMAIN mac_map' : mac_map'[x] \in nodes'
    BY <1>1 DEF Changed
  <2>3. used' \in 0..MaxNodes /\ nodes' \subseteq 1..used'
        /\ node' \in [Entries -> Fields]
    BY DEF Changed
  <2> QED
    BY <2>1, <2>2, <2>3 DEF Typed, Entries, Fields
<1>3. \A x \in DOMAIN mac_map' : node'[mac_map'[x]].mac # NoMac
  <2> TAKE x \in DOMAIN mac_map'
  <2>1. CASE mac_map'[x] = e
    BY <2>1 DEF Changed
  <2>2. CASE mac_map'[x] # e
    <3>1. x \in DOMAIN mac_map /\ mac_map'[x] = mac_map[x]
      BY <1>1, <2>2 DEF Changed
    <3>2. node'[mac_map[x]] = node[mac_map[x]]
      BY <2>2, <3>1 DEF Changed
    <3> QED
      BY <3>1, <3>2 DEF Mapping
  <2> QED
    BY <2>1, <2>2
<1>4. \A f \in nodes' : node'[f].mac # NoMac =>
        node'[f].mac \in DOMAIN mac_map' /\ mac_map'[node'[f].mac] = f
  <2> TAKE f \in nodes'
  <2>1. CASE f = e
    BY <2>1 DEF Changed
  <2>2. CASE f # e
    <3>1. f \in nodes /\ node'[f] = node[f]
      BY <2>2 DEF Changed
    <3> QED
      BY <3>1 DEF Changed, Mapping
  <2> QED
    BY <2>1, <2>2
<1>5. \A x \in Macs : seen'[x] # NoAddr => x \in DOMAIN mac_map'
  BY DEF Changed, Mapping
<1> QED
  BY <1>2, <1>3, <1>4, <1>5 DEF Mapping

\* A packet
LEMMA PacketKeeps ==
  ASSUME Typed, Mapping, Located, NEW m \in Macs, NEW a \in Addrs,
         seen \in [Macs -> Addrs \union {NoAddr}],
         RegisterMac(m, a), seen' = [seen EXCEPT ![m] = a]
  PROVE  Typed' /\ Mapping' /\ Located'
<1> USE NodeRegistryAssumption
<1>1. PICK e, n : Changed(m, e, n) /\ Packet(m, a, e, n)
  BY MacChanges
<1>2. seen'[m] = a /\ \A x \in Macs \ {m} : seen'[x] = seen[x]
  OBVIOUS
<1>3. Typed' /\ Mapping'
  BY <1>1, <1>2, MappingKept DEF Packet
<1>4. ASSUME NEW x \in DOMAIN mac_map', seen'[x] # NoAddr
      PROVE  \E y \in DOMAIN mac_map' :
               mac_map'[y] = mac_map'[x] /\ seen'[y] = node'[mac_map'[x]].addr
  <2>1. CASE mac_map'[x] = e
    BY <1>1, <1>2, <2>1 DEF Changed, Packet
  <2>2. CASE mac_map'[x] # e
    <3>1. x \in DOMAIN mac_map /\ x # m /\ mac_map'[x] = mac_map[x]
          /\ x \in Macs
      BY <1>1, <2>2 DEF Changed, Typed
    <3>2. PICK y \in DOMAIN mac_map :
            mac_map[y] = mac_map[x] /\ seen[y] = node[mac_map[x]].addr
      BY <1>2, <1>4, <3>1 DEF Located
    <3>3. mac_map'[y] = mac_map[x] /\ y \in DOMAIN mac_map' /\ y # m
          /\ y \in Macs
      BY <1>1, <2>2, <3>1, <3>2 DEF Changed, Typed
    <3>4. node'[mac_map[x]] = node[mac_map[x]]
      BY <1>1, <2>2, <3>1 DEF Changed
    <3> QED
      BY <1>2, <3>1, <3>2, <3>3, <3>4
  <2> QED
    BY <2>1, <2>2
<1>5. Located'
  BY <1>4 DEF Located
<1> QED
  BY <1>3, <1>5

\* A time stamp
LEMMA StampKeeps ==
  ASSUME Typed, Mapping, Located, NEW i \in Ids, NEW t \in Nat,
         RegisterId(i, t), seen' = seen
  PROVE  Typed' /\ Mapping' /\ Located'
<1> USE NodeRegistryAssumption
<1>1. PICK e, n : Changed(n.mac, e, n) /\ Stamp(i, t, e, n)
  BY IdChanges
<1>2. n.mac \in Macs
  BY <1>1 DEF Stamp
<1>3. Typed' /\ Mapping'
  BY <1>1, <1>2, MappingKept
<1>4. ASSUME NEW x \in DOMAIN mac_map', seen'[x] # NoAddr
      PROVE  \E y \in DOMAIN mac_map' :
               mac_map'[y] = mac_map'[x] /\ seen'[y] = node'[mac_map'[x]].addr
  <2>1. x \in DOMAIN mac_map
    BY <1>3, <1>4 DEF Typed, Mapping
  <2>2. mac_map'[x] = mac_map[x] /\ mac_map[x] \in nodes
        /\ mac_map[x] \in nodes'
    BY <1>1, <2>1 DEF Changed, Typed
  <2>3. PICK y \in DOMAIN mac_map :
          mac_map[y] = mac_map[x] /\ seen[y] = node[mac_map[x]].addr
    BY <1>4, <2>1 DEF Located
  <2>4. mac_map'[y] = mac_map[x] /\ y \in DOMAIN mac_map'
    BY <1>1, <2>3 DEF Changed
  <2>5. node'[mac_map[x]].addr = node[mac_map[x]].addr
    <3>1. CASE mac_map[x] = e
      BY <1>1, <2>2, <3>1 DEF Changed, Stamp
    <3>2. CASE mac_map[x] # e
      BY <1>1, <2>2, <3>2 DEF Changed
    <3> QED
      BY <3>1, <3>2
  <2> QED
    BY <2>2, <2>3, <2>4, <2>5
<1>5. Located'
  BY <1>4 DEF Located
<1> QED
  BY <1>3, <1>5

\* A port request makes an entry that no mac leads to.
LEMMA PortKeeps ==
  ASSUME Typed, Mapping, Located, NEW a \in Addrs,
         NewEntry([Blank EXCEPT !.addr = a]),
         mac_map' = mac_map, seen' = seen
  PROVE  Typed' /\ Mapping' /\ Located'
<1> USE NodeRegistryAssumption
<1> DEFINE n == [Blank EXCEPT !.addr = a]
<1>1. n \in Fields /\ n.mac = NoMac
  BY DEF Fields, Blank
<1>2. NewEntry(n)
  OBVIOUS
<1> HIDE DEF n
<1>3. used \in 0..MaxNodes /\ nodes \subseteq 1..used
  BY DEF Typed
<1>4. /\ used' = used + 1 /\ used' \in 0..MaxNodes
      /\ nodes' = nodes \union {used + 1} /\ nodes' \subseteq 1..used'
      /\ used + 1 \in Entries
  BY <1>2, <1>3 DEF NewEntry, Entries
<1>5. /\ node' \in [Entries -> Fields] /\ node'[used + 1] = n
      /\ \A f \in nodes : node'[f] = node[f]
  <2>1. node' = [node EXCEPT ![used + 1] = n] /\ node \in [Entries -> Fields]
    BY <1>2 DEF NewEntry, Typed
  <2>2. used + 1 \notin nodes
    BY <1>3
  <2> QED
    BY <1>1, <1>4, <2>1, <2>2
<1>6. Typed'
  BY <1>4, <1>5 DEF Typed, Entries, Fields
<1>7. Mapping'
  BY <1>1, <1>4, <1>5 DEF Mapping, Typed
<1>8. Located'
  BY <1>5 DEF Located, Typed
<1> QED
  BY <1>6, <1>7, <1>8

\* start_nodes erases entries that no mac leads to.
LEMMA StartKeeps ==
  ASSUME Typed, Mapping, Located, NEW k,
         nodes' = {e \in nodes : ~(Obsolete(e) /\ e <= k)},
         used' = used, node' = node, mac_map' = mac_map, seen' = seen
  PROVE  Typed' /\ Mapping' /\ Located'
<1>1. \A m \in DOMAIN mac_map : mac_map[m] \in nodes'
  BY DEF Obsolete, PortOnly, Mapping, Typed
<1>2. Typed'
  BY <1>1 DEF Typed, Entries, Fields
<1>3. Mapping' /\ Located'
  BY DEF Mapping, Located
<1> QED
  BY <1>2, <1>3

-----------------------------------------------------------------------------
\* The invariant holds

LEMMA Start == Init => IInv
<1> USE NodeRegistryAssumption
<1> SUFFICES ASSUME Init PROVE IInv
  OBVIOUS
<1>1. DOMAIN mac_map = {}
  BY DEF Init
<1>2. Blank \in Fields
  BY DEF Blank, Fields
<1>3. TypeOK
  BY <1>1, <1>2 DEF Init, TypeOK, Fields, Entries, Threads
<1>4. Mapping /\ Located
  BY <1>1 DEF Init, Mapping, Located
<1> QED
  BY <1>3, <1>4 DEF IInv

LEMMA TypeParts ==
  TypeOK <=> /\ Typed
             /\ iter \in [Threads -> 0..MaxNodes]
             /\ reported \in [Ids -> Nat]
             /\ seen \in [Macs -> Addrs \union {NoAddr}]
BY DEF TypeOK, Typed, Fields

\* A loop may start in any set of entries.
LEMMA LoopType ==
  ASSUME Typed, iter \in [Threads -> 0..MaxNodes], NEW t \in Threads,
         NEW S \in SUBSET nodes, iter' = [iter EXCEPT ![t] = Begin(S)]
  PROVE  iter' \in [Threads -> 0..MaxNodes]
<1>1. used \in 0..MaxNodes /\ S \in SUBSET (1..used)
  BY DEF Typed
<1>2. Begin(S) \in 0..MaxNodes
  BY <1>1, BeginType
<1> QED
  BY <1>2

LEMMA Steps ==
  ASSUME IInv, [Next]_vars PROVE IInv'
<1> USE NodeRegistryAssumption
<1>1. /\ Typed /\ Mapping /\ Located
      /\ iter \in [Threads -> 0..MaxNodes]
      /\ reported \in [Ids -> Nat]
      /\ seen \in [Macs -> Addrs \union {NoAddr}]
  BY TypeParts DEF IInv
<1>2. SUFFICES /\ Typed' /\ Mapping' /\ Located'
               /\ iter' \in [Threads -> 0..MaxNodes]
               /\ reported' \in [Ids -> Nat]
               /\ seen' \in [Macs -> Addrs \union {NoAddr}]
  BY DEF IInv, TypeOK, Typed, Fields
<1>3. ASSUME NEW i \in Ids, NEW m \in Macs, NEW a \in Addrs, Unicast(i, m, a)
      PROVE  <1>2!1
  BY <1>1, <1>3, PacketKeeps DEF Unicast
<1>4. ASSUME NEW i \in Ids, NEW m \in Macs, NEW a \in Addrs, Broadcast(i, m, a)
      PROVE  <1>2!1
  <2>1. Typed' /\ Mapping' /\ Located'
    BY <1>1, <1>4, PacketKeeps DEF Broadcast
  <2>2. used' \in 0..MaxNodes /\ nodes' \subseteq 1..used'
    BY <2>1 DEF Typed
  <2>3. Begin(nodes') \in 0..MaxNodes
    BY ONLY <2>2, BeginType
  <2> QED
    BY <1>1, <1>4, <2>1, <2>3 DEF Broadcast
<1>5. ASSUME NEW i \in Ids, NEW a \in Addrs, PortRequest(i, a)
      PROVE  <1>2!1
  BY <1>1, <1>5, PortKeeps DEF PortRequest
<1>6. ASSUME NEW i \in Ids, NEW t \in 0..MaxTime, TimeStamp(i, t)
      PROVE  <1>2!1
  <2>1. Typed' /\ Mapping' /\ Located'
    BY <1>1, <1>6, StampKeeps DEF TimeStamp
  <2>2. used' \in 0..MaxNodes /\ nodes' \subseteq 1..used'
    BY <2>1 DEF Typed
  <2>3. Begin(nodes') \in 0..MaxNodes
    BY ONLY <2>2, BeginType
  <2>4. iter' \in [Threads -> 0..MaxNodes]
    BY <1>1, <1>6, <2>3 DEF TimeStamp
  <2>5. reported' \in [Ids -> Nat] /\ seen' = seen
    BY <1>1, <1>6 DEF TimeStamp
  <2> QED
    BY <1>1, <2>1, <2>4, <2>5
<1>7. ASSUME NEW t \in Threads, Advance(t)
      PROVE  <1>2!1
  <2>1. UNCHANGED <<registry, reported, seen>>
    BY <1>7 DEF Advance
  <2>2. iter' \in [Threads -> 0..MaxNodes]
    BY <1>1, <1>7, LoopType DEF Advance
  <2> QED
    BY <1>1, <2>1, <2>2 DEF registry, Typed, Mapping, Located, Entries, Fields
<1>8. ASSUME NEW t \in Threads, Stray(t)
      PROVE  <1>2!1
  <2>1. UNCHANGED <<registry, reported, seen>>
    BY <1>8 DEF Stray
  <2>2. \A e \in nodes \union {0} : e \in 0..MaxNodes
    BY <1>1 DEF Typed
  <2>3. iter' \in [Threads -> 0..MaxNodes]
    BY <1>1, <1>8, <2>2 DEF Stray
  <2> QED
    BY <1>1, <2>1, <2>3 DEF registry, Typed, Mapping, Located, Entries, Fields
<1>9. ASSUME NEW k \in 0..MaxNodes, StartNodes(k)
      PROVE  <1>2!1
  <2>1. Typed' /\ Mapping' /\ Located'
    BY <1>1, <1>9, StartKeeps DEF StartNodes
  <2>2. iter' = [iter EXCEPT !["ctrl"] = 0] /\ 0 \in 0..MaxNodes
    BY <1>9 DEF StartNodes
  <2>3. iter' \in [Threads -> 0..MaxNodes]
    BY <1>1, <2>2
  <2>4. reported' = reported /\ seen' = seen
    BY <1>9 DEF StartNodes
  <2> QED
    BY <1>1, <2>1, <2>3, <2>4
<1>10. CASE UNCHANGED vars
  BY <1>1, <1>10 DEF vars, registry, Typed, Mapping, Located, Entries, Fields
<1> QED
  BY <1>3, <1>4, <1>5, <1>6, <1>7, <1>8, <1>9, <1>10 DEF Next

\* The types, and the two directions of mac_map_, hold whatever the machines
\* send.
THEOREM Invariance == Spec => []IInv
<1>1. Init => IInv
  BY Start
<1>2. IInv /\ [Next]_vars => IInv'
  BY Steps
<1> QED
  BY <1>1, <1>2, PTL DEF Spec

\* A unicast goes to a port where a mac of its entry was last seen.
THEOREM UnicastsAreLocated == Spec => []Located
<1>1. IInv => Located
  BY DEF IInv
<1> QED
  BY <1>1, Invariance, PTL

-----------------------------------------------------------------------------
\* Separate machines

MacsFrom(i)  == MacsOf[i] \union {MacBase[i]}
PortsFrom(i) == DataPorts[i] \union {CtrlPort[i]}

\* All that is known of entry e comes from machine i.
Owns(i, e) ==
  /\ node[e].addr \in {NoAddr} \union DataPorts[i]
  /\ node[e].mac \in {NoMac} \union MacsFrom(i)
  /\ node[e].id \in {0, i} /\ node[e].simtime <= reported[i]
  /\ \A m \in DOMAIN mac_map : mac_map[m] = e => m \in MacsFrom(i)

\* The mac that the entry's id implies leads to it.
FoundById(e) ==
  node[e].id # 0 => /\ MacBase[node[e].id] \in DOMAIN mac_map
                    /\ mac_map[MacBase[node[e].id]] = e

Attributed == \A e \in nodes : (\E i \in Ids : Owns(i, e)) /\ FoundById(e)

LEMMA SameMachine ==
  ASSUME Separate, NEW i \in Ids, NEW j \in Ids,
         \/ \E m : m \in MacsFrom(i) /\ m \in MacsFrom(j)
         \/ \E a : a \in PortsFrom(i) /\ a \in PortsFrom(j)
  PROVE  i = j
BY DEF Separate, MacsFrom, PortsFrom

\* The entries that do not change keep their machine.
LEMMA OthersKeep ==
  ASSUME Typed, Attributed, NEW m, NEW e, NEW n, Changed(m, e, n),
         reported \in [Ids -> Nat], reported' \in [Ids -> Nat],
         \A i \in Ids : reported[i] <= reported'[i],
         NEW f \in nodes', f # e
  PROVE  (\E i \in Ids : Owns(i, f)') /\ FoundById(f)'
<1>1. f \in nodes /\ node'[f] = node[f] /\ node[f] \in Fields
  BY EntryTypes DEF Changed
<1>2. PICK i \in Ids : Owns(i, f)
  BY <1>1 DEF Attributed
<1>3. \A x \in DOMAIN mac_map' : mac_map'[x] = f =>
        x \in DOMAIN mac_map /\ mac_map[x] = f
  BY DEF Changed
<1>4. node[f].simtime <= reported'[i]
  BY <1>1, <1>2 DEF Owns, Fields
<1>5. Owns(i, f)'
  BY <1>1, <1>2, <1>3, <1>4 DEF Owns, MacsFrom
<1>6. FoundById(f)'
  BY <1>1 DEF FoundById, Changed, Attributed
<1> QED
  BY <1>5, <1>6

\* A packet
LEMMA PacketAttributed ==
  ASSUME Separate, Typed, Mapping, Attributed,
         reported \in [Ids -> Nat], reported' = reported,
         NEW i \in Ids, NEW m \in MacsOf[i], NEW a \in DataPorts[i],
         RegisterMac(m, a)
  PROVE  Attributed'
<1> USE NodeRegistryAssumption
<1>1. m \in Macs /\ a \in Addrs
  OBVIOUS
<1>2. PICK e, n : Changed(m, e, n) /\ Packet(m, a, e, n)
  BY <1>1, MacChanges
<1>3. \A k \in Ids : reported[k] \in Nat /\ reported[k] <= reported'[k]
  OBVIOUS
<1>4. \A x \in DOMAIN mac_map' : mac_map'[x] = e =>
        x = m \/ (x \in DOMAIN mac_map /\ mac_map[x] = e)
  BY <1>2 DEF Changed
<1>5. CASE e \notin nodes
  <2>1. n.addr = a /\ n.mac = m /\ n.id = 0 /\ n.simtime = 0 /\ node'[e] = n
    BY <1>2, <1>5 DEF Packet, Changed
  <2>2. \A x \in DOMAIN mac_map : mac_map[x] # e
    BY <1>5 DEF Typed
  <2>3. Owns(i, e)'
    BY <1>3, <1>4, <2>1, <2>2 DEF Owns, MacsFrom
  <2>4. FoundById(e)'
    BY <2>1 DEF FoundById
  <2> QED
    BY <1>2, <1>3, <2>3, <2>4, OthersKeep DEF Attributed
<1>6. CASE e \in nodes
  <2>1. /\ n.addr = a /\ n.id \in {0, node[e].id} /\ node'[e] = n
        /\ n.simtime = node[e].simtime /\ n.mac \in {m, node[e].mac}
        /\ node[e].addr = a \/ (m \in DOMAIN mac_map /\ mac_map[m] = e)
    BY <1>2, <1>6 DEF Packet, Changed
  <2>2. PICK j \in Ids : Owns(j, e)
    BY <1>6 DEF Attributed
  <2>3. i = j
    <3>1. CASE node[e].addr = a
      <4>1. a \in PortsFrom(i) /\ a \in PortsFrom(j)
        BY <1>1, <2>2, <3>1 DEF Owns, PortsFrom
      <4> QED
        BY <4>1, SameMachine
    <3>2. CASE m \in DOMAIN mac_map /\ mac_map[m] = e
      <4>1. m \in MacsFrom(i) /\ m \in MacsFrom(j)
        BY <2>2, <3>2 DEF Owns, MacsFrom
      <4> QED
        BY <4>1, SameMachine
    <3> QED
      BY <2>1, <3>1, <3>2
  <2>4. Owns(i, e)'
    BY <1>3, <1>4, <2>1, <2>2, <2>3 DEF Owns, MacsFrom
  <2>5. FoundById(e)'
    <3>1. FoundById(e)
      BY <1>6 DEF Attributed
    <3> QED
      BY <1>2, <2>1, <3>1 DEF FoundById, Changed
  <2> QED
    BY <1>2, <1>3, <2>4, <2>5, OthersKeep DEF Attributed
<1> QED
  BY <1>5, <1>6

\* A time stamp
LEMMA StampAttributed ==
  ASSUME Separate, Typed, Mapping, Attributed,
         reported \in [Ids -> Nat],
         NEW i \in Ids, NEW t \in Nat, RegisterId(i, t),
         reported' = [reported EXCEPT ![i] = IF t > @ THEN t ELSE @]
  PROVE  Attributed'
<1> USE NodeRegistryAssumption
<1>1. PICK e, n : Changed(n.mac, e, n) /\ Stamp(i, t, e, n)
  BY IdChanges
<1>2. /\ reported' \in [Ids -> Nat] /\ t <= reported'[i]
      /\ \A k \in Ids : reported[k] <= reported'[k]
  OBVIOUS
<1>3. \A x \in DOMAIN mac_map' : mac_map'[x] = e =>
        x = n.mac \/ (x \in DOMAIN mac_map /\ mac_map[x] = e)
  BY <1>1 DEF Changed
<1>4. MacBase[i] \in MacsFrom(i) /\ CtrlPort[i] \in PortsFrom(i)
      /\ MacBase[i] \in Macs /\ CtrlPort[i] \in Addrs
  BY DEF MacsFrom, PortsFrom
<1>5. CASE e \notin nodes
  <2>1. /\ n.addr = NoAddr /\ n.mac = MacBase[i] /\ n.id = i
        /\ n.simtime = t /\ node'[e] = n
    BY <1>1, <1>5 DEF Stamp, Changed
  <2>2. \A x \in DOMAIN mac_map : mac_map[x] # e
    BY <1>5 DEF Typed
  <2>3. Owns(i, e)'
    BY <1>2, <1>3, <1>4, <2>1, <2>2 DEF Owns, MacsFrom
  <2>4. FoundById(e)'
    BY <1>1, <2>1 DEF FoundById, Changed
  <2> QED
    BY <1>1, <1>2, <2>3, <2>4, OthersKeep DEF Attributed
<1>6. CASE e \in nodes
  <2>1. /\ n.addr = node[e].addr /\ node'[e] = n
        /\ n.id = IF node[e].id = 0 THEN i ELSE node[e].id
        /\ n.simtime \in {node[e].simtime, t}
        /\ n.mac = node[e].mac \/ (node[e].mac = NoMac /\ n.mac = MacBase[i])
        /\ \/ MacBase[i] \in DOMAIN mac_map /\ mac_map[MacBase[i]] = e
           \/ MacBase[i] \notin DOMAIN mac_map /\ node[e].addr = CtrlPort[i]
        /\ n.mac \in Macs
    BY <1>1, <1>6 DEF Stamp, Changed
  <2>2. PICK j \in Ids : Owns(j, e)
    BY <1>6 DEF Attributed
  <2>3. i = j
    <3>1. CASE MacBase[i] \in DOMAIN mac_map /\ mac_map[MacBase[i]] = e
      BY <1>4, <2>2, <3>1, SameMachine DEF Owns
    <3>2. CASE node[e].addr = CtrlPort[i]
      <4>1. CtrlPort[i] \in PortsFrom(j)
        BY <1>4, <2>2, <3>2 DEF Owns, PortsFrom
      <4> QED
        BY <1>4, <4>1, SameMachine
    <3> QED
      BY <2>1, <3>1, <3>2
  <2>4. node[e] \in Fields
    BY <1>6, EntryTypes
  <2>5. Owns(i, e)'
    <3>1. n.mac \in MacsFrom(i)
      BY <1>4, <2>1, <2>2, <2>3 DEF Owns
    <3>2. node'[e].simtime <= reported'[i]
      BY <1>2, <2>1, <2>2, <2>3, <2>4 DEF Owns, Fields
    <3>3. \A x \in DOMAIN mac_map' : mac_map'[x] = e => x \in MacsFrom(i)
      BY <1>3, <2>2, <2>3, <3>1 DEF Owns
    <3> QED
      BY <2>1, <2>2, <2>3, <3>1, <3>2, <3>3 DEF Owns, MacsFrom
  <2>6. FoundById(e)'
    <3>1. FoundById(e)
      BY <1>6 DEF Attributed
    <3>2. CASE node[e].id # 0
      BY <1>1, <2>1, <3>1, <3>2 DEF FoundById, Changed
    <3>3. CASE node[e].id = 0 /\ MacBase[i] \in DOMAIN mac_map
      BY <1>1, <2>1, <3>3 DEF FoundById, Changed
    <3>4. CASE node[e].id = 0 /\ MacBase[i] \notin DOMAIN mac_map
      <4>1. CtrlPort[i] \in DataPorts[i]
        BY <1>4, <2>1, <2>2, <2>3, <3>4 DEF Owns
      <4>2. MacsFrom(i) = {MacBase[i]}
        BY <4>1 DEF Separate, MacsFrom
      <4>3. n.mac = MacBase[i]
        BY <2>1, <2>2, <2>3, <4>2 DEF Owns
      <4> QED
        BY <1>1, <2>1, <3>4, <4>3 DEF FoundById, Changed
    <3> QED
      BY <3>2, <3>3, <3>4
  <2> QED
    BY <1>1, <1>2, <2>5, <2>6, OthersKeep DEF Attributed
<1> QED
  BY <1>5, <1>6

\* A port request
LEMMA PortAttributed ==
  ASSUME Typed, Attributed, reported \in [Ids -> Nat],
         NEW i \in Ids, NEW a \in DataPorts[i],
         NewEntry([Blank EXCEPT !.addr = a]),
         mac_map' = mac_map, reported' = reported
  PROVE  Attributed'
<1> USE NodeRegistryAssumption
<1> DEFINE n == [Blank EXCEPT !.addr = a]
<1>1. n.addr = a /\ n.mac = NoMac /\ n.id = 0 /\ n.simtime = 0
  BY DEF Blank
<1>2. NewEntry(n)
  OBVIOUS
<1> HIDE DEF n
<1> PICK e : e = used + 1
  OBVIOUS
<1>3. e \notin nodes /\ e \in Entries /\ nodes' = nodes \union {e}
  BY <1>2 DEF NewEntry, Typed, Entries
<1>4. node'[e] = n /\ \A f \in nodes : node'[f] = node[f]
  BY <1>2, <1>3 DEF NewEntry, Typed
<1>5. Owns(i, e)' /\ FoundById(e)'
  BY <1>1, <1>3, <1>4 DEF Owns, FoundById, Typed
<1>6. ASSUME NEW f \in nodes
      PROVE  (\E j \in Ids : Owns(j, f)') /\ FoundById(f)'
  BY <1>4 DEF Attributed, Owns, FoundById, MacsFrom
<1> QED
  BY <1>3, <1>5, <1>6 DEF Attributed

LEMMA AttributedKept ==
  ASSUME Separate, IInv, Attributed, [Next]_vars PROVE Attributed'
<1> USE NodeRegistryAssumption
<1>1. /\ Typed /\ Mapping /\ reported \in [Ids -> Nat]
  BY TypeParts DEF IInv
<1>2. ASSUME NEW i \in Ids, NEW m \in Macs, NEW a \in Addrs,
             Unicast(i, m, a) \/ Broadcast(i, m, a)
      PROVE  Attributed'
  BY <1>1, <1>2, PacketAttributed DEF Unicast, Broadcast
<1>3. ASSUME NEW i \in Ids, NEW a \in Addrs, PortRequest(i, a)
      PROVE  Attributed'
  BY <1>1, <1>3, PortAttributed DEF PortRequest
<1>4. ASSUME NEW i \in Ids, NEW t \in 0..MaxTime, TimeStamp(i, t)
      PROVE  Attributed'
  <2>1. t \in Nat
    OBVIOUS
  <2> QED
    BY <1>1, <1>4, <2>1, StampAttributed DEF TimeStamp
<1>5. ASSUME nodes' \subseteq nodes, node' = node, mac_map' = mac_map,
             reported' = reported
      PROVE  Attributed'
  BY <1>5 DEF Attributed, Owns, FoundById, MacsFrom
<1>6. ASSUME NEW t \in Threads, Advance(t) \/ Stray(t)
      PROVE  Attributed'
  BY <1>5, <1>6 DEF Advance, Stray, registry
<1>7. ASSUME NEW k \in 0..MaxNodes, StartNodes(k)
      PROVE  Attributed'
  BY <1>5, <1>7 DEF StartNodes
<1>8. CASE UNCHANGED vars
  BY <1>5, <1>8 DEF vars, registry
<1> QED
  BY <1>2, <1>3, <1>4, <1>6, <1>7, <1>8 DEF Next

\* Every entry has the data of one machine, and the mac of its id leads to it.
THEOREM Attribution ==
  ASSUME Separate PROVE Spec => []Attributed
<1>1. Init => Attributed
  BY DEF Init, Attributed
<1>2. IInv /\ Attributed /\ [Next]_vars => Attributed'
  BY AttributedKept
<1> QED
  BY <1>1, <1>2, Invariance, PTL DEF Spec

\* A machine takes part in the barrier with one entry.
THEOREM MachinesHaveOneEntry ==
  ASSUME Separate PROVE Spec => []OneEntry
<1>1. ASSUME IInv, Attributed PROVE OneEntry
  <2>1. ASSUME NEW e \in nodes, NEW f \in nodes, SyncValid(e), SyncValid(f),
               node[e].id = node[f].id
        PROVE  e = f
    BY <1>1, <2>1 DEF Attributed, FoundById, SyncValid
  <2> QED
    BY <1>1, <2>1 DEF OneEntry, IInv
<1> QED
  BY <1>1, Invariance, Attribution, PTL

\* The time of an entry was reported by the machine with its id.
THEOREM StampsAreOwn ==
  ASSUME Separate PROVE Spec => []OwnStamps
<1>1. ASSUME Attributed PROVE OwnStamps
  BY <1>1 DEF Attributed, Owns, OwnStamps, SyncValid
<1> QED
  BY <1>1, Attribution, PTL

=============================================================================
