---------------------------- MODULE NodeRegistry ----------------------------
(***************************************************************************)
(* The mediator's registry of nodes (network/switch.cpp, node.cpp).        *)
(*                                                                         *)
(* A machine is met three ways: its emulator asks for the data port, its   *)
(* network card sends packets with a mac, and abaeterno sends time stamps  *)
(* with an id.  register_node has a form for each, and they have to agree  *)
(* on the entry that stands for the machine.  nodes_ is what broadcasts    *)
(* and barriers go over, mac_map_ is what unicasts and time stamps look    *)
(* up.  The data thread and the control thread both use the registry.      *)
(***************************************************************************)
EXTENDS Naturals, FiniteSets, Functions, FiniteSetsExt

CONSTANTS
  Ids,        \* node ids, one for each machine; 0 is no id
  Macs, NoMac,\* mac addresses
  MacBase,    \* MacBase[i]: mac_base_ + i
  MacsOf,     \* MacsOf[i]: source addresses in the packets of machine i
  Addrs, NoAddr,
  DataPorts,  \* DataPorts[i]: the sockets machine i sends packets from
  CtrlPort,   \* CtrlPort[i]: the socket its time stamps come from
  MaxNodes,   \* bound of the model: entries ever made
  MaxTime     \* bound of the model: time stamps of a machine

ASSUME NodeRegistryAssumption ==
  /\ Ids \subseteq Nat \ {0}
  /\ NoMac \notin Macs /\ NoAddr \notin Addrs
  /\ MacBase \in [Ids -> Macs]
  /\ MacsOf \in [Ids -> SUBSET Macs]
  /\ DataPorts \in [Ids -> SUBSET Addrs]
  /\ CtrlPort \in [Ids -> Addrs]
  /\ MaxNodes \in Nat /\ MaxTime \in Nat

Entries == 1..MaxNodes

VARIABLES
  used,       \* entries made so far: 1..used
  nodes,      \* nodes_
  node,       \* the fields of every entry
  mac_map,    \* mac_map_
  iter,       \* where each thread is in a loop over nodes_; 0 is nowhere
  reported,   \* latest time stamp each machine has sent
  seen        \* where the last packet with each source mac came from

registry == <<used, nodes, node, mac_map>>
vars     == <<registry, iter, reported, seen>>

Threads == {"data", "ctrl"}

\* Node(): no address, no mac, no id
Blank == [addr |-> NoAddr, mac |-> NoMac, id |-> 0, simtime |-> 0]

Init ==
  /\ used = 0 /\ nodes = {}
  /\ node = [e \in Entries |-> Blank]
  /\ mac_map = <<>>
  /\ iter = [t \in Threads |-> 0]
  /\ reported = [i \in Ids |-> 0]
  /\ seen = [m \in Macs |-> NoAddr]

-----------------------------------------------------------------------------
\* Look-ups

\* Mutant: an entry without an address matches every address.
EntriesAt_AnyAddr(a) == {e \in nodes : node[e].addr \in {a, NoAddr}}

\* find_node(address): the first entry with that address, in an order that
\* says nothing
EntriesAt(a) == {e \in nodes : node[e].addr = a}

\* the port-only entries: neither mac nor id
PortOnly(e) == node[e].mac = NoMac /\ node[e].id = 0

\* Map m to entry e.
Mapped(m, e) == [x \in DOMAIN mac_map \union {m} |->
                   IF x = m THEN e ELSE mac_map[x]]

\* Make a new entry with these fields.
NewEntry(fields) ==
  /\ used < MaxNodes
  /\ used' = used + 1
  /\ nodes' = nodes \union {used + 1}
  /\ node' = [node EXCEPT ![used + 1] = fields]

-----------------------------------------------------------------------------
\* register_node(mac, address): a packet came with this source

\* the mac is new, but not the port: the entry changes its mac
AdoptPort(m, a) ==
  /\ m \notin DOMAIN mac_map
  /\ \E e \in EntriesAt(a) :
       /\ node' = [node EXCEPT ![e].mac = m]
       /\ mac_map' = Mapped(m, e)
  /\ UNCHANGED <<used, nodes>>

NewMac(m, a) ==
  /\ m \notin DOMAIN mac_map
  /\ EntriesAt(a) = {}
  /\ NewEntry([Blank EXCEPT !.addr = a, !.mac = m])
  /\ mac_map' = Mapped(m, used + 1)

SamePort(m, a) ==
  /\ m \in DOMAIN mac_map
  /\ node[mac_map[m]].addr = a
  /\ UNCHANGED registry

\* an entry that a time stamp made gets its port; erase_dup_nodes
SetPort(m, a) ==
  /\ m \in DOMAIN mac_map
  /\ node[mac_map[m]].addr = NoAddr
  /\ node' = [node EXCEPT ![mac_map[m]].addr = a]
  /\ nodes' = nodes \ {e \in EntriesAt(a) : PortOnly(e)}
  /\ UNCHANGED <<used, mac_map>>

\* Mutant: the entry loses its id and keeps the old port.
ReplacePort_Kept(m, a) ==
  /\ m \in DOMAIN mac_map
  /\ node[mac_map[m]].addr \notin {a, NoAddr}
  /\ node' = [node EXCEPT ![mac_map[m]].id = 0]
  /\ UNCHANGED <<used, nodes, mac_map>>

\* the mac was at another port
ReplacePort(m, a) ==
  /\ m \in DOMAIN mac_map
  /\ node[mac_map[m]].addr \notin {a, NoAddr}
  /\ node' = [node EXCEPT ![mac_map[m]].addr = a, ![mac_map[m]].id = 0]
  /\ UNCHANGED <<used, nodes, mac_map>>

RegisterMac(m, a) ==
  \/ AdoptPort(m, a) \/ NewMac(m, a)
  \/ SamePort(m, a) \/ SetPort(m, a) \/ ReplacePort(m, a)

\* where a loop over nodes_ starts
Begin(S) == IF S = {} THEN 0 ELSE Min(S)

\* process_packet on the data thread: unicast
Unicast(i, m, a) ==
  /\ iter["data"] = 0
  /\ m \in MacsOf[i] /\ a \in DataPorts[i]
  /\ RegisterMac(m, a)
  /\ seen' = [seen EXCEPT ![m] = a]
  /\ UNCHANGED <<iter, reported>>

\* process_packet: broadcast goes over nodes_ without the lock
Broadcast(i, m, a) ==
  /\ iter["data"] = 0
  /\ m \in MacsOf[i] /\ a \in DataPorts[i]
  /\ RegisterMac(m, a)
  /\ seen' = [seen EXCEPT ![m] = a]
  /\ iter' = [iter EXCEPT !["data"] = Begin(nodes')]
  /\ UNCHANGED reported

-----------------------------------------------------------------------------
\* register_node(address): PortRequestMsg, an entry with a port only
PortRequest(i, a) ==
  /\ iter["ctrl"] = 0
  /\ a \in DataPorts[i]
  /\ NewEntry([Blank EXCEPT !.addr = a])
  /\ UNCHANGED <<mac_map, iter, reported, seen>>

\* register_node(id, address) and setSimtime of the entry it returns
Known(i, e, t) ==
  LET new == node[e].mac = NoMac IN
  /\ node' = [node EXCEPT
       ![e].id = IF @ = 0 THEN i ELSE @,
       ![e].mac = IF new THEN MacBase[i] ELSE @,
       ![e].simtime = IF t > @ THEN t ELSE @]
  /\ mac_map' = IF new THEN Mapped(MacBase[i], e) ELSE mac_map
  /\ UNCHANGED <<used, nodes>>

\* Mutant: a new entry is put into nodes_ only.
Unknown_Unmapped(i, t) ==
  /\ NewEntry([Blank EXCEPT !.mac = MacBase[i], !.id = i, !.simtime = t])
  /\ UNCHANGED mac_map

Unknown(i, t) ==
  /\ NewEntry([Blank EXCEPT !.mac = MacBase[i], !.id = i, !.simtime = t])
  /\ mac_map' = Mapped(MacBase[i], used + 1)

RegisterId(i, t) ==
  IF MacBase[i] \in DOMAIN mac_map THEN Known(i, mac_map[MacBase[i]], t)
  ELSE IF EntriesAt(CtrlPort[i]) # {}
       THEN \E e \in EntriesAt(CtrlPort[i]) : Known(i, e, t)
       ELSE Unknown(i, t)

\* process_timing_message, then simtime_advance goes over nodes_
TimeStamp(i, t) ==
  /\ iter["ctrl"] = 0
  /\ t <= reported[i] + 1
  /\ RegisterId(i, t)
  /\ reported' = [reported EXCEPT ![i] = IF t > @ THEN t ELSE @]
  /\ iter' = [iter EXCEPT !["ctrl"] = Begin(nodes')]
  /\ UNCHANGED seen

-----------------------------------------------------------------------------
\* Loops over nodes_

\* ++i; behind an iterator to an erased entry there may be anything
Advance(t) ==
  /\ iter[t] # 0
  /\ iter' = [iter EXCEPT ![t] = Begin({e \in nodes : e > iter[t]})]
  /\ UNCHANGED <<registry, reported, seen>>

Stray(t) ==
  /\ iter[t] \notin nodes \union {0}
  /\ \E e \in nodes \union {0} : iter' = [iter EXCEPT ![t] = e]
  /\ UNCHANGED <<registry, reported, seen>>

\* Node::obsolete, but for its age
Obsolete(e) == PortOnly(e)

\* start_nodes, when the barrier opens: entries up to the k-th are old enough
StartNodes(k) ==
  /\ iter["ctrl"] # 0
  /\ nodes' = {e \in nodes : ~(Obsolete(e) /\ e <= k)}
  /\ iter' = [iter EXCEPT !["ctrl"] = 0]
  /\ UNCHANGED <<used, node, mac_map, reported, seen>>

Next ==
  \/ \E i \in Ids, m \in Macs, a \in Addrs :
       Unicast(i, m, a) \/ Broadcast(i, m, a)
  \/ \E i \in Ids, a \in Addrs : PortRequest(i, a)
  \/ \E i \in Ids, t \in 0..MaxTime : TimeStamp(i, t)
  \/ \E t \in Threads : Advance(t) \/ Stray(t)
  \/ \E k \in 0..MaxNodes : StartNodes(k)

Spec == Init /\ [][Next]_vars

-----------------------------------------------------------------------------
\* Properties

\* Types; every mac that is looked up leads to an entry in nodes_, so that
\* what unicasts and time stamps reach, broadcasts and barriers reach too.
\* start_nodes and erase_dup_nodes must not drop such an entry.
TypeOK ==
  /\ used \in 0..MaxNodes /\ nodes \subseteq 1..used
  /\ node \in [Entries -> [addr : Addrs \union {NoAddr},
                           mac : Macs \union {NoMac},
                           id : Ids \union {0}, simtime : Nat]]
  /\ DOMAIN mac_map \subseteq Macs
  /\ \A m \in DOMAIN mac_map : mac_map[m] \in nodes
  /\ iter \in [Threads -> 0..MaxNodes]
  /\ reported \in [Ids -> Nat]
  /\ seen \in [Macs -> Addrs \union {NoAddr}]

\* The machines share neither macs nor ports; time stamps come from a socket
\* of their own, but from a machine that sends with its given mac only.
Separate ==
  /\ \A i, j \in Ids : i # j =>
       /\ (MacsOf[i] \union {MacBase[i]}) \intersect
            (MacsOf[j] \union {MacBase[j]}) = {}
       /\ (DataPorts[i] \union {CtrlPort[i]}) \intersect
            (DataPorts[j] \union {CtrlPort[j]}) = {}
  /\ \A i \in Ids : CtrlPort[i] \in DataPorts[i] => MacsOf[i] \subseteq {MacBase[i]}

SyncValid(e) == e \in nodes /\ node[e].id # 0 /\ node[e].mac # NoMac

\* A machine takes part in the barrier with one entry.  With a second one,
\* whose time nobody moves, simtime_advance would never find the barrier
\* reached.
OneEntry ==
  /\ TypeOK
  /\ \A e, f \in nodes :
    SyncValid(e) /\ SyncValid(f) /\ node[e].id = node[f].id => e = f

\* The time recorded for an id was reported by the machine with that id, in
\* whichever order packets, port requests and time stamps made the entry.
OwnStamps ==
  \A e \in nodes : SyncValid(e) => node[e].simtime <= reported[node[e].id]

\* A unicast goes to where its destination's mac was last seen, or where
\* another mac of the same entry was.
Located ==
  \A m \in DOMAIN mac_map :
    LET e == mac_map[m] IN
    seen[m] # NoAddr =>
      \E x \in DOMAIN mac_map : mac_map[x] = e /\ seen[x] = node[e].addr

\* "lock the nodes" (switch.cpp:153, 223): no thread stands on an entry that
\* another one erases.  Not so: broadcast (switch.cpp:304) takes no lock.
IteratorsValid == \A t \in Threads : iter[t] \in nodes \union {0}

=============================================================================
