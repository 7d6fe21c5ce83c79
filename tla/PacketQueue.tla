---------------------------- MODULE PacketQueue ----------------------------
(***************************************************************************)
(* The data path of the mediator: packets of the simulated NICs, the queue *)
(* that holds them until their simulated arrival, and the adaptive quantum *)
(* (network/switch.cpp, scheduler.cpp).                                    *)
(*                                                                         *)
(* The data thread runs process_packet, the control thread sync_cluster;   *)
(* only the queue has a lock.  That the barrier opens when it should is    *)
(* the subject of ClusterSync: here the nodes reach it sooner or later.    *)
(* Quanta are kept in halves of a microsecond, for lround.                 *)
(***************************************************************************)
EXTENDS Naturals, FiniteSets, Sequences, SequencesExt

CONSTANTS
  Nodes,        \* destinations
  Packets,      \* the packets the nodes send, each once
  NoPacket,     \* the data thread is between packets
  Delays,       \* what TimingModel::get_delay returns, in us
  QMin, QMax,   \* quantum_min and quantum_max, in halves of a us
  QUp, QDown,   \* quantum_up, and the inverse of quantum_down
  ForceQueue,   \* option queue_packets
  Ticks,        \* us that may pass between two reads of the clock
  MaxGT         \* bound of the model: time stops there once the queue is empty

ASSUME PacketQueueAssumption ==
  /\ QMin \in Nat /\ QMin >= 2 /\ QMax \in Nat /\ QMin <= QMax
  /\ QUp \in Nat \ {0} /\ QDown \in Nat \ {0}
  /\ NoPacket \notin Packets
  /\ Delays \subseteq Nat /\ Ticks \subseteq Nat
  /\ ForceQueue \in BOOLEAN
  /\ MaxGT \in Nat

VARIABLES
  gt, nextgt,          \* gt_, nextgt_
  quantum,             \* quantum_
  last_qtime,          \* last_qtime_
  packs,               \* packets since the last compute_quantum
  sync_started,        \* sync_started_
  ctrl,                \* the control thread: its next step, nsent and pqmax
  data,                \* the data thread: its packet, now, nodes to send to
  arrived,             \* packets received so far, with their destinations
  valid,               \* the nodes whose data address is known
  queue,               \* messages_
  clock,               \* Stats::elapsed()
  out,                 \* the messages given to really_send, in order
  lost,                \* those of them that had no address to go to
  refused              \* messages that the queue has not taken

\* what the code does not keep: what has become of the messages
history == <<out, lost, refused>>
vars == <<gt, nextgt, quantum, last_qtime, packs, sync_started, ctrl, data,
          arrived, valid, queue, clock, history>>

Lround(q) == (q + 1) \div 2

Message(p, n, st, rt) == [packet |-> p, node |-> n, simtime |-> st, realtime |-> rt]

Init ==
  /\ gt = 0 /\ nextgt = QMin \div 2
  /\ quantum = QMax
  /\ last_qtime = 0
  /\ packs = 0
  /\ sync_started = FALSE
  /\ ctrl = [pc |-> "idle", nsent |-> 0, pqmax |-> 0]
  /\ data = [packet |-> NoPacket, now |-> 0, to |-> {}]
  /\ arrived = {} /\ valid = {}
  /\ queue = {}
  /\ clock = 0
  /\ out = <<>> /\ lost = {} /\ refused = {}

-----------------------------------------------------------------------------
\* The scheduler

\* Mutant: messages of one simulated time are equal.
Before_Simtime(x, y) == x.simtime > y.simtime

\* PrioritizeMessages: the order of the std::set, its first element first
Before(x, y) ==
  \/ x.simtime > y.simtime
  \/ x.simtime = y.simtime /\ x.realtime > y.realtime

First(msgs) == CHOOSE x \in msgs : \A y \in msgs : ~Before(y, x)

\* the messages as the iterator of the set meets them
Walk(msgs) ==
  CHOOSE s \in SetToSeqs(msgs) :
    \A i, j \in DOMAIN s : i < j => Before(s[i], s[j])

\* schedule: std::set::insert, which takes no second message of equal times
Insert(m) ==
  IF \E x \in queue : ~Before(x, m) /\ ~Before(m, x)
  THEN refused' = refused \union {m} /\ UNCHANGED queue
  ELSE queue' = queue \union {m} /\ UNCHANGED refused

\* really_send, for each message of msgs: it goes out if its node has a data
\* address
ReallySend(msgs) ==
  /\ out' = out \o msgs
  /\ lost' = lost \union {m \in ToSet(msgs) : m.node \notin valid}

\* Mutant: of the messages that are due, only the first goes out.
Release_First ==
  LET due  == {m \in queue : nextgt >= m.simtime}
      rest == queue \ due
  IN /\ ReallySend(IF due = {} THEN <<>> ELSE <<First(due)>>)
     /\ queue' = rest
     /\ ctrl' = [pc |-> "quantum", nsent |-> Cardinality(due),
                 pqmax |-> IF rest = {} THEN 0 ELSE First(rest).simtime - gt]

\* Mutant: the time to the next packet is counted from the barrier.
Release_FromBarrier ==
  LET due  == {m \in queue : nextgt >= m.simtime}
      rest == queue \ due
  IN /\ ReallySend(Walk(due))
     /\ queue' = rest
     /\ ctrl' = [pc |-> "quantum", nsent |-> Cardinality(due),
                 pqmax |-> IF rest = {} THEN 0 ELSE First(rest).simtime - nextgt]

\* send_packets(nextGT()): everything due goes out, in the order of the set;
\* the caller learns how many, and the time of the set's first element.
Release ==
  LET due  == {m \in queue : nextgt >= m.simtime}
      rest == queue \ due
  IN /\ ReallySend(Walk(due))
     /\ queue' = rest
     /\ ctrl' = [pc |-> "quantum", nsent |-> Cardinality(due),
                 pqmax |-> IF rest = {} THEN 0 ELSE First(rest).simtime - gt]

-----------------------------------------------------------------------------
\* The control thread

\* the first TimeStamp starts the synchronisation
StartSync ==
  /\ ~sync_started
  /\ sync_started' = TRUE
  /\ UNCHANGED <<gt, nextgt, quantum, last_qtime, packs, ctrl, data, arrived,
                 valid, queue, clock, history>>

\* sync_cluster: the nodes are at the barrier
SendPackets ==
  /\ sync_started
  /\ ctrl.pc = "idle"
  /\ nextgt < MaxGT \/ queue # {}
  /\ Release
  /\ UNCHANGED <<gt, nextgt, quantum, last_qtime, packs, sync_started, data,
                 arrived, valid, clock, refused>>

\* "Clip for sanity"
Clip(nq, qmax) == IF nq < QMin THEN QMin ELSE IF nq > qmax THEN qmax ELSE nq

\* the quantum shrinks when packets come faster than one per quantum, grows
\* when they are slower or there are none; 0 us for no packet (NaN) is neither
Scaled(duration) ==
  IF 2 * duration < quantum * packs \/ (2 * duration = quantum * packs /\ packs > 0)
  THEN quantum \div QDown
  ELSE IF 2 * duration > quantum * packs THEN quantum * QUp ELSE quantum

ComputeQuantum ==
  /\ ctrl.pc = "quantum"
  /\ quantum' = IF ctrl.nsent > 0 THEN QMin
                ELSE IF QMin = QMax THEN QMax
                ELSE Clip(Scaled(gt - last_qtime),
                          IF ctrl.pqmax > 0 THEN 2 * ctrl.pqmax ELSE QMax)
  /\ last_qtime' = gt
  /\ packs' = 0
  /\ ctrl' = [ctrl EXCEPT !.pc = "advance"]
  /\ UNCHANGED <<gt, nextgt, sync_started, data, arrived, valid, queue, clock,
                 history>>

GT_advance ==
  /\ ctrl.pc = "advance"
  /\ gt' = nextgt
  /\ nextgt' = nextgt + Lround(quantum)
  /\ ctrl' = [pc |-> "idle", nsent |-> 0, pqmax |-> 0]
  /\ UNCHANGED <<quantum, last_qtime, packs, sync_started, data, arrived, valid,
                 queue, clock, history>>

-----------------------------------------------------------------------------
\* The data thread

\* process_packet begins: now is read once; the address of a node that sends is
\* registered, which SLIRP and VDE have none of; a broadcast goes to every node,
\* a keepalive and a packet for an unknown mac to none
Receive(p) ==
  /\ data.packet = NoPacket
  /\ \A a \in arrived : a.packet # p
  /\ \E from \in {{}} \union {{n} : n \in Nodes} : valid' = valid \union from
  /\ \E to \in {{}, Nodes} \union {{n} : n \in Nodes} :
       /\ arrived' = arrived \union {[packet |-> p, to |-> to]}
       /\ data' = [packet |-> p, now |-> gt, to |-> to]
  /\ UNCHANGED <<gt, nextgt, quantum, last_qtime, packs, sync_started, ctrl,
                 queue, clock, history>>

\* send: right away when the delay is below the quantum, unless the packets
\* are to be queued; else through the queue
Send(n) ==
  /\ n \in data.to
  /\ data' = [data EXCEPT !.to = @ \ {n}]
  /\ \E delay \in Delays, tick \in Ticks :
       /\ clock' = clock + tick
       /\ LET m == Message(data.packet, n, data.now + delay, clock')
          IN IF ~sync_started \/ (~ForceQueue /\ delay <= Lround(quantum))
             THEN ReallySend(<<m>>) /\ UNCHANGED <<queue, refused>>
             ELSE Insert(m) /\ UNCHANGED <<out, lost>>
  /\ UNCHANGED <<gt, nextgt, quantum, last_qtime, packs, sync_started, ctrl,
                 arrived, valid>>

\* process_packet ends: the packet is counted
Count ==
  /\ data.packet # NoPacket /\ data.to = {}
  /\ packs' = packs + 1
  /\ data' = [packet |-> NoPacket, now |-> 0, to |-> {}]
  /\ UNCHANGED <<gt, nextgt, quantum, last_qtime, sync_started, ctrl, arrived,
                 valid, queue, clock, history>>

CtrlNext == StartSync \/ SendPackets \/ ComputeQuantum \/ GT_advance
DataNext == Count \/ \E n \in Nodes : Send(n)
Next == CtrlNext \/ DataNext \/ \E p \in Packets : Receive(p)

Spec == Init /\ [][Next]_vars
FairSpec == Spec /\ WF_vars(CtrlNext) /\ WF_vars(DataNext)

-----------------------------------------------------------------------------
\* Properties

\* Types; the queue is a set under PrioritizeMessages.
TypeOK ==
  /\ gt \in Nat /\ nextgt \in Nat /\ gt < nextgt
  /\ quantum \in Nat /\ packs \in Nat /\ clock \in Nat
  /\ last_qtime \in 0..gt
  /\ ctrl \in [pc : {"idle", "quantum", "advance"}, nsent : Nat, pqmax : Nat]
  /\ data \in [packet : Packets \union {NoPacket}, now : Nat, to : SUBSET Nodes]
  /\ \A m, x \in queue : m = x \/ Before(m, x) \/ Before(x, m)

Copies(p, n) ==
  Cardinality({m \in queue : m.packet = p /\ m.node = n})
  + Cardinality({i \in DOMAIN out : out[i].packet = p /\ out[i].node = n})
  + Cardinality({m \in refused : m.packet = p /\ m.node = n})

Twins(x, y) == x.simtime = y.simtime /\ x.realtime = y.realtime

\* What becomes of a packet (Switch::send, Scheduler::schedule, send_packets):
\* it is for each of its destinations in the data thread's hands, queued, given
\* to really_send or refused by the queue, and in one of these places only,
\* once, however the two threads interleave.  "push the message on the queue"
\* (scheduler.cpp:41) does so but for one kind: a refused message has a twin of
\* its very simulated and real microsecond, which is queued or has gone.
Accounted ==
  /\ \A a \in arrived : \A n \in a.to :
       Copies(a.packet, n) = IF data.packet = a.packet /\ n \in data.to THEN 0 ELSE 1
  /\ \A m \in refused : \E x \in queue \union ToSet(out) : Twins(m, x)

\* The quantum never falls below quantum_min, not even when the time to a
\* pending packet limits it (compute_quantum clips to the limit last).
QuantumFloor == TypeOK /\ quantum >= QMin

\* "smaller simtime time and then smaller realtime go first" (scheduler.h:67):
\* the messages that one send_packets releases.  Not so: the comparator is one
\* for a priority_queue, and the set is walked from its beginning.
ReleasedInOrder ==
  [][\A i, j \in (Len(out) + 1)..Len(out') :
       i < j => out'[i].simtime <= out'[j].simtime]_vars

\* Every packet that is queued for a node whose address is known goes out in
\* the end, although release and arrival interleave.
Delivered ==
  \A p \in Packets, n \in Nodes :
    (n \in valid /\ \E m \in queue : m.packet = p /\ m.node = n)
      ~> \E i \in DOMAIN out : /\ out[i].packet = p /\ out[i].node = n
                               /\ out[i] \notin lost

=============================================================================
