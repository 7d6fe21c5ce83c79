---------------------------- MODULE ClusterSync ----------------------------
(***************************************************************************)
(* Synchronisation of a simulated cluster: the mediator's switch           *)
(* (src/src/network: switch, node, control_packet_processor,               *)
(* mediator_server) and the NetworkTiming object of every node's timing    *)
(* plug-in (src/src/abaeterno/main/network_timing.cpp).                    *)
(*                                                                         *)
(* Nodes send TimeStamp datagrams when they reach the global time they     *)
(* know of; the mediator multicasts a new global time when the slowest     *)
(* registered node has arrived.  Both directions are UDP.  One step is one *)
(* handler of one thread; the interleaving inside the mediator's handlers  *)
(* is the subject of MediatorThreads.                                      *)
(***************************************************************************)
EXTENDS Naturals, FiniteSets

CONSTANTS
  Nodes,         \* the nodes, named by their mediator_nodeid
  QMin,          \* quantum_min in us: the first barrier is there
  Quanta,        \* the values lround(quantum_) takes in compute_quantum
  QMax,          \* bound on the quanta
  MedQuantum,    \* the nodes' network.quantum_max, used when no GT is known
  Overshoot,     \* a callback is delivered at most this late, in us
  MaxGT,         \* bound of the model on the global time
  Faults,        \* which faults this instance may see, see FaultKinds
  AskTime,       \* the nodes with network.asktime
  CpuidArgs,     \* first arguments of the cpuid messages nodes relay
  Terminators    \* nodes whose simulation may end

FaultKinds ==
  {"lost_stamp", "lost_sync", "dup_stamp", "send_error", "port_change"}

ASSUME ClusterSyncAssumption ==
  /\ QMin \in Nat \ {0}
  /\ QMax \in Nat
  /\ Quanta \subseteq 1..QMax
  /\ QMin \in Quanta
  /\ MedQuantum \in 1..QMax
  /\ Overshoot \in Nat
  /\ MaxGT \in Nat
  /\ Faults \subseteq FaultKinds
  /\ AskTime \subseteq Nodes
  /\ CpuidArgs \subseteq Nat
  /\ Terminators \subseteq Nodes

VARIABLES
  \* the mediator (class Switch and its Node objects)
  gt, nextgt,        \* the current global time and the next barrier
  last_sync,         \* global time of the last multicast
  sync_started,
  members,           \* nodes with an id and a mac (Node::sync_valid)
  simtime,           \* the mediator's record of each node's time
  med_up,            \* FALSE once the mediator process has exited
  \* the nodes (class NetworkTiming)
  time,              \* simu_time() of the node
  wake,              \* when the CallMe callback to sync() is due
  pc,                \* where the node's simulation thread is
  last_ts,           \* last_ts_, the stamp of the last message sent
  clust_gt,          \* GT::clust_gt, the global time the node knows of
  ended,             \* GT::end
  \* datagrams in flight
  up,                \* node to mediator
  down               \* mediator to each node

medVars  == <<gt, nextgt, last_sync, sync_started, members, simtime, med_up>>
nodeVars == <<time, wake, pc, last_ts, clust_gt, ended>>
vars     == <<medVars, nodeVars, up, down>>

UpMsg == [type : {"TimeStamp", "TimeQuery", "Terminate"}, node : Nodes, ts : Nat]
DownMsg == [type : {"GTime", "Terminate"}, gt : Nat]
Stamp(type, n, t) == [type |-> type, node |-> n, ts |-> t]

Init ==
  /\ gt = 0 /\ nextgt = QMin
  /\ last_sync = 0
  /\ sync_started = FALSE
  /\ members = {}
  /\ simtime = [n \in Nodes |-> 0]
  /\ med_up = TRUE
  /\ time = [n \in Nodes |-> 0]
  /\ wake = [n \in Nodes |-> MedQuantum]
  /\ pc = [n \in Nodes |-> "sim"]
  /\ last_ts = [n \in Nodes |-> 0]
  /\ clust_gt = [n \in Nodes |-> 0]
  /\ ended = [n \in Nodes |-> FALSE]
  /\ up = {}
  /\ down = [n \in Nodes |-> {}]

-----------------------------------------------------------------------------
\* The mediator

Alive(n) == pc[n] \in {"sim", "check", "wait"}

\* sendto the multicast group: nobody listens at a node that has left
Multicast(m) ==
  down' = [n \in Nodes |-> IF Alive(n) THEN down[n] \union {m} ELSE down[n]]

\* Mutant: the multicast promises the quantum after the next as well.
SendSync_Ahead(force) ==
  IF force \/ last_sync = 0 \/ gt' > last_sync
  THEN /\ last_sync' = gt'
       /\ Multicast([type |-> "GTime", gt |-> nextgt' + QMin])
  ELSE UNCHANGED <<last_sync, down>>

\* send_sync: multicast the next barrier, at most once per global time unless
\* forced.  A failing sendto leaves last_sync_ alone.
SendSync(force) ==
  IF force \/ last_sync = 0 \/ gt' > last_sync
  THEN \/ /\ last_sync' = gt'
          /\ Multicast([type |-> "GTime", gt |-> nextgt'])
       \/ /\ "send_error" \in Faults
          /\ UNCHANGED <<last_sync, down>>
  ELSE UNCHANGED <<last_sync, down>>

\* Mutant: only the sender of the message is compared with the barrier.
AtBarrier_SenderOnly(ntime, times, nodes) == ntime = 0 \/ ntime >= nextgt

\* simtime_advance: the slowest of the members, and of ntime if there is one,
\* has reached the barrier.
AtBarrier(ntime, times, nodes) ==
  /\ ntime = 0 \/ ntime >= nextgt
  /\ \A n \in nodes : times[n] >= nextgt

\* Mutant: a quantum below one half rounds to nothing.
GT_advance_ZeroQuantum ==
  \E q \in Quanta \union {0} :
    /\ nextgt + q <= MaxGT
    /\ gt' = nextgt
    /\ nextgt' = nextgt + q

\* GT_advance, with the quantum that compute_quantum left in quantum_
GT_advance ==
  \E q \in Quanta :
    /\ nextgt + q <= MaxGT
    /\ gt' = nextgt
    /\ nextgt' = nextgt + q

\* sync_cluster without its send_sync
Barrier(ntime, times, nodes) ==
  /\ sync_started' = (sync_started \/ gt = 0)
  /\ \/ AtBarrier(ntime, times, nodes) /\ GT_advance
     \/ ~AtBarrier(ntime, times, nodes) /\ UNCHANGED <<gt, nextgt>>

\* process_timing_message: register the sender, keep its latest time
TimingMessage(m) ==
  /\ members' = members \union {m.node}
  /\ simtime' = [simtime EXCEPT ![m.node] = IF m.ts > @ THEN m.ts ELSE @]

Consume(m) ==
  \/ up' = up \ {m}
  \/ "dup_stamp" \in Faults /\ up' = up

\* Mutant: the timeout does not force the multicast.
Resync_Unforced(times, nodes) ==
  /\ IF gt > 0 THEN Barrier(gt, times, nodes)
               ELSE UNCHANGED <<gt, nextgt, sync_started>>
  /\ SendSync(FALSE)

\* Switch::timeout: asked for by a node, by the heartbeat thread, or by a
\* reactor that has seen no packet for ten seconds
Resync(times, nodes) ==
  /\ IF gt > 0 THEN Barrier(gt, times, nodes)
               ELSE UNCHANGED <<gt, nextgt, sync_started>>
  /\ SendSync(TRUE)

\* TimeStamp received: heartbeat_node
RecvTimeStamp(m) ==
  /\ med_up
  /\ m.type = "TimeStamp"
  /\ Consume(m)
  /\ TimingMessage(m)
  /\ Barrier(simtime'[m.node], simtime', members')
  /\ IF gt' # gt THEN SendSync(FALSE) ELSE UNCHANGED <<last_sync, down>>
  /\ UNCHANGED <<med_up, nodeVars>>

\* TimeQuery received: time_query
RecvTimeQuery(m) ==
  /\ med_up
  /\ m.type = "TimeQuery"
  /\ Consume(m)
  /\ TimingMessage(m)
  /\ Resync(simtime', members')
  /\ UNCHANGED <<med_up, nodeVars>>

\* Terminate received: tell everybody and exit
RecvTerminate(m) ==
  /\ med_up
  /\ m.type = "Terminate"
  /\ Consume(m)
  /\ TimingMessage(m)
  /\ Multicast([type |-> "Terminate", gt |-> 0])
  /\ med_up' = FALSE
  /\ UNCHANGED <<gt, nextgt, last_sync, sync_started, nodeVars>>

\* the heartbeat thread, once synchronisation has started
HeartbeatThread ==
  /\ med_up
  /\ sync_started
  /\ Resync(simtime, members)
  /\ UNCHANGED <<members, simtime, med_up, up, nodeVars>>

\* a reactor has seen no packet for ten seconds
ReactorTimeout ==
  /\ med_up
  /\ Resync(simtime, members)
  /\ UNCHANGED <<members, simtime, med_up, up, nodeVars>>

\* a data packet of a known mac from another port: its node loses its id and
\* is no longer sync_valid until its next timing message
PortChange(n) ==
  /\ "port_change" \in Faults
  /\ med_up
  /\ n \in members
  /\ members' = members \ {n}
  /\ UNCHANGED <<gt, nextgt, last_sync, sync_started, simtime, med_up,
                 up, down, nodeVars>>

-----------------------------------------------------------------------------
\* The nodes

\* the node simulates; CallMe will stop it at its wake time
Run(n) ==
  /\ pc[n] = "sim"
  /\ time[n] < wake[n] + Overshoot
  /\ time' = [time EXCEPT ![n] = @ + 1]
  /\ UNCHANGED <<medVars, wake, pc, last_ts, clust_gt, ended, up, down>>

\* Mutant: a node exactly at the global time is not worth a heartbeat.
SyncHeartbeat_OffByOne(n) ==
  /\ pc[n] = "sim"
  /\ time[n] >= wake[n]
  /\ pc' = [pc EXCEPT ![n] = IF ended[n] THEN "free" ELSE "check"]
  /\ IF ended[n] \/ time[n] <= last_ts[n] \/ time[n] <= clust_gt[n]
     THEN UNCHANGED <<last_ts, up>>
     ELSE /\ last_ts' = [last_ts EXCEPT ![n] = time[n]]
          /\ up' = up \union {Stamp("TimeStamp", n, time[n])}
  /\ UNCHANGED <<medVars, time, wake, clust_gt, ended, down>>

\* sync, first half: heartbeat.  Once terminated, sync returns without a new
\* callback and the node runs unsynchronised.
SyncHeartbeat(n) ==
  /\ pc[n] = "sim"
  /\ time[n] >= wake[n]
  /\ pc' = [pc EXCEPT ![n] = IF ended[n] THEN "free" ELSE "check"]
  /\ IF ended[n] \/ time[n] <= last_ts[n] \/ time[n] < clust_gt[n]
     THEN UNCHANGED <<last_ts, up>>
     ELSE /\ last_ts' = [last_ts EXCEPT ![n] = time[n]]
          /\ up' = up \union {Stamp("TimeStamp", n, time[n])}
  /\ UNCHANGED <<medVars, time, wake, clust_gt, ended, down>>

\* sync, second half: the global time is read again, it may have moved
SyncCheck(n) ==
  /\ pc[n] = "check"
  /\ \/ /\ time[n] >= clust_gt[n]
        /\ pc' = [pc EXCEPT ![n] = "wait"]
        /\ UNCHANGED wake
     \/ /\ time[n] < clust_gt[n]
        /\ pc' = [pc EXCEPT ![n] = "sim"]
        /\ wake' = [wake EXCEPT ![n] = clust_gt[n]]
  /\ UNCHANGED <<medVars, time, last_ts, clust_gt, ended, up, down>>

\* Mutant: wait_until does not look at end.
SyncResume_IgnoreEnd(n) ==
  /\ pc[n] = "wait"
  /\ clust_gt[n] > time[n]
  /\ pc' = [pc EXCEPT ![n] = "sim"]
  /\ wake' = [wake EXCEPT ![n] = clust_gt[n]]
  /\ UNCHANGED <<medVars, time, last_ts, clust_gt, ended, up, down>>

\* wait_until returns; next() schedules the following sync
SyncResume(n) ==
  /\ pc[n] = "wait"
  /\ clust_gt[n] > time[n] \/ ended[n]
  /\ pc' = [pc EXCEPT ![n] = "sim"]
  /\ wake' = [wake EXCEPT ![n] = IF clust_gt[n] > time[n]
                                 THEN clust_gt[n] ELSE time[n] + MedQuantum]
  /\ UNCHANGED <<medVars, time, last_ts, clust_gt, ended, up, down>>

\* global_time thread: a datagram from the mediator, GT::process
RecvSync(n, m) ==
  /\ Alive(n)
  /\ m \in down[n]
  /\ down' = [down EXCEPT ![n] = @ \ {m}]
  /\ \/ /\ m.type = "GTime"
        /\ clust_gt' = [clust_gt EXCEPT ![n] = IF m.gt > @ THEN m.gt ELSE @]
        /\ UNCHANGED ended
     \/ /\ m.type = "Terminate"
        /\ ended' = [ended EXCEPT ![n] = TRUE]
        /\ UNCHANGED clust_gt
  /\ UNCHANGED <<medVars, time, wake, pc, last_ts, up>>

\* global_time thread: no datagram before the timeout, or no advance
AskForTime(n) ==
  /\ n \in AskTime
  /\ Alive(n)
  /\ last_ts' = [last_ts EXCEPT ![n] = time[n]]
  /\ up' = up \union {Stamp("TimeQuery", n, time[n])}
  /\ UNCHANGED <<medVars, time, wake, pc, clust_gt, ended, down>>

\* the guest relays a cpuid to the cluster: send_msg keeps the message's
\* stamp, here the guest's first argument
SendCpuid(n, x) ==
  /\ pc[n] = "sim"
  /\ last_ts' = [last_ts EXCEPT ![n] = x]
  /\ UNCHANGED <<medVars, time, wake, pc, clust_gt, ended, up, down>>

\* the node's simulation ends
Terminate(n) ==
  /\ n \in Terminators
  /\ pc[n] = "sim"
  /\ pc' = [pc EXCEPT ![n] = "gone"]
  /\ last_ts' = [last_ts EXCEPT ![n] = time[n]]
  /\ up' = up \union {Stamp("Terminate", n, time[n])}
  /\ UNCHANGED <<medVars, time, wake, clust_gt, ended, down>>

-----------------------------------------------------------------------------
\* The network

LoseStamp(m) ==
  /\ "lost_stamp" \in Faults
  /\ up' = up \ {m}
  /\ UNCHANGED <<medVars, nodeVars, down>>

LoseSync(n, m) ==
  /\ "lost_sync" \in Faults
  /\ Alive(n)
  /\ m \in down[n] /\ m.type = "GTime"
  /\ down' = [down EXCEPT ![n] = @ \ {m}]
  /\ UNCHANGED <<medVars, nodeVars, up>>

-----------------------------------------------------------------------------
MediatorNext ==
  \/ \E m \in up : RecvTimeStamp(m) \/ RecvTimeQuery(m) \/ RecvTerminate(m)
  \/ HeartbeatThread \/ ReactorTimeout
  \/ \E n \in Nodes : PortChange(n)

NodeNext(n) ==
  \/ Run(n) \/ SyncHeartbeat(n) \/ SyncCheck(n) \/ SyncResume(n)
  \/ \E m \in down[n] : RecvSync(n, m)
  \/ AskForTime(n)
  \/ \E x \in CpuidArgs : SendCpuid(n, x)
  \/ Terminate(n)

NetNext ==
  \/ \E m \in up : LoseStamp(m)
  \/ \E n \in Nodes : \E m \in down[n] : LoseSync(n, m)

Next ==
  \/ MediatorNext
  \/ \E n \in Nodes : NodeNext(n)
  \/ NetNext

Spec == Init /\ [][Next]_vars

\* the simulation thread of a node, which stops at the barrier
Simulation(n) == Run(n) \/ SyncHeartbeat(n) \/ SyncCheck(n) \/ SyncResume(n)

\* Threads that loop for ever keep doing so and handle the datagrams that are
\* not lost.  Of the global times multicast again and again to a node, and of
\* the time queries a node repeats, one gets through.
Fairness ==
  /\ WF_vars(\E m \in up : RecvTimeStamp(m) \/ RecvTerminate(m))
  /\ WF_vars(HeartbeatThread)
  /\ \A n \in Nodes :
       WF_vars(Simulation(n)) /\ SF_vars(\E m \in down[n] : RecvSync(n, m))
  /\ \A n \in AskTime :
       /\ WF_vars(AskForTime(n))
       /\ SF_vars(\E m \in up : m.node = n /\ RecvTimeQuery(m))

FairSpec == Spec /\ Fairness

-----------------------------------------------------------------------------
\* Properties

\* Types; and the next barrier lies ahead of the current global time, by at
\* most the largest quantum (GT_advance).
TypeOK ==
  /\ gt \in Nat /\ nextgt \in Nat /\ last_sync \in Nat
  /\ gt < nextgt /\ nextgt <= gt + QMax
  /\ sync_started \in BOOLEAN /\ med_up \in BOOLEAN
  /\ members \subseteq Nodes
  /\ simtime \in [Nodes -> Nat]
  /\ time \in [Nodes -> Nat]
  /\ wake \in [Nodes -> Nat]
  /\ pc \in [Nodes -> {"sim", "check", "wait", "free", "gone"}]
  /\ last_ts \in [Nodes -> Nat]
  /\ clust_gt \in [Nodes -> Nat]
  /\ ended \in [Nodes -> BOOLEAN]
  /\ up \subseteq UpMsg
  /\ down \in [Nodes -> SUBSET DownMsg]

\* The nodes the current quantum started with: registered, and known to have
\* completed the previous quantum (switch.cpp, simtime_advance).
Joined == {n \in members : simtime[n] >= gt}

\* No node, registered or not, gets further ahead of a node that has joined
\* than one quantum and the lateness of a callback: the purpose of the
\* mediator.  It takes every datagram, late joiner and stale global time.
BoundedSkew ==
  med_up => \A a \in Nodes, b \in Joined :
              time[a] <= time[b] + QMax + Overshoot

\* A node that waits for the cluster has told the mediator that it arrived:
\* its time is recorded, or a message with it is on its way.  (The filter of
\* redundant heartbeats in NetworkTiming::heartbeat never drops a needed one.)
ArrivalReported ==
  \A n \in Nodes :
    med_up /\ pc[n] = "wait" =>
      \/ simtime[n] >= time[n]
      \/ \E m \in up : m.node = n /\ m.ts >= time[n]

\* A node that has joined the barrier stays in it: the mediator never opens a
\* quantum without it, as long as no node is dropped.
JoinedStays == [][members \subseteq members' => Joined \subseteq Joined']_vars

\* The protocol implements the abstract barrier.
Abstract == INSTANCE QuantumBarrier WITH
  horizon <- nextgt, open <- med_up, FreeRun <- MedQuantum, Slack <- Overshoot
ImplementsBarrier == Abstract!Spec

\* "Time advances when the slowest node has reached the barrier"
\* (switch.cpp:458): when the mediator's own table has every registered node
\* at the barrier, the barrier opens.
AllArrived ==
  /\ med_up /\ members # {}
  /\ \A n \in members : simtime[n] >= nextgt
  /\ nextgt + QMin <= MaxGT
BarrierOpens == AllArrived ~> ~AllArrived

\* Everybody has run past the next barrier before it was made known: the node
\* was to stop earlier, or at its own quantum, and has reported a time beyond.
\* The TimeStamp that ended the last quantum was the last one, a TimeStamp opens
\* one quantum only, and timeout() passes GT(), which opens none
\* (switch.cpp:456-459, 580): nothing moves any more.
Overrun ==
  \A n \in Nodes :
    simtime[n] >= nextgt /\ (wake[n] < nextgt \/ wake[n] = MedQuantum)

\* The cluster makes progress: a node that waits at the barrier resumes, unless
\* everybody has overrun a whole quantum.
WaitersResume ==
  \A n \in Nodes :
    (pc[n] = "wait" /\ time[n] + QMin <= MaxGT) ~> (pc[n] # "wait" \/ Overrun)

\* Once the mediator has been told to terminate, no node waits for ever.
AllReleased ==
  ~med_up ~> \A n \in Nodes : ~Alive(n)

=============================================================================
