-------------------------- MODULE MediatorThreads --------------------------
(***************************************************************************)
(* The threads of the mediator, one memory access at a time.               *)
(*                                                                         *)
(* The control reactor calls sync_cluster for every TimeStamp; the         *)
(* heartbeat thread and the data reactor call timeout(), which calls       *)
(* sync_cluster too and then forces a multicast (network/switch.cpp,       *)
(* mediator_server.cpp).  gt_, nextgt_, quantum_ and last_sync_ are plain  *)
(* members and no lock covers the sequence, so every load and store is a   *)
(* step here.  ClusterSync takes the same handlers as single steps.        *)
(***************************************************************************)
EXTENDS Naturals, FiniteSets

CONSTANTS
  Nodes,       \* the registered nodes
  Timers,      \* the threads that may call timeout(): heartbeat, data
  QMin, Quanta,\* quantum_min, and the values lround(quantum_) takes
  QMax,        \* bound on the quanta
  FreeRun,     \* how far a node runs before it hears of a global time
  MaxGT        \* bound of the model: the nodes stop there

ASSUME MediatorThreadsAssumption ==
  /\ Timers \subseteq {"heartbeat", "data"}
  /\ QMax \in Nat
  /\ Quanta \subseteq 1..QMax
  /\ QMin \in Quanta
  /\ FreeRun \in 1..QMax
  /\ MaxGT \in Nat

Threads == {"ctrl"} \union Timers

VARIABLES
  gt, nextgt,    \* gt_, nextgt_
  quantum,       \* lround(quantum_)
  last_sync,     \* last_sync_
  sync_started,  \* sync_started_
  simtime,       \* Node::simtime_ of every node
  pc,            \* what each thread does next; "off" if it never does a thing
  local,         \* each thread's locals: t (t0, nextGT() or GT()), forced
  told,          \* global times multicast so far
  time,          \* the nodes' own simulated time
  up             \* TimeStamps on their way

shared == <<gt, nextgt, quantum, last_sync, sync_started>>
vars   == <<shared, simtime, pc, local, told, time, up>>

Init ==
  /\ gt = 0 /\ nextgt = QMin
  /\ quantum \in Quanta
  /\ last_sync = 0
  /\ sync_started = FALSE
  /\ simtime = [n \in Nodes |-> 0]
  /\ pc \in {[t \in Threads |-> IF t \in off THEN "off" ELSE "idle"] :
             off \in SUBSET Timers}
  /\ local = [t \in Threads |-> 0]
  /\ told = {}
  /\ time = [n \in Nodes |-> 0]
  /\ up = {}

Goto(t, l) == pc' = [pc EXCEPT ![t] = l]
Local(t, v) == local' = [local EXCEPT ![t] = v]

\* where a thread goes when its sync_cluster is over: a timer's timeout()
\* forces a multicast
AfterCluster(t) == IF t = "ctrl" THEN "idle" ELSE "force"

-----------------------------------------------------------------------------
\* Callers of sync_cluster

\* heartbeat_node: the control reactor takes a TimeStamp
TakeStamp(m) ==
  /\ pc["ctrl"] = "idle"
  /\ up' = up \ {m}
  /\ simtime' = [simtime EXCEPT ![m.node] = IF m.ts > @ THEN m.ts ELSE @]
  /\ Local("ctrl", simtime'[m.node])
  /\ Goto("ctrl", "scan")
  /\ UNCHANGED <<shared, told, time>>

\* timeout(): sync_cluster(GT()) unless time has not started
Tick(t) ==
  /\ t \in Timers
  /\ pc[t] = "idle"
  /\ t = "heartbeat" => sync_started
  /\ Local(t, gt)
  /\ Goto(t, IF gt > 0 THEN "scan" ELSE "force")
  /\ UNCHANGED <<shared, simtime, told, time, up>>

-----------------------------------------------------------------------------
\* sync_cluster

\* simtime_advance: the minimum t0 of the caller's time and the nodes'.  The
\* records only grow, so a scan taken at once decides as one taken in turn.
Scan(t) ==
  /\ pc[t] = "scan"
  /\ \E t0 \in {local[t]} \union {simtime[n] : n \in Nodes} :
       /\ t0 <= local[t] /\ \A n \in Nodes : t0 <= simtime[n]
       /\ Local(t, t0)
  /\ sync_started' = (sync_started \/ gt = 0)
  /\ Goto(t, "compare")
  /\ UNCHANGED <<gt, nextgt, quantum, last_sync, simtime, told, time, up>>

\* Mutant: the slowest node is compared with the time that has passed.
Compare_CurrentGT(t) ==
  /\ pc[t] = "compare"
  /\ Goto(t, IF local[t] >= gt THEN "quantum" ELSE AfterCluster(t))
  /\ UNCHANGED <<shared, simtime, local, told, time, up>>

\* t0 >= nextGT()
Compare(t) ==
  /\ pc[t] = "compare"
  /\ Goto(t, IF local[t] >= nextgt THEN "quantum" ELSE AfterCluster(t))
  /\ UNCHANGED <<shared, simtime, local, told, time, up>>

\* Mutant: a quantum that rounds to nothing
ComputeQuantum_Zero(t) ==
  /\ pc[t] = "quantum"
  /\ quantum' \in {0} \union Quanta
  /\ Goto(t, "setgt")
  /\ UNCHANGED <<gt, nextgt, last_sync, sync_started, simtime, local, told,
                 time, up>>

\* compute_quantum
ComputeQuantum(t) ==
  /\ pc[t] = "quantum"
  /\ quantum' \in Quanta
  /\ Goto(t, "setgt")
  /\ UNCHANGED <<gt, nextgt, last_sync, sync_started, simtime, local, told,
                 time, up>>

\* GT_advance: gt_ = nextgt_
SetGT(t) ==
  /\ pc[t] = "setgt"
  /\ gt' = nextgt
  /\ Goto(t, "load")
  /\ UNCHANGED <<nextgt, quantum, last_sync, sync_started, simtime, local,
                 told, time, up>>

\* nextgt_ += lround(quantum_), the loads
LoadNext(t) ==
  /\ pc[t] = "load"
  /\ Local(t, nextgt + quantum)
  /\ Goto(t, "store")
  /\ UNCHANGED <<shared, simtime, told, time, up>>

\* nextgt_ += lround(quantum_), the store
StoreNext(t) ==
  /\ pc[t] = "store"
  /\ nextgt' = local[t]
  /\ Goto(t, "sync")
  /\ UNCHANGED <<gt, quantum, last_sync, sync_started, simtime, local, told,
                 time, up>>

-----------------------------------------------------------------------------
\* send_sync

\* Mutant: a global time that was multicast before is multicast no more, even
\* when the caller forces it.
SendSync_Unforced(t) ==
  /\ pc[t] \in {"sync", "force"}
  /\ Local(t, gt)
  /\ Goto(t, IF last_sync # 0 /\ gt <= last_sync
             THEN (IF pc[t] = "sync" THEN AfterCluster(t) ELSE "idle")
             ELSE IF pc[t] = "sync" THEN "send" ELSE "fsend")
  /\ UNCHANGED <<shared, simtime, told, time, up>>

\* the test of last_sync_, unless forced
SendSync(t) ==
  /\ pc[t] \in {"sync", "force"}
  /\ Local(t, gt)
  /\ Goto(t, IF pc[t] = "force" THEN "fsend"
             ELSE IF last_sync # 0 /\ gt <= last_sync THEN AfterCluster(t)
             ELSE "send")
  /\ UNCHANGED <<shared, simtime, told, time, up>>

\* Mutant: the datagram carries GT().
Multicast_CurrentGT(t) ==
  /\ pc[t] \in {"send", "fsend"}
  /\ told' = told \union {gt}
  /\ Goto(t, IF pc[t] = "send" THEN "mark" ELSE "fmark")
  /\ UNCHANGED <<shared, simtime, local, time, up>>

\* the datagram with nextGT() goes out
Multicast(t) ==
  /\ pc[t] \in {"send", "fsend"}
  /\ told' = told \union {nextgt}
  /\ Goto(t, IF pc[t] = "send" THEN "mark" ELSE "fmark")
  /\ UNCHANGED <<shared, simtime, local, time, up>>

\* last_sync_ = gt
MarkSync(t) ==
  /\ pc[t] \in {"mark", "fmark"}
  /\ last_sync' = local[t]
  /\ Goto(t, IF pc[t] = "mark" THEN AfterCluster(t) ELSE "idle")
  /\ UNCHANGED <<gt, nextgt, quantum, sync_started, simtime, local, told,
                 time, up>>

-----------------------------------------------------------------------------
\* A node reaches a global time it was told, or the end of its free run, and
\* reports (NetworkTiming::sync); ClusterSync has the details.
Arrive(n) ==
  /\ \E g \in told \union {FreeRun} :
       /\ time[n] < g /\ g <= MaxGT
       /\ time' = [time EXCEPT ![n] = g]
       /\ up' = up \union {[node |-> n, ts |-> g]}
  /\ UNCHANGED <<shared, simtime, pc, local, told>>

ThreadStep(t) ==
  \/ Tick(t)
  \/ Scan(t) \/ Compare(t)
  \/ ComputeQuantum(t) \/ SetGT(t) \/ LoadNext(t) \/ StoreNext(t)
  \/ SendSync(t) \/ Multicast(t) \/ MarkSync(t)

Next ==
  \/ \E m \in up : TakeStamp(m)
  \/ \E t \in Threads : ThreadStep(t)
  \/ \E n \in Nodes : Arrive(n)

Spec == Init /\ [][Next]_vars

\* The timer threads that are at work: a data reactor that always has packets
\* never times out, and the heartbeat may be configured away.
Running == {t \in Timers : pc[t] # "off"}

\* Threads that loop for ever keep going.
Fairness ==
  /\ WF_vars(\E m \in up : TakeStamp(m))
  /\ \A t \in Threads : WF_vars(ThreadStep(t))
  /\ \A n \in Nodes : WF_vars(Arrive(n))

FairSpec == Spec /\ Fairness

-----------------------------------------------------------------------------
\* Properties

\* Types, with the quantum one that compute_quantum may choose.
TypeOK ==
  /\ gt \in Nat /\ nextgt \in Nat /\ last_sync \in Nat
  /\ quantum \in Quanta
  /\ sync_started \in BOOLEAN
  /\ simtime \in [Nodes -> Nat] /\ time \in [Nodes -> Nat]
  /\ local \in [Threads -> Nat]
  /\ pc \in [Threads -> {"idle", "scan", "compare", "quantum", "setgt", "load",
                         "store", "sync", "send", "mark", "force", "fsend",
                         "fmark", "off"}]
  /\ told \subseteq Nat
  /\ up \subseteq [node : Nodes, ts : Nat]

\* "Time advances when the slowest node has reached the barrier"
\* (switch.cpp:458): when the control reactor is on its own, GT_advance moves
\* the global time only if every node is recorded at the new global time,
\* which was the barrier until then.
BarrierHonoured ==
  [][gt' # gt /\ Running = {} => \A n \in Nodes : simtime[n] >= gt']_vars

\* "Send a sync to all nodes to restart them" (switch.cpp:556): when the
\* control reactor, on its own, is done with a time stamp, the nodes have been
\* sent the barrier that they may run to.
Announced ==
  Running = {} /\ pc["ctrl"] = "idle" /\ gt > 0 => nextgt \in told

\* Two threads can both find the barrier reached and both move it: one timer
\* thread beside the control reactor adds a quantum to how far nodes drift
\* apart.  With two of them there is no bound: while one thread keeps an old
\* nextgt_ to store, the others can pass and add to the barrier repeatedly.
RacedSkew ==
  Cardinality(Running) <= 1 =>
    \A a, b \in Nodes : time[a] <= time[b] + (1 + Cardinality(Running)) * QMax

\* A barrier that one thread's multicast hides from another's is sent in the
\* end: timeout() forces it.
EventuallyTold ==
  \A g \in 1..MaxGT : (gt > 0 /\ nextgt = g) ~> (g \in told \/ nextgt # g)

=============================================================================
