------------------------- MODULE MediatorThreadsProofs -------------------------
(***************************************************************************)
(* The control reactor of the mediator on its own, one memory access at a  *)
(* time: for any nodes and quanta the barrier is honoured and announced.   *)
(* With one timer thread beside it the nodes drift apart by two quanta at  *)
(* most.                                                                   *)
(*                                                                         *)
(* A timer thread that is off stays off, so each behaviour has its threads *)
(* for good, and Running = {} is a fact about the whole of it.             *)
(***************************************************************************)
EXTENDS MediatorThreads, FiniteSetTheorems, TLAPS

\* What the control reactor knows at each of its steps when it is alone.
Alone ==
  /\ last_sync <= gt
  /\ pc["ctrl"] \in {"idle", "scan", "compare", "quantum", "setgt", "load",
                     "store", "sync", "send", "mark"}
  /\ pc["ctrl"] \in {"idle", "scan", "compare", "quantum", "setgt"} =>
       gt < nextgt /\ (gt > 0 => nextgt \in told)
  /\ pc["ctrl"] = "compare" => \A n \in Nodes : local["ctrl"] <= simtime[n]
  /\ pc["ctrl"] \in {"quantum", "setgt"} => \A n \in Nodes : nextgt <= simtime[n]
  /\ pc["ctrl"] \in {"load", "store"} => gt = nextgt /\ last_sync < gt
  /\ pc["ctrl"] = "store" => gt < local["ctrl"]
  /\ pc["ctrl"] = "sync" => gt < nextgt /\ last_sync < gt
  /\ pc["ctrl"] \in {"send", "mark"} => gt < nextgt /\ local["ctrl"] = gt
  /\ pc["ctrl"] = "mark" => nextgt \in told

IInv == TypeOK /\ (Running = {} => Alone)

-----------------------------------------------------------------------------
\* Threads and their locals

LEMMA ThreadNames ==
  /\ "ctrl" \in Threads
  /\ \A t \in Threads : t \in Timers \/ t = "ctrl"
  /\ "ctrl" \notin Timers
BY MediatorThreadsAssumption DEF Threads

LEMMA InitInv == Init => IInv
<1> SUFFICES ASSUME Init PROVE IInv
  OBVIOUS
<1> USE MediatorThreadsAssumption, ThreadNames DEF Init
<1>1. TypeOK
  <2>1. QMin \in Nat /\ \A t \in Threads : pc[t] \in {"idle", "off"}
    OBVIOUS
  <2> QED
    BY <2>1 DEF TypeOK
<1>2. pc["ctrl"] = "idle"
  BY DEF Threads
<1>3. Alone
  BY <1>2 DEF Alone
<1> QED
  BY <1>1, <1>3 DEF IInv

\* The types survive a step of a thread.
LEMMA ThreadTypes ==
  ASSUME TypeOK, NEW t \in Threads, ThreadStep(t)
  PROVE  TypeOK'
<1> USE MediatorThreadsAssumption DEF TypeOK, shared, Goto, Local
<1>1. CASE Tick(t)
  BY <1>1 DEF Tick
<1>2. CASE Scan(t)
  BY <1>2 DEF Scan
<1>3. CASE Compare(t)
  BY <1>3 DEF Compare, AfterCluster
<1>4. CASE ComputeQuantum(t)
  BY <1>4 DEF ComputeQuantum
<1>5. CASE SetGT(t)
  BY <1>5 DEF SetGT
<1>6. CASE LoadNext(t)
  <2>1. nextgt + quantum \in Nat
    OBVIOUS
  <2> QED
    BY <1>6, <2>1 DEF LoadNext
<1>7. CASE StoreNext(t)
  BY <1>7 DEF StoreNext
<1>8. CASE SendSync(t)
  BY <1>8 DEF SendSync, AfterCluster
<1>9. CASE Multicast(t)
  BY <1>9 DEF Multicast
<1>10. CASE MarkSync(t)
  BY <1>10 DEF MarkSync, AfterCluster
<1> QED
  BY <1>1, <1>2, <1>3, <1>4, <1>5, <1>6, <1>7, <1>8, <1>9, <1>10 DEF ThreadStep

\* A thread that is off stays off, and no other one goes off.
LEMMA SameRunning ==
  ASSUME TypeOK, [Next]_vars PROVE Running' = Running
<1> USE ThreadNames DEF TypeOK, Goto
<1>1. CASE \E t \in Threads : ThreadStep(t)
  <2> PICK t \in Threads : ThreadStep(t)
    BY <1>1
  <2>1. /\ pc[t] # "off" /\ pc'[t] # "off"
        /\ \A u \in Threads \ {t} : pc'[u] = pc[u]
    BY DEF ThreadStep, Tick, Scan, Compare, ComputeQuantum, SetGT, LoadNext,
           StoreNext, SendSync, Multicast, MarkSync, AfterCluster
  <2> QED
    BY <2>1 DEF Running, Threads
<1>2. CASE \E m \in up : TakeStamp(m)
  <2>1. \A u \in Timers : pc'[u] = pc[u]
    BY <1>2 DEF TakeStamp, Threads
  <2> QED
    BY <2>1 DEF Running
<1>3. CASE UNCHANGED pc
  BY <1>3 DEF Running
<1> QED
  BY <1>1, <1>2, <1>3 DEF Next, Arrive, vars

\* A step of the control reactor when it is alone.
LEMMA CtrlAlone ==
  ASSUME TypeOK, Alone, ThreadStep("ctrl") PROVE Alone'
<1> USE MediatorThreadsAssumption, ThreadNames
    DEF TypeOK, Alone, shared, Goto, Local
<1>1. ~Tick("ctrl")
  BY DEF Tick
<1>2. CASE Scan("ctrl")
  BY <1>2 DEF Scan
<1>3. CASE Compare("ctrl")
  BY <1>3 DEF Compare, AfterCluster
<1>4. CASE ComputeQuantum("ctrl")
  BY <1>4 DEF ComputeQuantum
<1>5. CASE SetGT("ctrl")
  BY <1>5 DEF SetGT
<1>6. CASE LoadNext("ctrl")
  BY <1>6 DEF LoadNext
<1>7. CASE StoreNext("ctrl")
  BY <1>7 DEF StoreNext
<1>8. CASE SendSync("ctrl")
  BY <1>8 DEF SendSync, AfterCluster
<1>9. CASE Multicast("ctrl")
  BY <1>9 DEF Multicast
<1>10. CASE MarkSync("ctrl")
  BY <1>10 DEF MarkSync, AfterCluster
<1> QED
  BY <1>1, <1>2, <1>3, <1>4, <1>5, <1>6, <1>7, <1>8, <1>9, <1>10 DEF ThreadStep

\* With no timer running, the only thread that steps is the control reactor.
LEMMA OnlyCtrl ==
  ASSUME TypeOK, Running = {}, NEW t \in Threads, ThreadStep(t)
  PROVE  t = "ctrl"
<1>1. pc[t] # "off"
  BY DEF ThreadStep, Tick, Scan, Compare, ComputeQuantum, SetGT, LoadNext,
         StoreNext, SendSync, Multicast, MarkSync
<1> QED
  BY <1>1, ThreadNames DEF Running

-----------------------------------------------------------------------------
\* The invariant is inductive.
LEMMA StepInv == ASSUME IInv, [Next]_vars PROVE IInv'
<1> USE MediatorThreadsAssumption, ThreadNames DEF IInv
<1>1. Running' = Running
  BY SameRunning
<1>2. CASE \E t \in Threads : ThreadStep(t)
  BY <1>2, <1>1, ThreadTypes, OnlyCtrl, CtrlAlone
<1>3. ASSUME NEW m \in up, TakeStamp(m) PROVE IInv'
  <2>1. m.node \in Nodes /\ m.ts \in Nat
    BY DEF TypeOK
  <2>2. \A n \in Nodes : simtime'[n] \in Nat /\ simtime[n] <= simtime'[n]
    BY <1>3, <2>1 DEF TakeStamp, TypeOK
  <2>3. TypeOK'
    BY <1>3, <2>1, <2>2 DEF TakeStamp, TypeOK, shared, Goto, Local
  <2>4. Alone => Alone'
    BY <1>3 DEF TakeStamp, TypeOK, Alone, shared, Goto
  <2> QED
    BY <2>3, <2>4, <1>1
<1>4. ASSUME NEW n \in Nodes, Arrive(n) PROVE IInv'
  <2>1. TypeOK'
    BY <1>4 DEF Arrive, TypeOK, shared
  <2>2. Alone => Alone'
    BY <1>4 DEF Arrive, Alone, shared
  <2> QED
    BY <2>1, <2>2, <1>1
<1>5. CASE UNCHANGED vars
  BY <1>5, <1>1 DEF vars, shared, TypeOK, Alone
<1> QED
  BY <1>2, <1>3, <1>4, <1>5 DEF Next

THEOREM Invariance == Spec => []IInv
BY InitInv, StepInv, PTL DEF Spec

\* The types hold for any nodes, quanta and timer threads, and the quantum is
\* one that compute_quantum chose.
THEOREM TypeCorrect == Spec => []TypeOK
BY Invariance, PTL DEF IInv

\* simtime_advance and GT_advance (switch.cpp:431-483): when no timer thread is
\* at work the global time moves only to a barrier that every node is recorded
\* at.
THEOREM BarrierIsHonoured == Spec => BarrierHonoured
<1>1. ASSUME IInv, [Next]_vars, gt' # gt, Running = {}
      PROVE  \A n \in Nodes : simtime[n] >= gt'
  <2>1. PICK t \in Threads : SetGT(t)
    BY <1>1 DEF Next, vars, shared, TakeStamp, Arrive, ThreadStep, Tick, Scan,
                Compare, ComputeQuantum, SetGT, LoadNext, StoreNext, SendSync,
                Multicast, MarkSync
  <2>2. t = "ctrl"
    BY <1>1, <2>1, OnlyCtrl DEF ThreadStep, IInv
  <2> QED
    BY <1>1, <2>1, <2>2 DEF SetGT, IInv, Alone, TypeOK
<1>2. IInv /\ [Next]_vars =>
        [gt' # gt /\ Running = {} => \A n \in Nodes : simtime[n] >= gt']_vars
  BY <1>1
<1> QED
  BY <1>2, Invariance, PTL DEF Spec, BarrierHonoured

\* send_sync (switch.cpp:556-576): when the control reactor, alone, has dealt
\* with a time stamp, the barrier has been multicast.
THEOREM BarrierIsAnnounced == Spec => []Announced
<1>1. IInv => Announced
  BY DEF IInv, Alone, Announced
<1> QED
  BY <1>1, Invariance, PTL

-----------------------------------------------------------------------------
\* One timer thread beside the control reactor

\* t has found the barrier reached and has not yet read it to move it.
Passed(t) == pc[t] \in {"quantum", "setgt", "load"}

\* t has a value to store in nextgt_, which may be old by now.
Storing(t) == pc[t] = "store"

\* what a timer thread adds
Slack == IF Running = {} THEN 0 ELSE QMax

\* How far the barrier, the values that will be stored there, and the nodes
\* are ahead of a node's recorded time s.
DriftAt(s) ==
  /\ nextgt <= s + QMax + Slack
  /\ \A g \in told : g <= s + QMax + Slack
  /\ \A a \in Nodes : time[a] <= s + QMax + Slack
  /\ \A t \in Threads :
       /\ pc[t] = "compare" => local[t] <= s
       /\ Passed(t) => nextgt <= s + Slack
       /\ Storing(t) => /\ local[t] <= s + QMax + Slack
                        /\ local[t] <= s + QMax \/ local[t] <= nextgt + QMax
  /\ \A t, u \in Threads : t # u /\ (Passed(u) \/ Storing(u)) =>
       /\ Passed(t) => nextgt <= s
       /\ Storing(t) => local[t] <= s + QMax

Drift == \A n \in Nodes : DriftAt(simtime[n])

\* The mediator's records are not ahead of the nodes.
Recorded ==
  /\ \A n \in Nodes : simtime[n] <= time[n]
  /\ \A m \in up : m.ts <= time[m.node]

\* no more than two threads are at work
Paired ==
  \A t, u, v \in Threads :
    pc[t] # "off" /\ pc[u] # "off" /\ pc[v] # "off" => t = u \/ u = v \/ t = v

\* A recorded time that grows keeps what is said of it.
LEMMA DriftGrows ==
  ASSUME TypeOK, NEW s \in Nat, NEW r \in Nat, s <= r, DriftAt(s)
  PROVE  DriftAt(r)
<1> USE MediatorThreadsAssumption DEF TypeOK
<1>1. Slack \in Nat
  BY DEF Slack
<1>2. ASSUME NEW x \in Nat
      PROVE  /\ x <= s => x <= r
             /\ x <= s + QMax => x <= r + QMax
             /\ x <= s + Slack => x <= r + Slack
             /\ x <= s + QMax + Slack => x <= r + QMax + Slack
  BY <1>1
<1>3. \A t \in Threads : local[t] \in Nat
  OBVIOUS
<1>4. ASSUME NEW t \in Threads
      PROVE  /\ pc[t] = "compare" => local[t] <= r
             /\ Passed(t) => nextgt <= r + Slack
             /\ Storing(t) => /\ local[t] <= r + QMax + Slack
                              /\ local[t] <= r + QMax \/ local[t] <= nextgt + QMax
  BY <1>2, <1>3 DEF DriftAt
<1>5. ASSUME NEW t \in Threads, NEW u \in Threads, t # u, Passed(u) \/ Storing(u)
      PROVE  /\ Passed(t) => nextgt <= r
             /\ Storing(t) => local[t] <= r + QMax
  BY <1>2, <1>3, <1>5 DEF DriftAt
<1>6. /\ nextgt <= r + QMax + Slack
      /\ \A g \in told : g <= r + QMax + Slack
      /\ \A a \in Nodes : time[a] <= r + QMax + Slack
  BY <1>2 DEF DriftAt
<1> QED
  BY <1>4, <1>5, <1>6 DEF DriftAt

\* A thread's step from one recorded time's view
LEMMA ThreadDrift ==
  ASSUME TypeOK, TypeOK', Paired, NEW n \in Nodes, DriftAt(simtime[n]), Drift,
         NEW t \in Threads, ThreadStep(t), Running' = Running
  PROVE  DriftAt(simtime[n])'
<1> DEFINE s == simtime[n]
<1> USE MediatorThreadsAssumption DEF TypeOK, shared, Goto, Local
<1>0. /\ simtime' = simtime /\ time' = time /\ Slack' = Slack /\ Slack \in Nat
      /\ s \in Nat /\ Slack \in {0, QMax} /\ nextgt \in Nat
      /\ \A u \in Threads : local[u] \in Nat /\ local'[u] \in Nat
  BY DEF ThreadStep, Tick, Scan, Compare, ComputeQuantum, SetGT, LoadNext,
         StoreNext, SendSync, Multicast, MarkSync, Slack
<1>a. \A u \in Threads \ {t} : pc'[u] = pc[u] /\ local'[u] = local[u]
  BY DEF ThreadStep, Tick, Scan, Compare, ComputeQuantum, SetGT, LoadNext,
         StoreNext, SendSync, Multicast, MarkSync, AfterCluster
<1>b. \A u \in Threads \ {t} : (Passed(u) <=> Passed(u)') /\ (Storing(u) <=> Storing(u)')
  BY <1>a DEF Passed, Storing
<1>c. ASSUME UNCHANGED <<nextgt, told>>,
             pc'[t] = "compare" => local'[t] <= s,
             Passed(t)' => Passed(t), ~Storing(t)'
      PROVE  DriftAt(simtime[n])'
  BY <1>0, <1>a, <1>b, <1>c DEF DriftAt
<1>1. CASE Tick(t)
  BY <1>1, <1>c DEF Tick, Passed, Storing
<1>2. CASE Scan(t)
  <2>1. pc'[t] = "compare" /\ local'[t] <= s
    BY <1>2, <1>0 DEF Scan
  <2> QED
    BY <2>1, <1>2, <1>c DEF Scan, Passed, Storing
<1>3. CASE Compare(t)
  <2>1. CASE local[t] >= nextgt
    <3>1. nextgt <= s
      BY <1>3, <2>1, <1>0 DEF Compare, DriftAt
    <3>2. pc'[t] = "quantum" /\ UNCHANGED <<nextgt, told, local>>
      BY <1>3, <2>1 DEF Compare
    <3>3. Passed(t)' /\ ~Storing(t)' /\ pc'[t] # "compare"
      BY <3>2 DEF Passed, Storing
    <3>4. nextgt <= s + Slack
      BY <3>1, <1>0
    <3>5. \A u \in Threads : Storing(u) => local[u] <= s + QMax
      BY <3>1, <1>0 DEF DriftAt
    <3> QED
      BY <3>1, <3>2, <3>3, <3>4, <3>5, <1>0, <1>a, <1>b DEF DriftAt
  <2>2. CASE ~(local[t] >= nextgt)
    BY <1>3, <2>2, <1>c DEF Compare, AfterCluster, Passed, Storing
  <2> QED
    BY <2>1, <2>2
<1>4. CASE ComputeQuantum(t)
  BY <1>4, <1>c DEF ComputeQuantum, Passed, Storing
<1>5. CASE SetGT(t)
  BY <1>5, <1>c DEF SetGT, Passed, Storing
<1>6. CASE LoadNext(t)
  <2>1. /\ Passed(t) /\ Storing(t)' /\ ~Passed(t)' /\ pc'[t] = "store"
        /\ local'[t] = nextgt + quantum /\ quantum <= QMax /\ quantum \in Nat
        /\ UNCHANGED <<nextgt, told>>
    BY <1>6 DEF LoadNext, Passed, Storing
  <2>2. nextgt <= s + Slack
    BY <2>1 DEF DriftAt
  <2>3. local'[t] <= s + QMax + Slack /\ local'[t] <= nextgt + QMax
    BY <2>1, <2>2, <1>0
  <2>4. ASSUME NEW u \in Threads, u # t, Passed(u) \/ Storing(u)
        PROVE  local'[t] <= s + QMax
    <3>1. nextgt <= s
      BY <2>1, <2>4 DEF DriftAt
    <3> QED
      BY <3>1, <2>1, <1>0
  <2>5. \A u \in Threads \ {t} : /\ Passed(u) => nextgt <= s
                                /\ Storing(u) => local[u] <= s + QMax
    BY <2>1 DEF DriftAt
  <2> QED
    BY <2>1, <2>2, <2>3, <2>4, <2>5, <1>0, <1>a, <1>b DEF DriftAt
<1>7. CASE StoreNext(t)
  <2>1. /\ Storing(t) /\ ~Passed(t)' /\ ~Storing(t)' /\ pc'[t] = "sync"
        /\ nextgt' = local[t] /\ told' = told
    BY <1>7 DEF StoreNext, Passed, Storing
  <2>2. nextgt' <= s + QMax + Slack
    BY <2>1 DEF DriftAt
  <2>3. ASSUME NEW u \in Threads, u # t, Passed(u) \/ Storing(u)
        PROVE  /\ nextgt' <= s + QMax /\ Slack = QMax
               /\ Storing(u) => local[u] <= s + QMax
    <3>1. local[t] <= s + QMax /\ (Storing(u) => local[u] <= s + QMax)
      BY <2>1, <2>3 DEF DriftAt
    <3>2. Running # {}
      BY <2>1, <2>3, ThreadNames DEF Running, Passed, Storing
    <3> QED
      BY <3>1, <3>2, <2>1 DEF Slack
  <2>4. \A u, v \in Threads : u # t /\ v # t /\ u # v =>
          ~(Passed(u) \/ Storing(u)) \/ ~(Passed(v) \/ Storing(v))
    BY <2>1 DEF Paired, Passed, Storing
  <2> QED
    BY <2>1, <2>2, <2>3, <2>4, <1>0, <1>a, <1>b DEF DriftAt
<1>8. CASE SendSync(t)
  BY <1>8, <1>c DEF SendSync, AfterCluster, Passed, Storing
<1>9. CASE Multicast(t)
  <2>1. /\ nextgt' = nextgt /\ told' = told \union {nextgt}
        /\ ~Passed(t)' /\ ~Storing(t)' /\ pc'[t] # "compare"
    BY <1>9 DEF Multicast, Passed, Storing
  <2> QED
    BY <2>1, <1>0, <1>a, <1>b DEF DriftAt
<1>10. CASE MarkSync(t)
  BY <1>10, <1>c DEF MarkSync, AfterCluster, Passed, Storing
<1> QED
  BY <1>1, <1>2, <1>3, <1>4, <1>5, <1>6, <1>7, <1>8, <1>9, <1>10 DEF ThreadStep

\* The other two actions
LEMMA DriftStep ==
  ASSUME TypeOK, TypeOK', Paired, Drift, Recorded, [Next]_vars, Running' = Running
  PROVE  Drift' /\ Recorded' /\ Paired'
<1> USE MediatorThreadsAssumption, ThreadNames DEF TypeOK
<1>0. Slack' = Slack /\ Slack \in Nat
  BY DEF Slack
<1>1. CASE \E t \in Threads : ThreadStep(t)
  <2> PICK t \in Threads : ThreadStep(t)
    BY <1>1
  <2>1. /\ UNCHANGED <<simtime, time, up>>
        /\ pc[t] # "off" /\ \A u \in Threads \ {t} : pc'[u] = pc[u]
    BY DEF ThreadStep, Tick, Scan, Compare, ComputeQuantum, SetGT, LoadNext,
           StoreNext, SendSync, Multicast, MarkSync, shared, Goto
  <2>2. Drift'
    <3>1. \A n \in Nodes : DriftAt(simtime[n])'
      BY ThreadDrift DEF Drift
    <3> QED
      BY <3>1 DEF Drift
  <2> QED
    BY <2>1, <2>2 DEF Recorded, Paired
<1>2. ASSUME NEW m \in up, TakeStamp(m) PROVE Drift' /\ Recorded' /\ Paired'
  <2>1. m.node \in Nodes /\ m.ts \in Nat
    OBVIOUS
  <2>2. /\ UNCHANGED <<nextgt, told, time>>
        /\ pc["ctrl"] = "idle" /\ pc'["ctrl"] = "scan"
        /\ \A u \in Threads \ {"ctrl"} : pc'[u] = pc[u] /\ local'[u] = local[u]
        /\ up' = up \ {m}
        /\ \A n \in Nodes : simtime'[n] \in {simtime[n], m.ts} /\ simtime[n] <= simtime'[n]
        /\ \A n \in Nodes : n # m.node => simtime'[n] = simtime[n]
    BY <1>2, <2>1 DEF TakeStamp, shared, Goto, Local
  <2>3. ASSUME NEW n \in Nodes PROVE DriftAt(simtime[n])'
    <3>1. DriftAt(simtime'[n])
      BY <2>2, DriftGrows DEF Drift
    <3>2. \A u \in Threads : /\ (Passed(u) <=> Passed(u)') /\ (Storing(u) <=> Storing(u)')
                             /\ pc'[u] = "compare" => u # "ctrl"
                             /\ Storing(u)' => u # "ctrl"
                             /\ pc'[u] = "compare" => pc[u] = "compare"
      BY <2>2 DEF Passed, Storing
    <3> QED
      BY <3>1, <3>2, <2>2, <1>0 DEF DriftAt
  <2>4. Recorded'
    BY <2>1, <2>2 DEF Recorded
  <2>5. Paired'
    BY <2>2 DEF Paired
  <2> QED
    BY <2>3, <2>4, <2>5 DEF Drift
<1>3. ASSUME NEW n \in Nodes, Arrive(n) PROVE Drift' /\ Recorded' /\ Paired'
  <2>1. PICK g \in told \union {FreeRun} :
          /\ time[n] < g /\ time' = [time EXCEPT ![n] = g]
          /\ up' = up \union {[node |-> n, ts |-> g]}
    BY <1>3 DEF Arrive
  <2>2. UNCHANGED <<nextgt, told, simtime, pc, local>>
    BY <1>3 DEF Arrive, shared
  <2>3. ASSUME NEW b \in Nodes PROVE DriftAt(simtime[b])'
    <3>1. DriftAt(simtime[b]) /\ simtime[b] \in Nat
      BY DEF Drift
    <3>2. g <= simtime[b] + QMax + Slack
      BY <3>1, <1>0 DEF DriftAt
    <3>3. \A u \in Threads : (Passed(u) <=> Passed(u)') /\ (Storing(u) <=> Storing(u)')
      BY <2>2 DEF Passed, Storing
    <3> QED
      BY <3>1, <3>2, <3>3, <2>1, <2>2, <1>0 DEF DriftAt
  <2>4. Recorded'
    BY <2>1, <2>2 DEF Recorded
  <2> QED
    BY <2>2, <2>3, <2>4 DEF Drift, Paired
<1>4. CASE UNCHANGED vars
  <2>1. UNCHANGED <<nextgt, told, simtime, pc, local, time, up>>
    BY <1>4 DEF vars, shared
  <2> QED
    BY <2>1, <1>0 DEF Drift, DriftAt, Recorded, Paired, Passed, Storing
<1> QED
  BY <1>1, <1>2, <1>3, <1>4 DEF Next

\* At most one timer thread makes at most two threads.
LEMMA TwoThreads ==
  ASSUME TypeOK
  PROVE  /\ Cardinality(Running) <= 1 => Paired
         /\ Cardinality(Running) <= 1 =>
              QMax + Slack = (1 + Cardinality(Running)) * QMax
<1> USE MediatorThreadsAssumption, ThreadNames
<1>1. Running \subseteq {"heartbeat", "data"}
  BY DEF Running
<1>2. IsFiniteSet(Running)
  <2>1. IsFiniteSet({"heartbeat", "data"})
    <3>1. {"heartbeat", "data"} = {"heartbeat"} \cup {"data"}
      OBVIOUS
    <3>2. IsFiniteSet({"heartbeat"} \cup {"data"})
      BY FS_Singleton, FS_AddElement
    <3> QED
      BY <3>1, <3>2
  <2> QED
    BY <1>1, <2>1, FS_Subset
<1>3. ASSUME Cardinality(Running) <= 1, NEW t \in Running, NEW u \in Running
      PROVE  t = u
  <2>1. SUFFICES ASSUME t # u PROVE FALSE
    OBVIOUS
  <2>2. {t, u} \subseteq Running /\ IsFiniteSet({t, u})
    BY FS_Subset, <1>2
  <2>3. Cardinality({t, u}) = 2
    <3>1. {t, u} = {t} \cup {u} /\ u \notin {t}
      BY <2>1
    <3>2. Cardinality({t} \cup {u}) = Cardinality({t}) + 1
      BY <3>1, FS_Singleton, FS_AddElement
    <3>3. Cardinality({t}) = 1
      BY FS_Singleton
    <3> QED
      BY <3>1, <3>2, <3>3
  <2>4. 2 <= Cardinality(Running)
    BY <2>2, <2>3, <1>2, FS_Subset
  <2>5. Cardinality(Running) \in Nat
    BY <1>2, FS_CardinalityType
  <2> QED
    BY <1>3, <2>4, <2>5
<1>4. Cardinality(Running) \in Nat /\ (Running = {} <=> Cardinality(Running) = 0)
  BY <1>2, FS_CardinalityType, FS_EmptySet
<1>5. Cardinality(Running) <= 1 => Paired
  BY <1>3 DEF Paired, Running
<1>6. Cardinality(Running) <= 1 =>
        QMax + Slack = (1 + Cardinality(Running)) * QMax
  <2>1. CASE Cardinality(Running) = 0
    BY <2>1, <1>4 DEF Slack
  <2>2. CASE Cardinality(Running) = 1
    BY <2>2, <1>4 DEF Slack
  <2> QED
    BY <2>1, <2>2, <1>4
<1> QED
  BY <1>5, <1>6

\* sync_cluster and timeout (switch.cpp:536, 578): with at most one timer
\* thread, for any nodes and quanta, the nodes drift apart by at most one
\* quantum for each thread that is in sync_cluster.
THEOREM DriftIsBounded == Spec => []RacedSkew
<1> DEFINE Pair == Cardinality(Running) <= 1
           Known == Pair => Drift /\ Recorded /\ Paired
<1>1. Init => TypeOK /\ Known
  <2> SUFFICES ASSUME Init PROVE TypeOK /\ Known
    OBVIOUS
  <2> USE MediatorThreadsAssumption DEF Init
  <2>1. TypeOK
    BY InitInv DEF IInv
  <2>2. \A t \in Threads : pc[t] \in {"idle", "off"}
    OBVIOUS
  <2>3. Slack \in Nat
    BY DEF Slack
  <2>4. \A n \in Nodes : DriftAt(simtime[n])
    BY <2>2, <2>3 DEF DriftAt, Passed, Storing
  <2>5. Recorded
    BY DEF Recorded
  <2> QED
    BY <2>1, <2>4, <2>5, TwoThreads DEF Drift
<1>2. TypeOK /\ TypeOK' /\ Known /\ [Next]_vars => Known'
  <2> SUFFICES ASSUME TypeOK, TypeOK', Pair, Drift, Recorded, Paired, [Next]_vars
               PROVE  Drift' /\ Recorded' /\ Paired'
    BY SameRunning
  <2> QED
    BY SameRunning, DriftStep
<1>3. TypeOK /\ Known => RacedSkew
  <2> SUFFICES ASSUME TypeOK, Pair, Drift, Recorded, NEW a \in Nodes, NEW b \in Nodes
               PROVE  time[a] <= time[b] + (1 + Cardinality(Running)) * QMax
    BY DEF RacedSkew
  <2>1. time[a] <= simtime[b] + QMax + Slack /\ simtime[b] <= time[b]
    BY DEF Drift, DriftAt, Recorded
  <2>2. time[a] \in Nat /\ time[b] \in Nat /\ simtime[b] \in Nat
        /\ QMax \in Nat /\ Slack \in Nat
    BY MediatorThreadsAssumption DEF TypeOK, Slack
  <2>3. time[a] <= time[b] + (QMax + Slack)
    BY <2>1, <2>2
  <2> QED
    BY <2>3, TwoThreads
<1> HIDE DEF Known
<1> QED
  BY <1>1, <1>2, <1>3, TypeCorrect, PTL DEF Spec

=============================================================================
