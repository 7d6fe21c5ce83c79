------------------------- MODULE ClusterSyncProofs -------------------------
(***************************************************************************)
(* Proofs about ClusterSync, for every cluster, every choice of quanta and *)
(* every combination of faults; and, in the last part, about the callbacks *)
(* inside a node (Sampling), which ClusterSync takes to be Overshoot late  *)
(* at most.                                                                *)
(***************************************************************************)
EXTENDS ClusterSync, Sampling, SequenceTheorems, WellFoundedInduction, TLAPS

FarLimit == IF nextgt > MedQuantum THEN nextgt ELSE MedQuantum

\* What the mediator knows, or will learn, of a node is in the node's past.
KnownPast ==
  /\ \A n \in Nodes : simtime[n] <= time[n]
  /\ \A m \in up : m.ts <= time[m.node]

\* What a node knows, or will learn, of the global time has been opened.
KnownOpened ==
  /\ \A n \in Nodes : clust_gt[n] <= nextgt
  /\ \A n \in Nodes : \A m \in down[n] : m.type = "GTime" => m.gt <= nextgt
  /\ med_up => \A n \in Nodes :
       ~ended[n] /\ \A m \in down[n] : m.type = "GTime"

\* While the mediator runs no node is scheduled past the open barrier.
Confined ==
  med_up => \A n \in Nodes :
    wake[n] <= FarLimit /\ time[n] <= FarLimit + Overshoot

IInv == TypeOK /\ KnownPast /\ KnownOpened /\ Confined

-----------------------------------------------------------------------------
\* The handlers in terms of their effect.

\* What sync_cluster may do: the barrier stays, or moves to the next one, all
\* the nodes counted being there.
LEMMA BarrierEffect ==
  ASSUME TypeOK, NEW ntime \in Nat, NEW times, NEW nodes,
         Barrier(ntime, times, nodes)
  PROVE  /\ sync_started' \in BOOLEAN
         /\ \/ gt' = gt /\ nextgt' = nextgt
            \/ /\ \A n \in nodes : times[n] >= nextgt
               /\ gt' = nextgt
               /\ nextgt' \in Nat /\ nextgt' > nextgt /\ nextgt' <= gt' + QMax
BY ClusterSyncAssumption
   DEF Barrier, AtBarrier, GT_advance, TypeOK

\* What send_sync may do: nothing, or tell every node of the next barrier.
LEMMA SendSyncEffect ==
  ASSUME TypeOK, gt' \in Nat, nextgt' \in Nat, NEW force \in BOOLEAN,
         SendSync(force)
  PROVE  /\ last_sync' \in Nat
         /\ down' \in [Nodes -> SUBSET DownMsg]
         /\ \A n \in Nodes : \A m \in down'[n] :
              m \in down[n] \/ (m.type = "GTime" /\ m.gt = nextgt')
<1> DEFINE new == [type |-> "GTime", gt |-> nextgt']
<1>1. new \in DownMsg
  BY DEF DownMsg
<1>2. CASE last_sync' = gt' /\ Multicast(new)
  <2>1. down' = [n \in Nodes |-> IF Alive(n) THEN down[n] \union {new} ELSE down[n]]
    BY <1>2 DEF Multicast
  <2>2. down' \in [Nodes -> SUBSET DownMsg]
    BY <2>1, <1>1 DEF TypeOK
  <2> QED
    BY <1>2, <2>1, <2>2
<1>3. CASE UNCHANGED <<last_sync, down>>
  BY <1>3 DEF TypeOK
<1> QED
  BY <1>2, <1>3 DEF SendSync

\* The timeout never moves the barrier: it compares the current global time
\* with the next one.
LEMMA ResyncEffect ==
  ASSUME TypeOK, NEW times, NEW nodes, Resync(times, nodes)
  PROVE  /\ gt' = gt /\ nextgt' = nextgt
         /\ sync_started' \in BOOLEAN
         /\ last_sync' \in Nat
         /\ down' \in [Nodes -> SUBSET DownMsg]
         /\ \A n \in Nodes : \A m \in down'[n] :
              m \in down[n] \/ (m.type = "GTime" /\ m.gt = nextgt')
<1>1. gt' = gt /\ nextgt' = nextgt /\ sync_started' \in BOOLEAN
  <2>1. CASE gt > 0
    BY <2>1 DEF Resync, Barrier, AtBarrier, TypeOK
  <2>2. CASE ~(gt > 0)
    BY <2>2 DEF Resync, TypeOK
  <2> QED
    BY <2>1, <2>2
<1>2. SendSync(TRUE)
  BY DEF Resync
<1> QED
  BY <1>1, <1>2, SendSyncEffect DEF TypeOK

\* Registering the sender of a message whose stamp is in its past.
LEMMA TimingMessageEffect ==
  ASSUME TypeOK, KnownPast, NEW m \in up, TimingMessage(m)
  PROVE  /\ members' = members \union {m.node}
         /\ members' \subseteq Nodes
         /\ simtime' \in [Nodes -> Nat]
         /\ simtime'[m.node] \in Nat
         /\ \A n \in Nodes : simtime[n] <= simtime'[n] /\ simtime'[n] <= time[n]
BY DEF TypeOK, KnownPast, TimingMessage, UpMsg

\* Receiving a datagram puts none in flight.
LEMMA ConsumeEffect ==
  ASSUME TypeOK, NEW m, Consume(m)
  PROVE  up' \subseteq up
BY DEF Consume

-----------------------------------------------------------------------------
\* The inductive invariant

\* The invariant holds before anything is sent.
LEMMA InitIInv == Init => IInv
<1> SUFFICES ASSUME Init PROVE IInv
  OBVIOUS
<1>0. /\ QMin \in Nat /\ 0 < QMin /\ QMin <= QMax /\ QMax \in Nat
      /\ MedQuantum \in Nat
  BY ClusterSyncAssumption
<1>1. TypeOK
  <2>1. /\ gt \in Nat /\ nextgt \in Nat /\ last_sync \in Nat
        /\ gt < nextgt /\ nextgt <= gt + QMax
    BY <1>0 DEF Init
  <2>2. /\ simtime \in [Nodes -> Nat] /\ time \in [Nodes -> Nat]
        /\ wake \in [Nodes -> Nat] /\ last_ts \in [Nodes -> Nat]
        /\ clust_gt \in [Nodes -> Nat]
    BY <1>0 DEF Init
  <2>3. /\ pc \in [Nodes -> {"sim", "check", "wait", "free", "gone"}]
        /\ ended \in [Nodes -> BOOLEAN]
        /\ down \in [Nodes -> SUBSET DownMsg]
    BY DEF Init
  <2> QED
    BY <2>1, <2>2, <2>3 DEF Init, TypeOK
<1>2. KnownPast /\ KnownOpened
  BY ClusterSyncAssumption DEF Init, KnownPast, KnownOpened
<1>3. Confined
  BY ClusterSyncAssumption DEF Init, Confined, FarLimit
<1> QED
  BY <1>1, <1>2, <1>3 DEF IInv

\* A step of the mediator that leaves the nodes alone, takes in nothing but
\* stamps of the past, and tells the nodes nothing but opened barriers.
LEMMA MediatorStep ==
  ASSUME IInv, UNCHANGED nodeVars,
         gt' \in Nat, nextgt' \in Nat, gt' < nextgt', nextgt' <= gt' + QMax,
         nextgt <= nextgt',
         last_sync' \in Nat, sync_started' \in BOOLEAN, UNCHANGED med_up,
         members' \subseteq Nodes,
         simtime' \in [Nodes -> Nat],
         \A n \in Nodes : simtime'[n] <= time[n],
         up' \subseteq up,
         down' \in [Nodes -> SUBSET DownMsg],
         \A n \in Nodes : \A m \in down'[n] :
           m \in down[n] \/ (m.type = "GTime" /\ m.gt = nextgt')
  PROVE  IInv'
<1>1. TypeOK'
  BY DEF IInv, TypeOK, nodeVars
<1>2. KnownPast'
  BY DEF IInv, KnownPast, nodeVars
<1>3. KnownOpened'
  <2>1. \A n \in Nodes : clust_gt[n] \in Nat
    BY DEF IInv, TypeOK
  <2>2. \A n \in Nodes : \A m \in down[n] : m.gt \in Nat
    BY DEF IInv, TypeOK, DownMsg
  <2>3. \A n \in Nodes : clust_gt'[n] <= nextgt'
    BY <2>1 DEF IInv, TypeOK, KnownOpened, nodeVars
  <2>4. ASSUME NEW n \in Nodes, NEW m \in down'[n], m.type = "GTime"
        PROVE  m.gt <= nextgt'
    BY <2>2, <2>4 DEF IInv, TypeOK, KnownOpened
  <2>5. ASSUME med_up', NEW n \in Nodes
        PROVE  ~ended'[n] /\ \A m \in down'[n] : m.type = "GTime"
    BY <2>5 DEF IInv, KnownOpened, nodeVars
  <2> QED
    BY <2>3, <2>4, <2>5 DEF KnownOpened
<1>4. Confined'
  <2> SUFFICES ASSUME med_up', NEW n \in Nodes
               PROVE  wake'[n] <= FarLimit' /\ time'[n] <= FarLimit' + Overshoot
    BY DEF Confined
  <2>1. FarLimit \in Nat /\ FarLimit' \in Nat /\ FarLimit <= FarLimit'
    BY ClusterSyncAssumption DEF FarLimit, IInv, TypeOK
  <2>2. wake[n] \in Nat /\ time[n] \in Nat
    BY DEF IInv, TypeOK
  <2>3. wake[n] <= FarLimit /\ time[n] <= FarLimit + Overshoot
    BY DEF IInv, Confined
  <2> QED
    BY <2>1, <2>2, <2>3, ClusterSyncAssumption DEF nodeVars
<1> QED
  BY <1>1, <1>2, <1>3, <1>4 DEF IInv

\* heartbeat_node: if the barrier opens, every member had reached it.
LEMMA RecvTimeStampStep ==
  ASSUME IInv, NEW m \in up, RecvTimeStamp(m)
  PROVE  IInv'
<1>1. TypeOK /\ KnownPast
  BY DEF IInv
<1>2. /\ members' \subseteq Nodes
      /\ simtime' \in [Nodes -> Nat]
      /\ simtime'[m.node] \in Nat
      /\ \A n \in Nodes : simtime'[n] <= time[n]
  BY <1>1, TimingMessageEffect DEF RecvTimeStamp
<1>3. up' \subseteq up
  BY <1>1, ConsumeEffect DEF RecvTimeStamp
<1>4. Barrier(simtime'[m.node], simtime', members')
  BY DEF RecvTimeStamp
<1>5. /\ sync_started' \in BOOLEAN
      /\ \/ gt' = gt /\ nextgt' = nextgt
         \/ gt' = nextgt /\ nextgt' \in Nat /\ nextgt' > nextgt /\ nextgt' <= gt' + QMax
  BY <1>1, <1>2, <1>4, BarrierEffect
<1>6. /\ gt' \in Nat /\ nextgt' \in Nat /\ gt' < nextgt'
      /\ nextgt' <= gt' + QMax /\ nextgt <= nextgt'
  BY <1>1, <1>5 DEF TypeOK
<1>7. /\ last_sync' \in Nat
      /\ down' \in [Nodes -> SUBSET DownMsg]
      /\ \A n \in Nodes : \A d \in down'[n] :
           d \in down[n] \/ (d.type = "GTime" /\ d.gt = nextgt')
  <2>1. CASE gt' # gt
    BY <1>1, <1>6, <2>1, SendSyncEffect DEF RecvTimeStamp
  <2>2. CASE gt' = gt
    BY <1>1, <2>2 DEF RecvTimeStamp, TypeOK
  <2> QED
    BY <2>1, <2>2
<1>8. UNCHANGED nodeVars /\ UNCHANGED med_up
  BY DEF RecvTimeStamp
<1> QED
  BY <1>2, <1>3, <1>5, <1>6, <1>7, <1>8, MediatorStep

\* timeout, whoever calls it: a multicast of a barrier that is open already.
LEMMA ResyncStep ==
  ASSUME IInv, UNCHANGED <<nodeVars, med_up>>, NEW times, NEW nodes,
         Resync(times, nodes),
         members' \subseteq Nodes,
         simtime' \in [Nodes -> Nat],
         \A n \in Nodes : simtime'[n] <= time[n],
         up' \subseteq up
  PROVE  IInv'
<1>1. TypeOK
  BY DEF IInv
<1>2. /\ gt' = gt /\ nextgt' = nextgt
      /\ sync_started' \in BOOLEAN
      /\ last_sync' \in Nat
      /\ down' \in [Nodes -> SUBSET DownMsg]
      /\ \A n \in Nodes : \A m \in down'[n] :
           m \in down[n] \/ (m.type = "GTime" /\ m.gt = nextgt')
  BY <1>1, ResyncEffect
<1>3. /\ gt' \in Nat /\ nextgt' \in Nat /\ gt' < nextgt'
      /\ nextgt' <= gt' + QMax /\ nextgt <= nextgt'
  BY <1>1, <1>2 DEF TypeOK
<1>4. UNCHANGED nodeVars /\ UNCHANGED med_up
  OBVIOUS
<1> QED
  BY <1>2, <1>3, <1>4, MediatorStep

\* time_query: registration, then timeout.
LEMMA RecvTimeQueryStep ==
  ASSUME IInv, NEW m \in up, RecvTimeQuery(m)
  PROVE  IInv'
<1>1. TypeOK /\ KnownPast
  BY DEF IInv
<1>2. /\ members' \subseteq Nodes
      /\ simtime' \in [Nodes -> Nat]
      /\ \A n \in Nodes : simtime'[n] <= time[n]
  BY <1>1, TimingMessageEffect DEF RecvTimeQuery
<1>3. up' \subseteq up
  BY <1>1, ConsumeEffect DEF RecvTimeQuery
<1>4. Resync(simtime', members') /\ UNCHANGED <<nodeVars, med_up>>
  BY DEF RecvTimeQuery
<1> QED
  BY <1>2, <1>3, <1>4, ResyncStep

\* After a Terminate the mediator is gone, and the nodes are confined no more.
LEMMA RecvTerminateStep ==
  ASSUME IInv, NEW m \in up, RecvTerminate(m)
  PROVE  IInv'
<1> DEFINE bye == [type |-> "Terminate", gt |-> 0]
<1>1. TypeOK /\ KnownPast
  BY DEF IInv
<1>2. /\ members' \subseteq Nodes
      /\ simtime' \in [Nodes -> Nat]
      /\ \A n \in Nodes : simtime'[n] <= time[n]
  BY <1>1, TimingMessageEffect DEF RecvTerminate
<1>3. up' \subseteq up
  BY <1>1, ConsumeEffect DEF RecvTerminate
<1>4. bye \in DownMsg
  BY DEF DownMsg
<1>5. down' = [n \in Nodes |-> IF Alive(n) THEN down[n] \union {bye} ELSE down[n]]
  BY DEF RecvTerminate, Multicast
<1>6. down' \in [Nodes -> SUBSET DownMsg]
  BY <1>1, <1>4, <1>5 DEF TypeOK
<1>7. TypeOK'
  BY <1>1, <1>2, <1>3, <1>6 DEF RecvTerminate, TypeOK, nodeVars
<1>8. KnownPast'
  BY <1>1, <1>2, <1>3 DEF RecvTerminate, KnownPast, nodeVars
<1>9. KnownOpened'
  BY <1>5 DEF RecvTerminate, KnownOpened, IInv, nodeVars
<1>10. Confined'
  BY DEF RecvTerminate, Confined
<1> QED
  BY <1>7, <1>8, <1>9, <1>10 DEF IInv

\* One case for each handler of the mediator.
LEMMA MediatorNextStep == IInv /\ MediatorNext => IInv'
<1> SUFFICES ASSUME IInv, MediatorNext PROVE IInv'
  OBVIOUS
<1>1. ASSUME NEW m \in up, RecvTimeStamp(m) PROVE IInv'
  BY <1>1, RecvTimeStampStep
<1>2. ASSUME NEW m \in up, RecvTimeQuery(m) PROVE IInv'
  BY <1>2, RecvTimeQueryStep
<1>3. ASSUME NEW m \in up, RecvTerminate(m) PROVE IInv'
  BY <1>3, RecvTerminateStep
<1>4. CASE HeartbeatThread \/ ReactorTimeout
  <2>1. /\ Resync(simtime, members)
        /\ UNCHANGED <<members, simtime, med_up, up, nodeVars>>
    BY <1>4 DEF HeartbeatThread, ReactorTimeout
  <2>2. /\ members' \subseteq Nodes
        /\ simtime' \in [Nodes -> Nat]
        /\ \A n \in Nodes : simtime'[n] <= time[n]
        /\ up' \subseteq up
    BY <2>1 DEF IInv, TypeOK, KnownPast
  <2> QED
    BY <2>1, <2>2, ResyncStep
<1>5. ASSUME NEW n \in Nodes, PortChange(n) PROVE IInv'
  <2>1. members' \subseteq Nodes
    BY <1>5 DEF PortChange, IInv, TypeOK
  <2>2. UNCHANGED <<gt, nextgt, last_sync, sync_started, simtime, med_up, up, down, nodeVars>>
    BY <1>5 DEF PortChange
  <2>3. TypeOK'
    BY <2>1, <2>2 DEF IInv, TypeOK, nodeVars
  <2>4. KnownPast' /\ KnownOpened' /\ Confined'
    BY <2>2 DEF IInv, KnownPast, KnownOpened, Confined, FarLimit, nodeVars
  <2> QED
    BY <2>3, <2>4 DEF IInv
<1> QED
  BY <1>1, <1>2, <1>3, <1>4, <1>5 DEF MediatorNext

\* The steps of a node

\* One case for each step of a node.
LEMMA NodeStep == ASSUME IInv, NEW n \in Nodes, NodeNext(n) PROVE IInv'
<1>1. TypeOK
  BY DEF IInv
<1>2. CASE Run(n)
  <2>1. time' = [time EXCEPT ![n] = @ + 1] /\ time[n] < wake[n] + Overshoot
    BY <1>2 DEF Run
  <2>2. TypeOK'
    BY <1>1, <1>2, <2>1 DEF Run, TypeOK, medVars
  <2>3. \A k \in Nodes : time[k] \in Nat /\ time'[k] \in Nat /\ time[k] <= time'[k]
    BY <1>1, <2>1 DEF TypeOK
  <2>4. KnownPast'
    <3>1. \A k \in Nodes : simtime'[k] <= time'[k]
      BY <1>1, <1>2, <2>3 DEF Run, medVars, TypeOK, KnownPast, IInv
    <3>2. ASSUME NEW m \in up' PROVE m.ts <= time'[m.node]
      <4>1. m \in up /\ m.ts \in Nat /\ m.node \in Nodes
        BY <1>1, <1>2 DEF Run, TypeOK, UpMsg
      <4> QED
        BY <4>1, <2>3 DEF KnownPast, IInv
    <3> QED
      BY <3>1, <3>2 DEF KnownPast
  <2>5. KnownOpened'
    BY <1>2 DEF Run, medVars, KnownOpened, IInv
  <2>6. Confined'
    <3> SUFFICES ASSUME med_up', NEW k \in Nodes
                 PROVE  wake'[k] <= FarLimit' /\ time'[k] <= FarLimit' + Overshoot
      BY DEF Confined
    <3>1. wake[k] <= FarLimit /\ time[k] <= FarLimit + Overshoot
      BY <1>2 DEF Run, medVars, Confined, IInv
    <3>2. wake' = wake /\ FarLimit' = FarLimit
      BY <1>2 DEF Run, medVars, FarLimit
    <3>3. FarLimit \in Nat /\ wake[k] \in Nat /\ Overshoot \in Nat
      BY <1>1, ClusterSyncAssumption DEF FarLimit, TypeOK
    <3>4. CASE k = n
      BY <2>1, <2>3, <3>1, <3>2, <3>3, <3>4, <1>1 DEF TypeOK
    <3>5. CASE k # n
      BY <2>1, <3>1, <3>2, <3>5, <1>1 DEF TypeOK
    <3> QED
      BY <3>4, <3>5
  <2> QED
    BY <2>2, <2>4, <2>5, <2>6 DEF IInv
<1>3. ASSUME UNCHANGED <<medVars, time, wake, clust_gt, ended, down>>,
             last_ts' \in [Nodes -> Nat],
             pc' \in [Nodes -> {"sim", "check", "wait", "free", "gone"}],
             NEW type \in {"TimeStamp", "TimeQuery", "Terminate"},
             up' \subseteq up \union {Stamp(type, n, time[n])}
      PROVE  IInv'
  <2>1. time[n] \in Nat /\ Stamp(type, n, time[n]) \in UpMsg
    BY <1>1 DEF TypeOK, Stamp, UpMsg
  <2>2. TypeOK'
    BY <1>1, <1>3, <2>1 DEF TypeOK, medVars
  <2>3. KnownPast'
    BY <1>3, <2>1 DEF IInv, KnownPast, Stamp, medVars
  <2>4. KnownOpened' /\ Confined'
    BY <1>3 DEF IInv, KnownOpened, Confined, FarLimit, medVars
  <2> QED
    BY <2>2, <2>3, <2>4 DEF IInv
<1>4. CASE SyncHeartbeat(n)
  <2>1. pc' \in [Nodes -> {"sim", "check", "wait", "free", "gone"}]
    BY <1>1, <1>4 DEF SyncHeartbeat, TypeOK
  <2>2. /\ last_ts' \in [Nodes -> Nat]
        /\ up' \subseteq up \union {Stamp("TimeStamp", n, time[n])}
        /\ UNCHANGED <<medVars, time, wake, clust_gt, ended, down>>
    BY <1>1, <1>4 DEF SyncHeartbeat, TypeOK
  <2> QED
    BY <1>3, <2>1, <2>2
<1>5. CASE AskForTime(n)
  <2>1. /\ pc' \in [Nodes -> {"sim", "check", "wait", "free", "gone"}]
        /\ last_ts' \in [Nodes -> Nat]
        /\ up' \subseteq up \union {Stamp("TimeQuery", n, time[n])}
        /\ UNCHANGED <<medVars, time, wake, clust_gt, ended, down>>
    BY <1>1, <1>5 DEF AskForTime, TypeOK
  <2> QED
    BY <1>3, <2>1
<1>6. CASE \E x \in CpuidArgs : SendCpuid(n, x)
  <2>1. /\ pc' \in [Nodes -> {"sim", "check", "wait", "free", "gone"}]
        /\ last_ts' \in [Nodes -> Nat]
        /\ up' \subseteq up \union {Stamp("TimeStamp", n, time[n])}
        /\ UNCHANGED <<medVars, time, wake, clust_gt, ended, down>>
    BY <1>1, <1>6, ClusterSyncAssumption DEF SendCpuid, TypeOK
  <2> QED
    BY <1>3, <2>1
<1>7. CASE Terminate(n)
  <2>1. /\ pc' \in [Nodes -> {"sim", "check", "wait", "free", "gone"}]
        /\ last_ts' \in [Nodes -> Nat]
        /\ up' \subseteq up \union {Stamp("Terminate", n, time[n])}
        /\ UNCHANGED <<medVars, time, wake, clust_gt, ended, down>>
    BY <1>1, <1>7 DEF Terminate, TypeOK
  <2> QED
    BY <1>3, <2>1
<1>8. CASE SyncCheck(n) \/ SyncResume(n)
  <2>1. /\ UNCHANGED <<medVars, time, last_ts, clust_gt, ended, up, down>>
        /\ pc' \in [Nodes -> {"sim", "check", "wait", "free", "gone"}]
    BY <1>1, <1>8 DEF SyncCheck, SyncResume, TypeOK
  <2>2. /\ wake' \in [Nodes -> Nat]
        /\ \A k \in Nodes : \/ wake'[k] = wake[k]
                             \/ wake'[k] = clust_gt[k]
                             \/ ended[k]
    BY <1>1, <1>8, ClusterSyncAssumption DEF SyncCheck, SyncResume, TypeOK
  <2>3. TypeOK'
    BY <1>1, <2>1, <2>2 DEF TypeOK, medVars
  <2>4. KnownPast' /\ KnownOpened'
    BY <2>1 DEF IInv, KnownPast, KnownOpened, medVars
  <2>5. Confined'
    <3> SUFFICES ASSUME med_up, NEW k \in Nodes
                 PROVE  wake'[k] <= FarLimit /\ time[k] <= FarLimit + Overshoot
      BY <2>1 DEF Confined, FarLimit, medVars
    <3>1. /\ wake[k] <= FarLimit /\ time[k] <= FarLimit + Overshoot
          /\ ~ended[k] /\ clust_gt[k] <= nextgt
      BY DEF IInv, Confined, KnownOpened
    <3>2. nextgt \in Nat /\ clust_gt[k] \in Nat /\ nextgt <= FarLimit /\ FarLimit \in Nat
      BY <1>1, ClusterSyncAssumption DEF TypeOK, FarLimit
    <3> QED
      BY <2>2, <3>1, <3>2
  <2> QED
    BY <2>3, <2>4, <2>5 DEF IInv
<1>9. CASE \E m \in down[n] : RecvSync(n, m)
  <2>1. PICK m \in down[n] : RecvSync(n, m)
    BY <1>9
  <2>2. m \in DownMsg /\ m.gt \in Nat
    BY <1>1 DEF TypeOK, DownMsg
  <2>3. /\ UNCHANGED <<medVars, time, wake, pc, last_ts, up>>
        /\ down' = [down EXCEPT ![n] = @ \ {m}]
    BY <2>1 DEF RecvSync
  <2>4. down' \in [Nodes -> SUBSET DownMsg] /\ \A k \in Nodes : down'[k] \subseteq down[k]
    BY <1>1, <2>3 DEF TypeOK
  <2>5. /\ clust_gt' \in [Nodes -> Nat]
        /\ \A k \in Nodes : clust_gt'[k] <= nextgt
    BY <1>1, <2>1, <2>2 DEF RecvSync, TypeOK, IInv, KnownOpened
  <2>6. /\ ended' \in [Nodes -> BOOLEAN]
        /\ med_up => \A k \in Nodes : ~ended'[k]
    BY <1>1, <2>1 DEF RecvSync, TypeOK, IInv, KnownOpened
  <2>7. TypeOK'
    BY <1>1, <2>3, <2>4, <2>5, <2>6 DEF TypeOK, medVars
  <2>8. KnownPast' /\ Confined'
    BY <2>3 DEF IInv, KnownPast, Confined, FarLimit, medVars
  <2>9. KnownOpened'
    BY <2>3, <2>4, <2>5, <2>6 DEF IInv, KnownOpened, medVars
  <2> QED
    BY <2>7, <2>8, <2>9 DEF IInv
<1> QED
  BY <1>2, <1>4, <1>5, <1>6, <1>7, <1>8, <1>9 DEF NodeNext

\* Losing datagrams takes facts away from nobody.
LEMMA NetStep == IInv /\ NetNext => IInv'
<1> SUFFICES ASSUME IInv, NetNext PROVE IInv'
  OBVIOUS
<1>1. /\ UNCHANGED <<medVars, nodeVars>>
      /\ up' \subseteq up
      /\ down' \in [Nodes -> SUBSET DownMsg]
      /\ \A n \in Nodes : down'[n] \subseteq down[n]
  BY DEF NetNext, LoseStamp, LoseSync, IInv, TypeOK
<1>2. TypeOK'
  BY <1>1 DEF IInv, TypeOK, medVars, nodeVars
<1>3. KnownPast' /\ KnownOpened' /\ Confined'
  BY <1>1 DEF IInv, KnownPast, KnownOpened, Confined, FarLimit, medVars, nodeVars
<1> QED
  BY <1>2, <1>3 DEF IInv

\* The invariant is inductive.
LEMMA IInvStep == IInv /\ [Next]_vars => IInv'
<1> SUFFICES ASSUME IInv, [Next]_vars PROVE IInv'
  OBVIOUS
<1>1. CASE Next
  BY <1>1, MediatorNextStep, NodeStep, NetStep DEF Next
<1>2. CASE UNCHANGED vars
  BY <1>2 DEF vars, medVars, nodeVars, IInv, TypeOK, KnownPast, KnownOpened,
              Confined, FarLimit
<1> QED
  BY <1>1, <1>2

\* The strengthening of the theorems below is an invariant.
THEOREM Invariance == Spec => []IInv
BY InitIInv, IInvStep, PTL DEF Spec

-----------------------------------------------------------------------------
\* The properties of ClusterSync

\* Every variable keeps its type, and the next barrier stays ahead of the
\* global time by at most the largest quantum.
THEOREM TypeCorrect == Spec => []TypeOK
<1>1. IInv => TypeOK
  BY DEF IInv
<1> QED
  BY <1>1, Invariance, PTL

\* Whatever is lost, late or repeated, no node gets more than a quantum and
\* the lateness of a callback ahead of a node that has joined the barrier.
THEOREM SkewBounded == Spec => []BoundedSkew
<1>1. IInv => BoundedSkew
  <2> SUFFICES ASSUME IInv, med_up, NEW a \in Nodes, NEW b \in Joined
               PROVE  time[a] <= time[b] + QMax + Overshoot
    BY DEF BoundedSkew
  <2>1. b \in Nodes /\ simtime[b] >= gt
    BY DEF Joined, IInv, TypeOK
  <2>2. /\ time[a] \in Nat /\ time[b] \in Nat /\ simtime[b] \in Nat
        /\ gt \in Nat /\ nextgt \in Nat /\ nextgt <= gt + QMax
    BY <2>1 DEF IInv, TypeOK
  <2>3. time[a] <= FarLimit + Overshoot
    BY DEF IInv, Confined
  <2>4. simtime[b] <= time[b]
    BY <2>1 DEF IInv, KnownPast
  <2>5. /\ MedQuantum \in Nat /\ MedQuantum <= QMax
        /\ QMax \in Nat /\ Overshoot \in Nat
    BY ClusterSyncAssumption
  <2>6. FarLimit \in Nat /\ FarLimit <= gt + QMax
    BY <2>2, <2>5 DEF FarLimit
  <2> QED
    BY <2>1, <2>2, <2>3, <2>4, <2>5, <2>6
<1> QED
  BY <1>1, Invariance, PTL

\* The handlers that move members, simtime or the barrier.
LEMMA RegisteringStep ==
  ASSUME IInv, NEW m \in up,
         RecvTimeStamp(m) \/ RecvTimeQuery(m) \/ RecvTerminate(m)
  PROVE  /\ m.node \in Nodes
         /\ members' = members \union {m.node}
         /\ members' \subseteq Nodes
         /\ simtime' \in [Nodes -> Nat]
         /\ \A n \in Nodes : simtime[n] <= simtime'[n] /\ simtime'[n] <= time[n]
         /\ UNCHANGED time
         /\ \/ gt' = gt /\ nextgt' = nextgt
            \/ /\ \A n \in members' : simtime'[n] >= nextgt
               /\ gt' = nextgt /\ nextgt' \in Nat /\ nextgt' > nextgt
               /\ RecvTimeStamp(m)
<1>1. TypeOK /\ KnownPast
  BY DEF IInv
<1>2. m.node \in Nodes
  BY <1>1 DEF TypeOK, UpMsg
<1>3. TimingMessage(m) /\ UNCHANGED time
  BY DEF RecvTimeStamp, RecvTimeQuery, RecvTerminate, nodeVars
<1>4. /\ members' = members \union {m.node}
      /\ members' \subseteq Nodes
      /\ simtime' \in [Nodes -> Nat]
      /\ simtime'[m.node] \in Nat
      /\ \A n \in Nodes : simtime[n] <= simtime'[n] /\ simtime'[n] <= time[n]
  BY <1>1, <1>3, TimingMessageEffect
<1>5. CASE RecvTimeStamp(m)
  <2>1. Barrier(simtime'[m.node], simtime', members')
    BY <1>5 DEF RecvTimeStamp
  <2> QED
    BY <1>1, <1>2, <1>3, <1>4, <1>5, <2>1, BarrierEffect
<1>6. CASE RecvTimeQuery(m)
  <2>1. Resync(simtime', members')
    BY <1>6 DEF RecvTimeQuery
  <2> QED
    BY <1>1, <1>2, <1>3, <1>4, <2>1, ResyncEffect
<1>7. CASE RecvTerminate(m)
  BY <1>2, <1>3, <1>4, <1>7 DEF RecvTerminate
<1> QED
  BY <1>5, <1>6, <1>7

\* Everything else leaves the barrier and the mediator's table alone, except
\* that a changed port drops a node.
LEMMA OtherStep ==
  ASSUME IInv, [Next]_vars,
         ~ \E m \in up : RecvTimeStamp(m) \/ RecvTimeQuery(m) \/ RecvTerminate(m)
  PROVE  /\ gt' = gt /\ nextgt' = nextgt
         /\ simtime' = simtime
         /\ med_up' = med_up
         /\ \/ members' = members
            \/ \E n \in Nodes : PortChange(n)
         /\ \/ time' = time
            \/ \E n \in Nodes : Run(n) /\ members' = members
<1>1. TypeOK
  BY DEF IInv
<1>2. CASE HeartbeatThread \/ ReactorTimeout
  <2>1. /\ Resync(simtime, members)
        /\ UNCHANGED <<members, simtime, med_up, nodeVars>>
    BY <1>2 DEF HeartbeatThread, ReactorTimeout
  <2> QED
    BY <1>1, <2>1, ResyncEffect DEF nodeVars
<1>3. CASE \E n \in Nodes : PortChange(n)
  BY <1>3 DEF PortChange, nodeVars
<1>4. ASSUME NEW n \in Nodes, NodeNext(n)
      PROVE  /\ UNCHANGED medVars
             /\ time' = time \/ Run(n)
  BY <1>4 DEF NodeNext, Run, SyncHeartbeat, SyncCheck, SyncResume, RecvSync,
              AskForTime, SendCpuid, Terminate
<1>5. CASE NetNext \/ UNCHANGED vars
  BY <1>5 DEF NetNext, LoseStamp, LoseSync, vars, medVars, nodeVars
<1>6. CASE \E n \in Nodes : NodeNext(n)
  BY <1>4, <1>6 DEF medVars
<1> QED
  BY <1>2, <1>3, <1>5, <1>6 DEF Next, MediatorNext

\* The barrier never opens a quantum without a node that has joined it; only
\* another port that takes a node's mac drops it.
THEOREM JoinedRemain == Spec => JoinedStays
<1>1. IInv /\ [Next]_vars =>
        [members \subseteq members' => Joined \subseteq Joined']_vars
  <2> SUFFICES ASSUME IInv, [Next]_vars, members \subseteq members',
                      NEW n \in Joined
               PROVE  n \in members' /\ simtime'[n] >= gt'
    BY DEF Joined
  <2>1. /\ n \in members /\ n \in members' /\ n \in Nodes /\ simtime[n] >= gt
        /\ simtime[n] \in Nat /\ gt \in Nat /\ nextgt \in Nat
    BY DEF Joined, IInv, TypeOK
  <2>2. CASE \E m \in up : RecvTimeStamp(m) \/ RecvTimeQuery(m) \/ RecvTerminate(m)
    <3>1. PICK m \in up : RecvTimeStamp(m) \/ RecvTimeQuery(m) \/ RecvTerminate(m)
      BY <2>2
    <3> QED
      BY <2>1, <3>1, RegisteringStep
  <2>3. CASE ~ \E m \in up : RecvTimeStamp(m) \/ RecvTimeQuery(m) \/ RecvTerminate(m)
    BY <2>1, <2>3, OtherStep
  <2> QED
    BY <2>2, <2>3
<1> QED
  BY <1>1, Invariance, PTL DEF Spec, JoinedStays

-----------------------------------------------------------------------------
\* Arrivals

\* Stamps are not lost, and no cpuid message overwrites a node's last stamp
\* with a time it has not reached.
StampsKept == CpuidArgs \subseteq {0} /\ "lost_stamp" \notin Faults

\* The mediator has, or will get, time t of node n.
Reaches(n, t) == simtime[n] >= t \/ \E m \in up : m.node = n /\ m.ts >= t

\* The last stamp a node sent is known to the mediator or on its way, and the
\* node sent one for its own time before it came to wait, unless it is behind
\* the global time it knows of.
Reported ==
  /\ med_up => \A n \in Nodes : Reaches(n, last_ts[n])
  /\ \A n \in Nodes : pc[n] = "check" =>
       time[n] < clust_gt[n] \/ last_ts[n] >= time[n]
  /\ \A n \in Nodes : pc[n] = "wait" => last_ts[n] >= time[n]

\* Receiving a message loses nothing: its stamp is recorded.
LEMMA ReceiptReaches ==
  ASSUME TypeOK, NEW r \in up, Consume(r), TimingMessage(r),
         NEW n \in Nodes, NEW t \in Nat, Reaches(n, t)
  PROVE  Reaches(n, t)'
<1>1. /\ simtime \in [Nodes -> Nat] /\ up \subseteq UpMsg
      /\ simtime' = [simtime EXCEPT ![r.node] = IF r.ts > @ THEN r.ts ELSE @]
      /\ r.node \in Nodes /\ r.ts \in Nat
  BY DEF TypeOK, TimingMessage, UpMsg
<1>2. CASE simtime[n] >= t
  <2>1. simtime'[n] >= t
    BY <1>1, <1>2
  <2> QED
    BY <2>1 DEF Reaches
<1>3. CASE \E m \in up : m.node = n /\ m.ts >= t
  <2>1. PICK m \in up : m.node = n /\ m.ts >= t
    BY <1>3
  <2>2. CASE m = r
    <3>1. simtime'[n] >= t
      BY <1>1, <2>1, <2>2
    <3> QED
      BY <3>1 DEF Reaches
  <2>3. CASE m # r
    <3>1. m \in up'
      BY <2>3 DEF Consume
    <3> QED
      BY <2>1, <3>1 DEF Reaches
  <2> QED
    BY <2>2, <2>3
<1> QED
  BY <1>2, <1>3 DEF Reaches

\* A step of the mediator drops no stamp.
LEMMA MediatorReported ==
  ASSUME TypeOK, Reported, MediatorNext
  PROVE  Reported'
<1>1. UNCHANGED nodeVars
  BY DEF MediatorNext, RecvTimeStamp, RecvTimeQuery, RecvTerminate,
         HeartbeatThread, ReactorTimeout, PortChange
<1>2. /\ \A n \in Nodes : (pc[n] = "check")' =>
           (time[n] < clust_gt[n] \/ last_ts[n] >= time[n])'
      /\ \A n \in Nodes : (pc[n] = "wait")' => (last_ts[n] >= time[n])'
  BY <1>1 DEF Reported, nodeVars
<1>3. ASSUME med_up', NEW n \in Nodes
      PROVE  Reaches(n, last_ts[n])'
  <2>1. last_ts' = last_ts /\ last_ts[n] \in Nat
    BY <1>1 DEF nodeVars, TypeOK
  <2>2. CASE \E m \in up : RecvTimeStamp(m) \/ RecvTimeQuery(m)
    <3>1. PICK m \in up : Consume(m) /\ TimingMessage(m) /\ med_up
      BY <2>2 DEF RecvTimeStamp, RecvTimeQuery
    <3>2. Reaches(n, last_ts[n])
      BY <3>1 DEF Reported
    <3> DEFINE t == last_ts[n]
    <3>3. PICK u \in Nat : u = t
      BY <2>1
    <3>4. Reaches(n, u)'
      BY <3>1, <3>2, <3>3, ReceiptReaches
    <3> QED
      BY <2>1, <3>3, <3>4 DEF Reaches
  <2>3. CASE HeartbeatThread \/ ReactorTimeout \/ \E k \in Nodes : PortChange(k)
    <3>1. med_up /\ simtime' = simtime /\ up' = up
      BY <2>3 DEF HeartbeatThread, ReactorTimeout, PortChange
    <3> QED
      BY <2>1, <3>1 DEF Reported, Reaches
  <2>4. CASE \E m \in up : RecvTerminate(m)
    BY <1>3, <2>4 DEF RecvTerminate
  <2> QED
    BY <2>2, <2>3, <2>4 DEF MediatorNext
<1> QED
  BY <1>2, <1>3 DEF Reported

\* A step of a node that sends its own time, or sends nothing and keeps its
\* last stamp or has it 0.
LEMMA SendingReaches ==
  ASSUME TypeOK, Reported, NEW n \in Nodes, NEW type,
         UNCHANGED <<simtime, med_up>>,
         \/ /\ last_ts' = [last_ts EXCEPT ![n] = time[n]]
            /\ up' = up \union {Stamp(type, n, time[n])}
         \/ UNCHANGED <<last_ts, up>>
         \/ last_ts' = [last_ts EXCEPT ![n] = 0] /\ up' = up
  PROVE  med_up' => \A k \in Nodes : Reaches(k, last_ts[k])'
<1> SUFFICES ASSUME med_up, NEW k \in Nodes PROVE Reaches(k, last_ts[k])'
  OBVIOUS
<1>1. Reaches(k, last_ts[k])
  BY DEF Reported
<1>2. CASE UNCHANGED <<last_ts, up>>
  BY <1>1, <1>2 DEF Reaches
<1>3. CASE /\ last_ts' = [last_ts EXCEPT ![n] = time[n]]
           /\ up' = up \union {Stamp(type, n, time[n])}
  <2>1. time[n] \in Nat /\ last_ts \in [Nodes -> Nat]
    BY DEF TypeOK
  <2>2. CASE k = n
    <3>1. last_ts'[k] = time[n]
      BY <1>3, <2>1, <2>2
    <3>2. Stamp(type, n, time[n]) \in up'
      BY <1>3
    <3>3. /\ Stamp(type, n, time[n]).node = k
          /\ Stamp(type, n, time[n]).ts >= last_ts'[k]
      BY <2>1, <2>2, <3>1 DEF Stamp
    <3> QED
      BY <3>2, <3>3 DEF Reaches
  <2>3. CASE k # n
    <3>1. last_ts'[k] = last_ts[k] /\ up \subseteq up'
      BY <1>3, <2>1, <2>3
    <3> QED
      BY <1>1, <3>1 DEF Reaches
  <2> QED
    BY <2>2, <2>3
<1>4. CASE last_ts' = [last_ts EXCEPT ![n] = 0] /\ up' = up
  <2>1. last_ts \in [Nodes -> Nat] /\ simtime[k] \in Nat
    BY DEF TypeOK
  <2>2. CASE k = n
    <3>1. last_ts'[k] = 0 /\ simtime'[k] >= 0
      BY <1>4, <2>1, <2>2
    <3> QED
      BY <3>1 DEF Reaches
  <2>3. CASE k # n
    <3>1. last_ts'[k] = last_ts[k]
      BY <1>4, <2>1, <2>3
    <3> QED
      BY <1>1, <1>4, <3>1 DEF Reaches
  <2> QED
    BY <2>2, <2>3
<1> QED
  BY <1>2, <1>3, <1>4

\* A node reports its time before it waits for the cluster.
LEMMA NodeReported ==
  ASSUME StampsKept, TypeOK, Reported, NEW n \in Nodes, NodeNext(n)
  PROVE  Reported'
<1> DEFINE Arrived(k) ==
      /\ pc[k] = "check" => time[k] < clust_gt[k] \/ last_ts[k] >= time[k]
      /\ pc[k] = "wait" => last_ts[k] >= time[k]
<1>0. /\ \A k \in Nodes : Arrived(k)
      /\ time \in [Nodes -> Nat] /\ last_ts \in [Nodes -> Nat]
      /\ clust_gt \in [Nodes -> Nat]
      /\ pc \in [Nodes -> {"sim", "check", "wait", "free", "gone"}]
  BY DEF Reported, TypeOK
<1>1. UNCHANGED <<simtime, med_up>>
  BY DEF NodeNext, medVars, Run, SyncHeartbeat, SyncCheck, SyncResume,
         RecvSync, AskForTime, SendCpuid, Terminate
<1>2. SUFFICES /\ \A k \in Nodes : Arrived(k)'
               /\ \E type : \/ /\ last_ts' = [last_ts EXCEPT ![n] = time[n]]
                               /\ up' = up \union {Stamp(type, n, time[n])}
                            \/ UNCHANGED <<last_ts, up>>
                            \/ last_ts' = [last_ts EXCEPT ![n] = 0] /\ up' = up
  BY <1>1, SendingReaches DEF Reported
<1>3. CASE Run(n)
  BY <1>0, <1>3 DEF Run
<1>4. CASE SyncHeartbeat(n)
  BY <1>0, <1>4 DEF SyncHeartbeat
<1>5. CASE SyncCheck(n)
  BY <1>0, <1>5 DEF SyncCheck
<1>6. CASE SyncResume(n)
  BY <1>0, <1>6 DEF SyncResume
<1>7. CASE \E m \in down[n] : RecvSync(n, m)
  <2>1. PICK m \in down[n] : RecvSync(n, m)
    BY <1>7
  <2>2. m \in DownMsg
    BY <2>1 DEF TypeOK
  <2>3. m.gt \in Nat
    BY <2>2 DEF DownMsg
  <2>4. \A k \in Nodes : clust_gt'[k] \in Nat /\ clust_gt'[k] >= clust_gt[k]
    BY <1>0, <2>1, <2>3 DEF RecvSync
  <2>5. UNCHANGED <<time, pc, last_ts, up>>
    BY <2>1 DEF RecvSync
  <2> QED
    BY <1>0, <2>4, <2>5
<1>8. CASE AskForTime(n)
  BY <1>0, <1>8 DEF AskForTime
<1>9. CASE \E x \in CpuidArgs : SendCpuid(n, x)
  <2>1. /\ pc[n] = "sim" /\ last_ts' = [last_ts EXCEPT ![n] = 0]
        /\ UNCHANGED <<time, pc, clust_gt, up>>
    BY <1>9 DEF StampsKept, SendCpuid
  <2> QED
    BY <1>0, <2>1
<1>10. CASE Terminate(n)
  BY <1>0, <1>10 DEF Terminate
<1> QED
  BY <1>3, <1>4, <1>5, <1>6, <1>7, <1>8, <1>9, <1>10 DEF NodeNext

\* When no stamp is lost, a node that waits at the barrier has told the
\* mediator so (the filter of redundant heartbeats in network_timing.cpp).
THEOREM ArrivalsReported ==
  ASSUME StampsKept
  PROVE  Spec => []ArrivalReported
<1>1. Init => Reported
  BY DEF Init, Reported, Reaches
<1>2. TypeOK /\ Reported /\ [Next]_vars => Reported'
  <2> SUFFICES ASSUME TypeOK, Reported, [Next]_vars PROVE Reported'
    OBVIOUS
  <2>1. CASE MediatorNext
    BY <2>1, MediatorReported
  <2>2. CASE \E n \in Nodes : NodeNext(n)
    BY <2>2, NodeReported
  <2>3. CASE NetNext
    <3>1. UNCHANGED <<medVars, nodeVars, up>>
      BY <2>3 DEF NetNext, LoseStamp, LoseSync, StampsKept
    <3> QED
      BY <3>1 DEF medVars, nodeVars, Reported, Reaches
  <2>4. CASE UNCHANGED vars
    BY <2>4 DEF vars, medVars, nodeVars, Reported, Reaches
  <2> QED
    BY <2>1, <2>2, <2>3, <2>4 DEF Next
<1>3. TypeOK /\ Reported => ArrivalReported
  <2> SUFFICES ASSUME TypeOK, Reported, NEW n \in Nodes, med_up, pc[n] = "wait"
               PROVE  Reaches(n, time[n])
    BY DEF ArrivalReported, Reaches
  <2>1. Reaches(n, last_ts[n]) /\ last_ts[n] >= time[n]
    BY DEF Reported
  <2>2. /\ last_ts[n] \in Nat /\ time[n] \in Nat /\ simtime[n] \in Nat
        /\ \A m \in up : m.ts \in Nat
    BY DEF TypeOK, UpMsg
  <2> QED
    BY <2>1, <2>2 DEF Reaches
<1> QED
  BY <1>1, <1>2, <1>3, TypeCorrect, PTL DEF Spec

-----------------------------------------------------------------------------
\* Refinement

\* Initial states map to initial states.
LEMMA AbstractInit == Init => Abstract!Init
BY ClusterSyncAssumption DEF Init, Abstract!Init

\* Every step maps to a step of the abstract barrier or to a stutter.
LEMMA AbstractStep ==
  IInv /\ IInv' /\ [Next]_vars => [Abstract!Next]_(Abstract!vars)
<1> SUFFICES ASSUME IInv, IInv', [Next]_vars
             PROVE  [Abstract!Next]_(Abstract!vars)
  OBVIOUS
<1>1. CASE \E m \in up : RecvTimeStamp(m) \/ RecvTimeQuery(m) \/ RecvTerminate(m)
  <2>1. PICK m \in up : RecvTimeStamp(m) \/ RecvTimeQuery(m) \/ RecvTerminate(m)
    BY <1>1
  <2>2. /\ m.node \in Nodes
        /\ members' = members \union {m.node}
        /\ members' \subseteq Nodes
        /\ UNCHANGED time
    BY <2>1, RegisteringStep
  <2>3. \A n \in Nodes : simtime'[n] \in Nat /\ simtime'[n] <= time[n] /\ time[n] \in Nat
    BY <2>1, RegisteringStep DEF IInv, TypeOK
  <2>4. \/ nextgt' = nextgt
        \/ (\A n \in members' : time[n] >= nextgt) /\ nextgt' > nextgt
    <3>1. \/ nextgt' = nextgt
          \/ (\A n \in members' : simtime'[n] >= nextgt) /\ nextgt' > nextgt
      BY <2>1, RegisteringStep
    <3>2. nextgt \in Nat
      BY DEF IInv, TypeOK
    <3> QED
      BY <2>2, <2>3, <3>1, <3>2
  <2>5. CASE RecvTerminate(m)
    <3>1. Abstract!Close(m.node)
      BY <2>2, <2>5 DEF RecvTerminate, Abstract!Close
    <3> QED
      BY <2>2, <3>1 DEF Abstract!Next
  <2>6. CASE RecvTimeStamp(m) \/ RecvTimeQuery(m)
    <3>1. Abstract!Report(m.node)
      BY <2>2, <2>4, <2>6 DEF RecvTimeStamp, RecvTimeQuery, Abstract!Report
    <3> QED
      BY <2>2, <3>1 DEF Abstract!Next
  <2> QED
    BY <2>1, <2>5, <2>6
<1>2. CASE ~ \E m \in up : RecvTimeStamp(m) \/ RecvTimeQuery(m) \/ RecvTerminate(m)
  <2>1. /\ nextgt' = nextgt /\ med_up' = med_up
        /\ members' = members \/ \E n \in Nodes : PortChange(n)
        /\ time' = time \/ \E n \in Nodes : Run(n) /\ members' = members
    BY <1>2, OtherStep
  <2>2. ASSUME NEW n \in Nodes, PortChange(n) PROVE Abstract!Leave(n)
    BY <2>1, <2>2 DEF PortChange, nodeVars, Abstract!Leave
  <2>3. ASSUME NEW n \in Nodes, Run(n), members' = members PROVE Abstract!Move(n)
    <3>1. time' = [time EXCEPT ![n] = time'[n]] /\ time'[n] > time[n]
      BY <2>3 DEF Run, IInv, TypeOK
    <3>2. med_up => time'[n] <= Abstract!Limit + Overshoot
      BY <2>1 DEF IInv, Confined, FarLimit, Abstract!Limit
    <3> QED
      BY <2>1, <2>3, <3>1, <3>2 DEF Abstract!Move
  <2> QED
    BY <2>1, <2>2, <2>3 DEF Abstract!Next, Abstract!vars
<1> QED
  BY <1>1, <1>2

\* The protocol implements the barrier that QuantumBarrier promises: the
\* horizon moves only when every registered node has really reached it.
THEOREM Refinement == Spec => ImplementsBarrier
BY AbstractInit, AbstractStep, Invariance, PTL
   DEF Spec, ImplementsBarrier, Abstract!Spec

-----------------------------------------------------------------------------
(***************************************************************************)
(* The callbacks of a node                                                 *)
(*                                                                         *)
(* ClusterSync lets a callback come late, but by no more than Overshoot.   *)
(* That is what the CallMe wheel of a node (Sampling) has to keep, though  *)
(* the network shares it with the samples: when the emulator is Late at    *)
(* most, nothing on the wheel waits longer.  A simulation sample whose     *)
(* callback was missed breaks it, and it only.                             *)
(***************************************************************************)

Entry == [at : Nat, who : {"sample", "net"}]

On(who) == \E i \in 1..Len(wheel) : wheel[i].who = who
Called(who) == \E i \in 1..Len(calls) : calls[i] = who

\* what the handlers on the stack have still to do
Stacks == {<<>>, <<"endQuantum">>, <<"finish">>, <<"endQuantum", "finish">>,
           <<"finish", "finish">>, <<"endQuantum", "finish", "finish">>}

\* An instruction in the rings breaks a sample once, before the handlers nest.
Stack ==
  /\ work \in Stacks
  /\ zone => zones > 0 /\ work \in {<<>>, <<"endQuantum">>, <<"endQuantum", "finish">>}
  /\ status # "run" => work = <<>>
  /\ status = "new" => calls = <<>>

Sorted == \A i, j \in 1..Len(wheel) : i < j => wheel[i].at <= wheel[j].at

\* The emulator was asked for the first time on the wheel, or for an earlier one.
Alarmed == wheel # <<>> => (\E a \in alarms : a <= wheel[1].at) \/ Missed

NetKept == status \in {"new", "run"} => On("net") \/ Called("net")

\* No callback has waited on the wheel for longer than Late.
Prompt == Missed \/ \A i \in 1..Len(wheel) : now <= wheel[i].at + Late

WheelInv == SamplingTypeOK /\ Stack /\ Sorted /\ Alarmed /\ NetKept /\ Prompt

-----------------------------------------------------------------------------
\* The wheel as a sequence

LEMMA Least ==
  ASSUME NEW T \in SUBSET Nat, T # {}
  PROVE  \E x \in T : \A y \in T : x <= y
<1>1. PICK x \in T : \A y \in T : ~ (<<y, x>> \in OpToRel(<, Nat))
  BY NatLessThanWellFounded, WFMin
<1>2. \A y \in T : ~(y < x)
  BY <1>1 DEF OpToRel
<1> QED
  BY <1>2

LEMMA MaxIn ==
  ASSUME NEW T, T # {}, NEW b \in Nat, T \subseteq 0..b
  PROVE  Max(T) \in T /\ \A y \in T : y <= Max(T)
<1> DEFINE above == {u \in Nat : \A y \in T : y <= u}
<1>1. b \in above
  OBVIOUS
<1>2. PICK u \in above : \A v \in above : u <= v
  <2>1. above \in SUBSET Nat /\ above # {}
    BY <1>1
  <2> HIDE DEF above
  <2> QED
    BY <2>1, Least
<1>3. u \in T
  <2> SUFFICES ASSUME u \notin T PROVE FALSE
    OBVIOUS
  <2>1. \A y \in T : y \in Nat /\ y <= u - 1 /\ u - 1 \in Nat
    BY <1>2
  <2>2. u - 1 \in above
    BY <2>1
  <2> QED
    BY <1>2, <2>2
<1>4. \A y \in T : u >= y
  BY <1>2
<1> QED
  BY <1>3, <1>4 DEF Max

\* upper_bound cuts the wheel in two.
LEMMA UpperBoundIs ==
  ASSUME wheel \in Seq(Entry), Sorted, NEW t \in Nat
  PROVE  /\ UpperBound(t) \in 0..Len(wheel)
         /\ \A i \in 1..UpperBound(t) : wheel[i].at <= t
         /\ \A i \in (UpperBound(t) + 1)..Len(wheel) : t < wheel[i].at
<1> DEFINE early == {0} \union {i \in DOMAIN wheel : wheel[i].at <= t}
           k == UpperBound(t)
<1>1. Len(wheel) \in Nat /\ early \subseteq 0..Len(wheel)
  OBVIOUS
<1>2. k \in early /\ \A i \in early : i <= k
  <2>1. early # {}
    OBVIOUS
  <2> HIDE DEF early
  <2>2. Max(early) \in early /\ \A i \in early : i <= Max(early)
    BY <1>1, <2>1, MaxIn
  <2> QED
    BY <2>2 DEF UpperBound, early
<1> HIDE DEF k
<1>3. \A i \in 1..Len(wheel) : wheel[i].at \in Nat
  <2>1. \A i \in 1..Len(wheel) : wheel[i] \in Entry
    OBVIOUS
  <2> QED
    BY <2>1 DEF Entry
<1>4. ASSUME NEW i \in 1..k PROVE wheel[i].at <= t
  <2>1. k \in 1..Len(wheel) /\ wheel[k].at <= t
    BY <1>1, <1>2
  <2>2. i \in 1..Len(wheel) /\ (i = k \/ i < k)
    BY <1>1, <2>1
  <2>3. wheel[i].at <= wheel[k].at
    BY <2>1, <2>2, <1>3 DEF Sorted
  <2> QED
    BY <2>1, <2>2, <2>3, <1>3
<1>5. ASSUME NEW i \in (k + 1)..Len(wheel) PROVE t < wheel[i].at
  <2>1. i \in 1..Len(wheel) /\ i \notin early
    BY <1>1, <1>2
  <2> QED
    BY <2>1, <1>3
<1> QED
  BY <1>1, <1>2, <1>4, <1>5 DEF k

\* A callback is put behind those that are not later.
LEMMA LaterIs ==
  ASSUME wheel \in Seq(Entry), Sorted, NEW when \in Nat, NEW who \in {"sample", "net"},
         Later(when, who)
  PROVE  \E k \in 0..Len(wheel) :
           /\ wheel' \in Seq(Entry) /\ Len(wheel') = Len(wheel) + 1
           /\ \A i \in 1..k : wheel'[i] = wheel[i] /\ wheel[i].at <= when
           /\ wheel'[k + 1] = Callback(when, who)
           /\ \A i \in (k + 1)..Len(wheel) : wheel'[i + 1] = wheel[i] /\ when < wheel[i].at
<1> DEFINE k == UpperBound(when)
           e == Callback(when, who)
           before == SubSeq(wheel, 1, k)
           after == SubSeq(wheel, k + 1, Len(wheel))
<1>1. /\ k \in 0..Len(wheel)
      /\ \A i \in 1..k : wheel[i].at <= when
      /\ \A i \in (k + 1)..Len(wheel) : when < wheel[i].at
  BY UpperBoundIs
<1>2. wheel' = before \o <<e>> \o after
  <2>1. wheel' = InsertAt(wheel, k + 1, e) /\ (k + 1) - 1 = k
    BY <1>1 DEF Later
  <2> QED
    BY <2>1 DEF InsertAt
<1> HIDE DEF k
<1>3. e \in Entry
  BY DEF Callback, Entry
<1>4. /\ before \in Seq(Entry) /\ Len(before) = k
      /\ \A i \in 1..k : before[i] = wheel[i]
  <2>1. \A i \in 1..k : wheel[i] \in Entry
    BY <1>1
  <2> QED
    BY <1>1, <2>1, SubSeqProperties
<1>5. /\ after \in Seq(Entry) /\ Len(after) = Len(wheel) - k
      /\ \A i \in 1..(Len(wheel) - k) : after[i] = wheel[k + i]
  <2>1. \A i \in (k + 1)..Len(wheel) : wheel[i] \in Entry
    BY <1>1
  <2>2. /\ SubSeq(wheel, k + 1, Len(wheel)) \in Seq(Entry)
        /\ Len(SubSeq(wheel, k + 1, Len(wheel)))
           = IF k + 1 <= Len(wheel) THEN Len(wheel) - (k + 1) + 1 ELSE 0
        /\ \A i \in 1..(Len(wheel) - (k + 1) + 1) :
             SubSeq(wheel, k + 1, Len(wheel))[i] = wheel[(k + 1) + i - 1]
    BY <1>1, <2>1, SubSeqProperties
  <2> QED
    BY <1>1, <2>2
<1> HIDE DEF e, before, after
<1> DEFINE start2 == before \o <<e>>
<1>6. /\ start2 \in Seq(Entry) /\ Len(start2) = k + 1
      /\ \A i \in 1..k : start2[i] = wheel[i]
      /\ start2[k + 1] = e
  <2>1. start2 = Append(before, e)
    BY <1>3, <1>4, AppendIsConcat
  <2> QED
    BY <1>3, <1>4, <2>1, AppendProperties
<1>7. wheel' = start2 \o after
  BY <1>2
<1> HIDE DEF start2
<1>8. /\ wheel' \in Seq(Entry) /\ Len(wheel') = Len(wheel) + 1
      /\ \A i \in 1..(k + 1) : wheel'[i] = start2[i]
      /\ \A i \in (k + 2)..(Len(wheel) + 1) : wheel'[i] = after[i - (k + 1)]
  <2>1. /\ start2 \o after \in Seq(Entry)
        /\ Len(start2 \o after) = Len(start2) + Len(after)
        /\ \A i \in 1..(Len(start2) + Len(after)) : (start2 \o after)[i] =
             IF i <= Len(start2) THEN start2[i] ELSE after[i - Len(start2)]
    BY <1>5, <1>6, ConcatProperties
  <2> QED
    BY <1>1, <1>5, <1>6, <1>7, <2>1
<1>9. ASSUME NEW i \in (k + 1)..Len(wheel) PROVE wheel'[i + 1] = wheel[i]
  <2>1. i + 1 \in (k + 2)..(Len(wheel) + 1) /\ (i + 1) - (k + 1) = i - k
        /\ i - k \in 1..(Len(wheel) - k) /\ k + (i - k) = i
    BY <1>1
  <2> QED
    BY <1>5, <1>8, <2>1
<1>10. \A i \in 1..k : wheel'[i] = wheel[i]
  BY <1>1, <1>6, <1>8
<1>11. wheel'[k + 1] = Callback(when, who)
  BY <1>1, <1>6, <1>8 DEF e
<1> QED
  BY <1>1, <1>8, <1>9, <1>10, <1>11

-----------------------------------------------------------------------------
\* What is on the wheel

None == \A i \in 1..Len(wheel) : wheel[i].who # "sample"

\* The callback of the sample is there once, at t.
One(t) ==
  \E i \in 1..Len(wheel) :
    /\ wheel[i].at = t
    /\ \A j \in 1..Len(wheel) : wheel[j].who = "sample" <=> j = i

\* After later() the wheel is in order, the emulator asked for its first time,
\* and the callbacks before are there still.
LEMMA LaterKeeps ==
  ASSUME WheelInv, NEW when \in Nat, NEW who \in {"sample", "net"},
         Later(when, who), UNCHANGED now,
         Missed => Missed', when >= now \/ Missed'
  PROVE  /\ wheel' \in Seq(Entry) /\ alarms' \in SUBSET Nat
         /\ Sorted' /\ Alarmed' /\ Prompt'
         /\ (On("net") \/ who = "net") => On("net")'
         /\ who = "sample" /\ None => One(when)'
         /\ who = "net" /\ None => None'
         /\ \A t : who = "net" /\ One(t) => One(t)'
<1>1. wheel \in Seq(Entry) /\ alarms \in SUBSET Nat /\ now \in Nat
  BY DEF WheelInv, SamplingTypeOK, Entry
<1>2. Sorted
  BY DEF WheelInv
<1>3. PICK k \in 0..Len(wheel) :
        /\ wheel' \in Seq(Entry) /\ Len(wheel') = Len(wheel) + 1
        /\ \A i \in 1..k : wheel'[i] = wheel[i] /\ wheel[i].at <= when
        /\ wheel'[k + 1] = Callback(when, who)
        /\ \A i \in (k + 1)..Len(wheel) : wheel'[i + 1] = wheel[i] /\ when < wheel[i].at
  BY <1>1, <1>2, LaterIs
<1>4. Len(wheel) \in Nat /\ \A i \in 1..Len(wheel) : wheel[i] \in Entry /\ wheel[i].at \in Nat
  <2>1. \A i \in 1..Len(wheel) : wheel[i] \in Entry
    BY <1>1
  <2> QED
    BY <1>1, <2>1 DEF Entry
<1>5. wheel'[k + 1].at = when /\ wheel'[k + 1].who = who
  BY <1>3 DEF Callback
<1>6. \A j \in 1..Len(wheel') : \/ j \in 1..k /\ j \in 1..Len(wheel) /\ wheel'[j] = wheel[j]
                               \/ j = k + 1
                               \/ /\ j - 1 \in (k + 1)..Len(wheel) /\ j - 1 \in 1..Len(wheel)
                                  /\ wheel'[j] = wheel[j - 1]
  <2> SUFFICES ASSUME NEW j \in 1..Len(wheel'), j > k + 1
               PROVE  wheel'[j] = wheel[j - 1] /\ j - 1 \in (k + 1)..Len(wheel)
    BY <1>3, <1>4
  <2>1. j - 1 \in (k + 1)..Len(wheel) /\ (j - 1) + 1 = j
    BY <1>3, <1>4
  <2> QED
    BY <1>3, <2>1
<1>7. Sorted'
  <2> SUFFICES ASSUME NEW i \in 1..Len(wheel'), NEW j \in 1..Len(wheel'), i < j
               PROVE  wheel'[i].at <= wheel'[j].at
    BY DEF Sorted
  <2>1. CASE i \in 1..k /\ i \in 1..Len(wheel) /\ wheel'[i] = wheel[i]
    <3>1. CASE j \in 1..k /\ j \in 1..Len(wheel) /\ wheel'[j] = wheel[j]
      BY <1>2, <2>1, <3>1 DEF Sorted
    <3>2. CASE j = k + 1
      BY <1>3, <1>5, <2>1, <3>2
    <3>3. CASE /\ j - 1 \in (k + 1)..Len(wheel) /\ j - 1 \in 1..Len(wheel)
               /\ wheel'[j] = wheel[j - 1]
      BY <1>2, <2>1, <3>3 DEF Sorted
    <3> QED
      BY <1>6, <3>1, <3>2, <3>3
  <2>2. CASE i = k + 1
    <3>1. j - 1 \in (k + 1)..Len(wheel) /\ wheel'[j] = wheel[j - 1]
      BY <1>6, <2>2
    <3> QED
      BY <1>3, <1>4, <1>5, <2>2, <3>1
  <2>3. CASE /\ i - 1 \in (k + 1)..Len(wheel) /\ i - 1 \in 1..Len(wheel)
             /\ wheel'[i] = wheel[i - 1]
    <3>1. j - 1 \in 1..Len(wheel) /\ wheel'[j] = wheel[j - 1]
      BY <1>6, <2>3
    <3> QED
      BY <1>2, <2>3, <3>1 DEF Sorted
  <2> QED
    BY <1>6, <2>1, <2>2, <2>3
<1>8. alarms' = IF Head(wheel').at < now THEN alarms ELSE alarms \union {Head(wheel').at}
  <2>1. wheel' # <<>>
    BY <1>3, <1>4
  <2> QED
    BY <2>1 DEF Later, Subscribed
<1>9. Head(wheel') = wheel'[1]
  BY <1>3, <1>4
<1>10. wheel'[1].at \in Nat
  <2>1. wheel'[1] \in Entry
    BY <1>3, <1>4
  <2> QED
    BY <2>1 DEF Entry
<1>11. Alarmed'
  <2>1. CASE k = 0
    BY <1>1, <1>5, <1>8, <1>9, <2>1 DEF Alarmed
  <2>2. CASE k # 0
    <3>1. 1 \in 1..k /\ wheel # <<>>
      BY <1>4, <2>2
    <3>2. wheel'[1] = wheel[1]
      BY <1>3, <3>1
    <3>3. alarms \subseteq alarms'
      BY <1>8
    <3> QED
      BY <3>1, <3>2, <3>3 DEF WheelInv, Alarmed
  <2> QED
    BY <2>1, <2>2
<1>12. Prompt'
  <2> SUFFICES ASSUME ~Missed', NEW j \in 1..Len(wheel') PROVE now <= wheel'[j].at + Late
    BY DEF Prompt
  <2>1. \A i \in 1..Len(wheel) : now <= wheel[i].at + Late
    BY DEF WheelInv, Prompt
  <2>2. now <= when + Late
    BY <1>1, SamplingAssumption
  <2> QED
    BY <1>5, <1>6, <2>1, <2>2
<1>13. alarms' \in SUBSET Nat
  BY <1>1, <1>8, <1>9, <1>10
<1>14. k + 1 \in 1..Len(wheel')
  BY <1>3, <1>4
<1>15. \A i \in 1..Len(wheel) :
         \E j \in 1..Len(wheel') : wheel'[j] = wheel[i] /\ ((j = i /\ i <= k) \/ (j = i + 1 /\ i > k))
  <2> TAKE i \in 1..Len(wheel)
  <2>1. CASE i <= k
    <3>1. i \in 1..k /\ i \in 1..Len(wheel')
      BY <1>3, <1>4, <2>1
    <3>2. wheel'[i] = wheel[i]
      BY <1>3, <3>1
    <3> QED
      BY <2>1, <3>1, <3>2
  <2>2. CASE i > k
    <3>1. i + 1 \in 1..Len(wheel') /\ i \in (k + 1)..Len(wheel)
      BY <1>3, <1>4, <2>2
    <3>2. wheel'[i + 1] = wheel[i]
      BY <1>3, <3>1
    <3> QED
      BY <2>2, <3>1, <3>2
  <2> QED
    BY <1>3, <1>4, <2>1, <2>2
<1>16. /\ (On("net") \/ who = "net") => On("net")'
  BY <1>5, <1>14, <1>15 DEF On
<1>17. who = "sample" /\ None => One(when)'
  BY <1>5, <1>6, <1>14 DEF None, One
<1>18. who = "net" /\ None => None'
  BY <1>5, <1>6 DEF None
<1>19. ASSUME NEW t, who = "net", One(t) PROVE One(t)'
  <2>1. PICK i \in 1..Len(wheel) :
          /\ wheel[i].at = t
          /\ \A j \in 1..Len(wheel) : wheel[j].who = "sample" <=> j = i
    BY <1>19 DEF One
  <2>2. PICK m \in 1..Len(wheel') :
          wheel'[m] = wheel[i] /\ ((m = i /\ i <= k) \/ (m = i + 1 /\ i > k))
    BY <1>15
  <2>3. ASSUME NEW j \in 1..Len(wheel') PROVE wheel'[j].who = "sample" <=> j = m
    <3>1. CASE j \in 1..k /\ j \in 1..Len(wheel) /\ wheel'[j] = wheel[j]
      BY <2>1, <2>2, <3>1
    <3>2. CASE j = k + 1
      BY <1>4, <1>5, <1>19, <2>1, <2>2, <3>2
    <3>3. CASE /\ j - 1 \in (k + 1)..Len(wheel) /\ j - 1 \in 1..Len(wheel)
               /\ wheel'[j] = wheel[j - 1]
      BY <1>4, <2>1, <2>2, <3>3
    <3> QED
      BY <1>6, <3>1, <3>2, <3>3
  <2> QED
    BY <2>1, <2>2, <2>3 DEF One
<1> QED
  BY <1>3, <1>7, <1>11, <1>12, <1>13, <1>16, <1>17, <1>18, <1>19

-----------------------------------------------------------------------------
\* The stack and the samplers

LEMMA StackIs ==
  /\ EndSample \o <<>> = <<"endQuantum", "finish">>
  /\ EndSample \o <<"finish">> = <<"endQuantum", "finish", "finish">>
  /\ Tail(<<"endQuantum">>) = <<>> /\ Tail(<<"finish">>) = <<>>
  /\ Tail(<<"endQuantum", "finish">>) = <<"finish">>
  /\ Tail(<<"finish", "finish">>) = <<"finish">>
  /\ Tail(<<"endQuantum", "finish", "finish">>) = <<"finish", "finish">>
  /\ Head(<<"endQuantum">>) = "endQuantum" /\ Head(<<"finish">>) = "finish"
  /\ Head(<<"endQuantum", "finish">>) = "endQuantum"
  /\ Head(<<"finish", "finish">>) = "finish"
  /\ Head(<<"endQuantum", "finish", "finish">>) = "endQuantum"
<1>1. EndSample \o <<>> = <<"endQuantum", "finish">>
  BY DEF EndSample
<1>2. EndSample \o <<"finish">> = <<"endQuantum", "finish", "finish">>
  <2> DEFINE a == EndSample \o <<"finish">>
             b == <<"endQuantum", "finish", "finish">>
             T == {"endQuantum", "finish"}
  <2>1. a \in Seq(T) /\ Len(a) = 3 /\ a[1] = "endQuantum" /\ a[2] = "finish" /\ a[3] = "finish"
    BY DEF EndSample
  <2>2. b \in Seq(T) /\ Len(b) = 3 /\ b[1] = "endQuantum" /\ b[2] = "finish" /\ b[3] = "finish"
    OBVIOUS
  <2> HIDE DEF a, b
  <2>3. a = [i \in 1..3 |-> a[i]] /\ b = [i \in 1..3 |-> b[i]]
    BY <2>1, <2>2
  <2>4. \A i \in 1..3 : a[i] = b[i]
    BY <2>1, <2>2
  <2>5. a = b
    BY <2>3, <2>4
  <2> QED
    BY <2>5 DEF a, b
<1> QED
  BY <1>1, <1>2

LEMMA StacksDiffer ==
  /\ <<"endQuantum">> # <<>> /\ <<"finish">> # <<>>
  /\ <<"endQuantum", "finish">> # <<>> /\ <<"finish", "finish">> # <<>>
  /\ <<"endQuantum", "finish", "finish">> # <<>>
  /\ <<"finish">> # <<"finish", "finish">>
  /\ <<"endQuantum">> # <<"endQuantum", "finish">>
  /\ <<"endQuantum">> # <<"endQuantum", "finish", "finish">>
  /\ <<"endQuantum", "finish">> # <<"endQuantum", "finish", "finish">>
OBVIOUS

LEMMA StacksType ==
  ASSUME NEW w \in Stacks PROVE w \in Seq({"endQuantum", "finish"}) /\ Len(w) <= 3
<1>1. CASE w = <<>>
  BY <1>1
<1>2. CASE w = <<"endQuantum">>
  BY <1>2
<1>6. CASE w = <<"finish">>
  BY <1>6
<1>3. CASE w = <<"endQuantum", "finish">>
  BY <1>3
<1>4. CASE w = <<"finish", "finish">>
  BY <1>4
<1>5. CASE w = <<"endQuantum", "finish", "finish">>
  BY <1>5
<1> QED
  BY <1>1, <1>2, <1>3, <1>4, <1>5, <1>6 DEF Stacks

\* What a sampler answers: simulation samples take time.
LEMMA Durations ==
  ASSUME NEW s \in Samplers, NEW st \in States, NEW c \in changeState(s, st)
  PROVE  /\ c[1] \in States /\ c[2] \in Nat
         /\ c[1] = "SIMULATION" => c[2] > 0
<1> DEFINE Fine(x) == x[1] \in States /\ x[2] \in Nat /\ (x[1] = "SIMULATION" => x[2] > 0)
<1>1. /\ s.kind \in {"simple", "no_timing", "interval", "smarts", "dynamic"}
      /\ s.functional \subseteq Nat /\ s.warming \in Nat \ {0}
      /\ s.simulation \in Nat \ {0}
  BY SamplingAssumption
<1>2. \A x \in Functional(s) : Fine(x)
  BY <1>1 DEF Functional, States
<1>3. \A x \in Simple(s, st) : Fine(x)
  BY <1>1 DEF Simple, States
<1>4. \A t \in States : \A x \in Interval(s, t) : Fine(x)
  BY <1>1, <1>2 DEF Interval, States
<1>5. \A x \in Smarts(s, st) : Fine(x)
  BY <1>1 DEF Smarts, States
<1>6. \A x \in Dynamic(s, st) : Fine(x)
  BY <1>2, <1>4 DEF Dynamic
<1>7. Fine(c)
  BY <1>1, <1>2, <1>3, <1>4, <1>5, <1>6 DEF changeState, NoTiming
<1> QED
  BY <1>7

-----------------------------------------------------------------------------
\* callme

\* when the sample of state st ends that is to last d
End(st, d) == IF st = "SIMULATION" /\ next_sample # 0 THEN next_sample ELSE now + d

LEMMA CallmeIs ==
  ASSUME WheelInv, NEW st \in States, NEW d \in Nat, NEW rest, Callme(st, d, rest)
  PROVE  /\ End(st, d) \in Nat
         /\ \/ /\ End(st, d) = now
               /\ work' = EndSample \o rest /\ UNCHANGED clock
               /\ next_sample' = IF st = "SIMULATION" THEN 0 ELSE next_sample
            \/ /\ End(st, d) # now
               /\ work' = rest /\ Later(End(st, d), "sample")
               /\ next_sample' = IF st = "SIMULATION" THEN End(st, d) ELSE next_sample
<1>1. now \in Nat /\ next_sample \in Nat
  BY DEF WheelInv, SamplingTypeOK
<1>2. CASE st # "SIMULATION"
  BY <1>1, <1>2 DEF Callme, End
<1>3. CASE st = "SIMULATION"
  BY <1>1, <1>3 DEF Callme, End
<1> QED
  BY <1>2, <1>3

\* What is on the wheel after callme.
LEMMA CallmeKeeps ==
  ASSUME WheelInv, NEW st \in States, NEW d \in Nat, NEW rest, Callme(st, d, rest),
         UNCHANGED now
  PROVE  /\ next_sample' \in Nat /\ (Missed => Missed')
         /\ wheel' \in Seq(Entry) /\ alarms' \in SUBSET Nat
         /\ Sorted' /\ Alarmed' /\ Prompt' /\ (On("net") => On("net")')
         /\ work' \in {rest, EndSample \o rest}
<1>1. now \in Nat /\ next_sample \in Nat
  BY DEF WheelInv, SamplingTypeOK
<1>2. /\ End(st, d) \in Nat
      /\ \/ /\ End(st, d) = now
            /\ work' = EndSample \o rest /\ UNCHANGED clock
            /\ next_sample' = IF st = "SIMULATION" THEN 0 ELSE next_sample
         \/ /\ End(st, d) # now
            /\ work' = rest /\ Later(End(st, d), "sample")
            /\ next_sample' = IF st = "SIMULATION" THEN End(st, d) ELSE next_sample
  BY CallmeIs
<1>3. Missed => Missed'
  BY <1>1, <1>2 DEF Missed, End
<1>4. CASE End(st, d) = now
  <2>1. UNCHANGED <<wheel, alarms, now>>
    BY <1>2, <1>4 DEF clock
  <2>2. wheel \in Seq(Entry) /\ alarms \in SUBSET Nat
    BY DEF WheelInv, SamplingTypeOK, Entry
  <2>3. Sorted'
    BY <2>1 DEF WheelInv, Sorted
  <2>4. Alarmed' /\ Prompt'
    BY <2>1, <1>3 DEF WheelInv, Alarmed, Prompt
  <2>5. On("net") => On("net")'
    BY <2>1 DEF On
  <2> QED
    BY <1>1, <1>2, <1>3, <1>4, <2>1, <2>2, <2>3, <2>4, <2>5
<1>5. CASE End(st, d) # now
  <2>1. End(st, d) >= now \/ Missed'
    BY <1>1, <1>2, <1>5 DEF Missed, End
  <2>2. Later(End(st, d), "sample")
    BY <1>2, <1>5
  <2>3. /\ wheel' \in Seq(Entry) /\ alarms' \in SUBSET Nat
        /\ Sorted' /\ Alarmed' /\ Prompt' /\ (On("net") => On("net")')
    BY <1>2, <1>3, <2>1, <2>2, LaterKeeps
  <2> QED
    BY <1>1, <1>2, <1>3, <1>5, <2>3
<1> QED
  BY <1>4, <1>5

LEMMA StartSampleKeeps ==
  ASSUME WheelInv, NEW rest \in {<<>>, <<"finish">>}, zone => rest = <<>>,
         StartSample(rest), UNCHANGED <<now, calls, zone, zones, broken>>,
         samples' \in Nat, status \in {"new", "run"}
  PROVE  WheelInv'
<1> DEFINE choices == changeState(sampler, sim_state)
<1>1. sampler \in Samplers /\ sim_state \in States
  BY DEF WheelInv, SamplingTypeOK
<1>2. CASE choices = {}
  <2>1. status' = "error" /\ work' = <<>> /\ UNCHANGED <<sample, clock, now, calls, zone, zones, broken>>
    BY <1>2 DEF StartSample
  <2>2. <<>> \in Stacks /\ <<>> \in Seq({"endQuantum", "finish"}) /\ Len(<<>>) <= 3
    BY StacksType DEF Stacks
  <2>3. SamplingTypeOK'
    BY <2>1, <2>2 DEF WheelInv, SamplingTypeOK, sample, clock
  <2>4. Stack'
    BY <2>1, <2>2 DEF WheelInv, Stack
  <2>5. Sorted' /\ Alarmed' /\ NetKept' /\ Prompt'
    BY <2>1 DEF WheelInv, Sorted, Alarmed, NetKept, Prompt, Missed, sample, clock
  <2> QED
    BY <2>3, <2>4, <2>5 DEF WheelInv
<1>3. CASE choices # {}
  <2>1. PICK c \in choices :
          /\ sim_state' = c[1] /\ start' = now /\ len' = c[2]
          /\ Callme(c[1], c[2], rest)
          /\ nfunctional' = IF sim_state = "SIMULATION" THEN 0
                            ELSE IF sim_state = "FUNCTIONAL"
                            THEN nfunctional + 1 ELSE nfunctional
          /\ status' = "run" /\ UNCHANGED sampler
    BY <1>3 DEF StartSample
  <2>2. c[1] \in States /\ c[2] \in Nat
    BY <1>1, Durations
  <2>3. /\ next_sample' \in Nat
        /\ wheel' \in Seq(Entry) /\ alarms' \in SUBSET Nat
        /\ Sorted' /\ Alarmed' /\ Prompt' /\ (On("net") => On("net")')
        /\ work' \in {rest, EndSample \o rest}
    BY <2>1, <2>2, CallmeKeeps
  <2>4. /\ work' \in Stacks
        /\ rest = <<>> => work' \in {<<>>, <<"endQuantum", "finish">>}
    BY <2>3, StackIs DEF Stacks
  <2>5. Stack'
    BY <2>1, <2>4 DEF WheelInv, Stack
  <2>6. SamplingTypeOK'
    <3>1. work' \in Seq({"endQuantum", "finish"}) /\ Len(work') <= 3
      BY <2>4, StacksType
    <3>2. nfunctional' \in Nat
      BY <2>1 DEF WheelInv, SamplingTypeOK
    <3> QED
      BY <2>1, <2>2, <2>3, <3>1, <3>2 DEF WheelInv, SamplingTypeOK, Entry
  <2>7. NetKept'
    <3>1. On("net") \/ Called("net")
      BY DEF WheelInv, NetKept
    <3> QED
      BY <2>3, <3>1 DEF NetKept, Called
  <2> QED
    BY <2>3, <2>5, <2>6, <2>7 DEF WheelInv
<1> QED
  BY <1>2, <1>3

-----------------------------------------------------------------------------
\* The wheel's invariant

LEMMA InitWheel == SamplingInit => WheelInv
<1> SUFFICES ASSUME SamplingInit PROVE WheelInv
  OBVIOUS
<1> USE SamplingAssumption
<1>1. wheel = <<[at |-> NetQ, who |-> "net"]>>
  BY DEF SamplingInit, Callback
<1>2. /\ wheel \in Seq(Entry) /\ Len(wheel) = 1
      /\ wheel[1].at = NetQ /\ wheel[1].who = "net"
  BY <1>1 DEF Entry
<1>3. sim_state \in States
  BY DEF SamplingInit, preState, States
<1>4. work = <<>> /\ work \in Stacks /\ work \in Seq({"endQuantum", "finish"}) /\ Len(work) <= 3
  BY StacksType DEF SamplingInit, Stacks
<1>5. SamplingTypeOK
  <2>1. wheel \in Seq([at : Nat, who : {"sample", "net"}]) /\ alarms \subseteq Nat
        /\ calls \in Seq({"sample", "net"})
    BY <1>2 DEF SamplingInit, Entry
  <2>2. /\ now \in 0..MaxTime /\ sampler \in Samplers /\ nfunctional \in Nat
        /\ next_sample \in Nat /\ start \in 0..MaxTime /\ len \in Nat
    BY DEF SamplingInit
  <2>3. zones \in 0..Zones
    BY DEF SamplingInit
  <2>4. zone \in BOOLEAN /\ broken \in BOOLEAN
    BY DEF SamplingInit
  <2>5. samples \in Nat /\ status \in {"new", "run", "end", "error"}
    BY DEF SamplingInit
  <2> QED
    BY <1>3, <1>4, <2>1, <2>2, <2>3, <2>4, <2>5 DEF SamplingTypeOK
<1>6. Stack
  BY <1>4 DEF SamplingInit, Stack
<1>7. Sorted /\ Alarmed /\ NetKept /\ Prompt
  BY <1>2 DEF SamplingInit, Sorted, Alarmed, NetKept, On, Prompt
<1> QED
  BY <1>5, <1>6, <1>7 DEF WheelInv

\* hey takes the callbacks up to now and asks for the next.
LEMMA HeyTakes ==
  ASSUME WheelInv, Hey
  PROVE  \E k \in 0..Len(wheel) :
           /\ calls' \in Seq({"sample", "net"}) /\ Len(calls') = k
           /\ \A i \in 1..k : calls'[i] = wheel[i].who /\ wheel[i].at <= now
           /\ wheel' \in Seq(Entry) /\ Len(wheel') = Len(wheel) - k
           /\ \A i \in 1..(Len(wheel) - k) : wheel'[i] = wheel[k + i] /\ now < wheel'[i].at
<1> DEFINE k == UpperBound(now)
<1>1. wheel \in Seq(Entry) /\ now \in Nat /\ Sorted
  BY DEF WheelInv, SamplingTypeOK, Entry
<1>2. /\ k \in 0..Len(wheel)
      /\ \A i \in 1..k : wheel[i].at <= now
      /\ \A i \in (k + 1)..Len(wheel) : now < wheel[i].at
  BY <1>1, UpperBoundIs
<1>3. /\ calls' = [i \in 1..k |-> wheel[i].who]
      /\ wheel' = SubSeq(wheel, k + 1, Len(wheel))
  BY DEF Hey
<1> HIDE DEF k
<1>4. Len(wheel) \in Nat /\ \A i \in 1..Len(wheel) : wheel[i] \in Entry
  BY <1>1
<1>5. \A i \in 1..k : wheel[i].who \in {"sample", "net"}
  BY <1>2, <1>4 DEF Entry
<1>6. /\ calls' \in Seq({"sample", "net"}) /\ Len(calls') = k
      /\ \A i \in 1..k : calls'[i] = wheel[i].who
  BY <1>2, <1>3, <1>5
<1>7. /\ wheel' \in Seq(Entry)
      /\ Len(wheel') = IF k + 1 <= Len(wheel) THEN Len(wheel) - (k + 1) + 1 ELSE 0
      /\ \A i \in 1..(Len(wheel) - (k + 1) + 1) : wheel'[i] = wheel[(k + 1) + i - 1]
  <2>1. \A i \in (k + 1)..Len(wheel) : wheel[i] \in Entry
    BY <1>2, <1>4
  <2> QED
    BY <1>2, <1>3, <1>4, <2>1, SubSeqProperties
<1>8. Len(wheel') = Len(wheel) - k
  BY <1>2, <1>4, <1>7
<1>9. \A i \in 1..(Len(wheel) - k) : wheel'[i] = wheel[k + i] /\ now < wheel'[i].at
  <2> TAKE i \in 1..(Len(wheel) - k)
  <2>1. /\ i \in 1..(Len(wheel) - (k + 1) + 1) /\ (k + 1) + i - 1 = k + i
        /\ k + i \in (k + 1)..Len(wheel)
    BY <1>2, <1>4
  <2> QED
    BY <1>2, <1>7, <2>1
<1> QED
  BY <1>2, <1>6, <1>7, <1>8, <1>9

LEMMA HeyWheel == ASSUME WheelInv, Hey PROVE WheelInv'
<1>1. PICK k \in 0..Len(wheel) :
        /\ calls' \in Seq({"sample", "net"}) /\ Len(calls') = k
        /\ \A i \in 1..k : calls'[i] = wheel[i].who /\ wheel[i].at <= now
        /\ wheel' \in Seq(Entry) /\ Len(wheel') = Len(wheel) - k
        /\ \A i \in 1..(Len(wheel) - k) : wheel'[i] = wheel[k + i] /\ now < wheel'[i].at
  BY HeyTakes
<1>2. PICK a \in alarms : a <= now /\ alarms' = Subscribed(wheel') \ {a}
  BY DEF Hey
<1>3. /\ work = <<>> /\ calls = <<>> /\ status = "run"
      /\ UNCHANGED <<now, sample, work, zone, samples, status, zones, broken>>
  BY DEF Hey, Idle
<1>4. /\ wheel \in Seq(Entry) /\ now \in Nat /\ alarms \in SUBSET Nat
      /\ Len(wheel) \in Nat
      /\ \A i \in 1..Len(wheel) : wheel[i].at \in Nat
  <2>1. wheel \in Seq(Entry) /\ now \in Nat /\ alarms \in SUBSET Nat
    BY DEF WheelInv, SamplingTypeOK, Entry
  <2>2. Len(wheel) \in Nat /\ \A i \in 1..Len(wheel) : wheel[i] \in Entry
    BY <2>1
  <2> QED
    BY <2>1, <2>2 DEF Entry
<1>5. \A i \in 1..Len(wheel') : /\ wheel'[i].at \in Nat /\ now < wheel'[i].at
                                /\ k + i \in 1..Len(wheel) /\ wheel'[i] = wheel[k + i]
  BY <1>1, <1>4
<1>6. wheel' # <<>> => /\ wheel'[1].at \in Nat /\ now < wheel'[1].at
                       /\ alarms' = (alarms \union {wheel'[1].at}) \ {a}
  <2> SUFFICES ASSUME wheel' # <<>>
               PROVE  /\ wheel'[1].at \in Nat /\ now < wheel'[1].at
                      /\ alarms' = (alarms \union {wheel'[1].at}) \ {a}
    OBVIOUS
  <2>1. 1 \in 1..Len(wheel') /\ Head(wheel') = wheel'[1]
    BY <1>1
  <2>2. wheel'[1].at \in Nat /\ now < wheel'[1].at
    BY <1>5, <2>1
  <2>3. Subscribed(wheel') = alarms \union {wheel'[1].at}
    BY <1>4, <2>1, <2>2 DEF Subscribed
  <2> QED
    BY <1>2, <2>2, <2>3
<1>7. alarms' \in SUBSET Nat
  <2>1. CASE wheel' = <<>>
    BY <1>2, <1>4, <2>1 DEF Subscribed
  <2>2. CASE wheel' # <<>>
    BY <1>4, <1>6, <2>2
  <2> QED
    BY <2>1, <2>2
<1>8. SamplingTypeOK'
  BY <1>1, <1>3, <1>7 DEF WheelInv, SamplingTypeOK, sample, Entry
<1>9. Stack'
  BY <1>3 DEF WheelInv, Stack
<1>10. Sorted'
  <2> SUFFICES ASSUME NEW i \in 1..Len(wheel'), NEW j \in 1..Len(wheel'), i < j
               PROVE  wheel'[i].at <= wheel'[j].at
    BY DEF Sorted
  <2>1. k + i < k + j
    BY <1>1
  <2> QED
    BY <1>5, <2>1 DEF WheelInv, Sorted
<1>11. Alarmed'
  <2> SUFFICES ASSUME wheel' # <<>> PROVE \E b \in alarms' : b <= wheel'[1].at
    BY DEF Alarmed
  <2>1. wheel'[1].at # a
    BY <1>2, <1>4, <1>6
  <2>2. wheel'[1].at \in alarms' /\ wheel'[1].at \in Nat
    BY <1>6, <2>1
  <2> QED
    BY <2>2
<1>12. Prompt'
  <2>1. Late \in Nat
    BY SamplingAssumption
  <2> QED
    BY <1>3, <1>4, <1>5, <2>1 DEF Prompt
<1>13. NetKept'
  <2>1. On("net")
    BY <1>3 DEF WheelInv, NetKept, Called
  <2>2. PICK i \in 1..Len(wheel) : wheel[i].who = "net"
    BY <2>1 DEF On
  <2>3. CASE i <= k
    <3>1. i \in 1..k /\ i \in 1..Len(calls') /\ calls'[i] = "net"
      BY <1>1, <2>2, <2>3
    <3> QED
      BY <3>1 DEF NetKept, Called
  <2>4. CASE i > k
    <3>1. i - k \in 1..(Len(wheel) - k) /\ k + (i - k) = i
      BY <1>1, <1>4, <2>4
    <3>2. wheel'[i - k] = wheel[i] /\ i - k \in 1..Len(wheel')
      BY <1>1, <3>1
    <3> QED
      BY <2>2, <3>2 DEF NetKept, On
  <2> QED
    BY <1>1, <1>4, <2>3, <2>4
<1> QED
  BY <1>8, <1>9, <1>10, <1>11, <1>12, <1>13 DEF WheelInv

LEMMA CallWheel == ASSUME WheelInv, Call PROVE WheelInv'
<1> USE SamplingAssumption
<1>1. /\ work = <<>> /\ calls # <<>> /\ status = "run"
      /\ calls' = Tail(calls)
      /\ UNCHANGED <<now, zone, samples, status, zones, broken>>
  BY DEF Call
<1>2. calls \in Seq({"sample", "net"}) /\ now \in Nat /\ sim_state \in States
  BY DEF WheelInv, SamplingTypeOK
<1>3. /\ calls' \in Seq({"sample", "net"}) /\ Len(calls') = Len(calls) - 1
      /\ \A i \in 1..Len(calls') : calls'[i] = calls[i + 1]
      /\ Head(calls) = calls[1]
  BY <1>1, <1>2
<1>4. ASSUME Head(calls) # "net", Called("net") PROVE Called("net")'
  <2>1. PICK i \in 1..Len(calls) : calls[i] = "net"
    BY <1>4 DEF Called
  <2>2. i # 1
    BY <1>3, <1>4, <2>1
  <2>3. i - 1 \in 1..Len(calls') /\ (i - 1) + 1 = i
    BY <1>2, <1>3, <2>2
  <2>4. calls'[i - 1] = "net"
    BY <1>3, <2>1, <2>3
  <2> QED
    BY <2>3, <2>4 DEF Called
<1>5. CASE /\ Head(calls) = "sample"
           /\ Callme(sim_state, 0, <<>>)
           /\ UNCHANGED <<sim_state, sampler, nfunctional, start, len>>
  <2>1. /\ next_sample' \in Nat
        /\ wheel' \in Seq(Entry) /\ alarms' \in SUBSET Nat
        /\ Sorted' /\ Alarmed' /\ Prompt' /\ (On("net") => On("net")')
        /\ work' \in {<<>>, EndSample \o <<>>}
    BY <1>1, <1>2, <1>5, CallmeKeeps
  <2>2. work' \in {<<>>, <<"endQuantum", "finish">>} /\ work' \in Stacks
    BY <2>1, StackIs DEF Stacks
  <2>3. SamplingTypeOK'
    <3>1. work' \in Seq({"endQuantum", "finish"}) /\ Len(work') <= 3
      BY <2>2, StacksType
    <3> QED
      BY <1>1, <1>3, <1>5, <2>1, <3>1 DEF WheelInv, SamplingTypeOK, Entry
  <2>4. Stack'
    BY <1>1, <2>2 DEF WheelInv, Stack
  <2>5. NetKept'
    BY <1>1, <1>4, <1>5, <2>1 DEF WheelInv, NetKept
  <2> QED
    BY <2>1, <2>3, <2>4, <2>5 DEF WheelInv
<1>6. CASE Head(calls) = "net" /\ Later(now + NetQ, "net") /\ UNCHANGED <<sample, work>>
  <2>1. now + NetQ \in Nat /\ now + NetQ >= now
    BY <1>2
  <2>2. Missed => Missed'
    BY <1>1, <1>6 DEF Missed, sample
  <2>3. /\ wheel' \in Seq(Entry) /\ alarms' \in SUBSET Nat
        /\ Sorted' /\ Alarmed' /\ Prompt' /\ On("net")'
    BY <1>1, <1>6, <2>1, <2>2, LaterKeeps
  <2>4. SamplingTypeOK'
    BY <1>1, <1>3, <1>6, <2>3 DEF WheelInv, SamplingTypeOK, Entry, sample
  <2>5. Stack'
    BY <1>1, <1>6 DEF WheelInv, Stack
  <2> QED
    BY <2>3, <2>4, <2>5 DEF WheelInv, NetKept
<1> QED
  BY <1>5, <1>6 DEF Call

LEMMA EndQuantumWheel == ASSUME WheelInv, EndQuantum PROVE WheelInv'
<1>1. /\ work # <<>> /\ Head(work) = "endQuantum" /\ zone' = FALSE
      /\ UNCHANGED <<now, clock, calls, sim_state, next_sample, nfunctional, start,
                     len, samples, status>>
  BY DEF EndQuantum
<1>2. /\ work' \in Stacks /\ status = "run"
      /\ sampler' \in Samplers /\ zones' \in 0..Zones /\ broken' \in BOOLEAN
  <2>1. CASE zone
    <3>1. /\ zones' = zones - 1 /\ broken' = TRUE /\ sampler' \in Samplers
          /\ work' = EndSample \o Tail(work)
      BY <2>1 DEF EndQuantum, Change
    <3>2. zones > 0 /\ work \in {<<>>, <<"endQuantum">>, <<"endQuantum", "finish">>}
      BY <2>1 DEF WheelInv, Stack
    <3>3. work' \in Stacks
      BY <1>1, <3>1, <3>2, StackIs DEF Stacks
    <3> QED
      BY <1>1, <3>1, <3>2, <3>3, SamplingAssumption DEF WheelInv, SamplingTypeOK, Stack
  <2>2. CASE ~zone
    <3>1. work' = Tail(work) /\ UNCHANGED <<sampler, zones, broken>>
      BY <2>2 DEF EndQuantum
    <3>2. work' \in Stacks
      BY <1>1, <3>1, StackIs DEF WheelInv, Stack, Stacks
    <3> QED
      BY <1>1, <3>1, <3>2 DEF WheelInv, SamplingTypeOK, Stack
  <2> QED
    BY <2>1, <2>2
<1>3. SamplingTypeOK'
  <2>1. work' \in Seq({"endQuantum", "finish"}) /\ Len(work') <= 3
    BY <1>2, StacksType
  <2> QED
    BY <1>1, <1>2, <2>1 DEF WheelInv, SamplingTypeOK, clock
<1>4. Stack'
  BY <1>1, <1>2 DEF Stack
<1>5. Sorted' /\ Alarmed' /\ NetKept' /\ Prompt'
  BY <1>1 DEF WheelInv, Sorted, Alarmed, NetKept, On, Called, Prompt, Missed, clock
<1> QED
  BY <1>3, <1>4, <1>5 DEF WheelInv

LEMMA FinishWheel == ASSUME WheelInv, Finish PROVE WheelInv'
<1>1. /\ work # <<>> /\ Head(work) = "finish"
      /\ samples' = samples + (IF sim_state = "SIMULATION" THEN 1 ELSE 0)
      /\ UNCHANGED <<now, calls, zone, zones, broken>>
  BY DEF Finish
<1>2. /\ work \in {<<"finish">>, <<"finish", "finish">>}
      /\ Tail(work) \in {<<>>, <<"finish">>} /\ ~zone /\ status = "run"
  <2>1. work \in {<<"finish">>, <<"finish", "finish">>}
    BY <1>1, StackIs DEF WheelInv, Stack, Stacks
  <2>2. zone => work \in {<<>>, <<"endQuantum">>, <<"endQuantum", "finish">>}
    BY DEF WheelInv, Stack
  <2>3. ~zone
    BY <1>1, <2>2, StackIs
  <2> QED
    BY <1>1, <2>1, <2>3, StackIs DEF WheelInv, Stack
<1>3. samples' \in Nat
  BY <1>1 DEF WheelInv, SamplingTypeOK
<1>4. CASE MustEnd(samples')
  <2>1. status' = "end" /\ work' = <<>> /\ UNCHANGED <<sample, clock>>
    BY <1>4 DEF Finish
  <2>2. work' \in Stacks /\ work' \in Seq({"endQuantum", "finish"}) /\ Len(work') <= 3
    BY <2>1, StacksType DEF Stacks
  <2>3. SamplingTypeOK'
    BY <1>1, <1>3, <2>1, <2>2 DEF WheelInv, SamplingTypeOK, clock, sample
  <2>4. Stack'
    BY <1>1, <1>2, <2>1, <2>2 DEF Stack
  <2>5. Sorted' /\ Alarmed' /\ NetKept' /\ Prompt'
    BY <1>1, <2>1 DEF WheelInv, Sorted, Alarmed, NetKept, Prompt, Missed, clock, sample
  <2> QED
    BY <2>3, <2>4, <2>5 DEF WheelInv
<1>5. CASE ~MustEnd(samples')
  <2>1. StartSample(Tail(work))
    BY <1>5 DEF Finish
  <2> QED
    BY <1>1, <1>2, <1>3, <2>1, StartSampleKeeps
<1> QED
  BY <1>4, <1>5

LEMMA StartWheel == ASSUME WheelInv, Start PROVE WheelInv'
<1>1. /\ status = "new" /\ StartSample(<<>>)
      /\ UNCHANGED <<now, calls, zone, samples, zones, broken>>
  BY DEF Start
<1>2. samples' \in Nat
  BY <1>1 DEF WheelInv, SamplingTypeOK
<1> QED
  BY <1>1, <1>2, StartSampleKeeps

\* Time goes on by no more than Late over what the emulator was asked for.
LEMMA TickWheel == ASSUME WheelInv, Tick PROVE WheelInv'
<1> USE SamplingAssumption
<1>1. /\ now' = now + 1 /\ now < MaxTime /\ \A a \in alarms : now < a + Late
      /\ UNCHANGED <<clock, sample, calls, work, zone, samples, status, zones, broken>>
  BY DEF Tick
<1>2. /\ wheel \in Seq(Entry) /\ now \in 0..MaxTime /\ alarms \in SUBSET Nat
      /\ next_sample \in Nat
  BY DEF WheelInv, SamplingTypeOK, Entry
<1>3. SamplingTypeOK'
  BY <1>1, <1>2 DEF WheelInv, SamplingTypeOK, clock, sample
<1>4. Stack' /\ Sorted' /\ NetKept'
  BY <1>1 DEF WheelInv, Stack, Sorted, NetKept, On, Called, clock
<1>5. Missed => Missed'
  BY <1>1, <1>2 DEF Missed, sample
<1>6. Alarmed'
  BY <1>1, <1>5 DEF WheelInv, Alarmed, clock
<1>7. Prompt'
  <2> SUFFICES ASSUME ~Missed, NEW i \in 1..Len(wheel) PROVE now + 1 <= wheel[i].at + Late
    BY <1>1, <1>5 DEF Prompt, clock
  <2>1. 1 \in 1..Len(wheel) /\ wheel # <<>> /\ wheel[i] \in Entry /\ wheel[1] \in Entry
    BY <1>2
  <2>2. wheel[i].at \in Nat /\ wheel[1].at \in Nat
    BY <2>1 DEF Entry
  <2>3. PICK a \in alarms : a <= wheel[1].at
    BY <2>1 DEF WheelInv, Alarmed
  <2>4. wheel[1].at <= wheel[i].at
    BY <2>1, <2>2 DEF WheelInv, Sorted
  <2> QED
    BY <1>1, <1>2, <2>2, <2>3, <2>4
<1> QED
  BY <1>3, <1>4, <1>6, <1>7 DEF WheelInv

LEMMA WheelStep == ASSUME WheelInv, [SamplingNext]_samplingVars PROVE WheelInv'
<1>1. CASE QuantumEnd
  <2>1. /\ work = <<>> /\ status = "run" /\ work' = <<"endQuantum">>
        /\ UNCHANGED <<now, clock, sample, calls, zone, samples, status, zones, broken>>
    BY <1>1 DEF QuantumEnd, Idle
  <2>2. work' \in Stacks /\ work' \in Seq({"endQuantum", "finish"}) /\ Len(work') <= 3
    BY <2>1, StacksType DEF Stacks
  <2>3. SamplingTypeOK'
    BY <2>1, <2>2 DEF WheelInv, SamplingTypeOK, clock, sample
  <2>4. Stack'
    BY <2>1, <2>2 DEF WheelInv, Stack
  <2>5. Sorted' /\ Alarmed' /\ NetKept' /\ Prompt'
    BY <2>1 DEF WheelInv, Sorted, Alarmed, NetKept, On, Called, Prompt, Missed, clock, sample
  <2> QED
    BY <2>3, <2>4, <2>5 DEF WheelInv
<1>2. CASE Zone
  <2>1. /\ work = <<>> /\ status = "run" /\ zones > 0 /\ ~zone
        /\ UNCHANGED <<now, clock, sim_state, next_sample, nfunctional, start, len,
                       calls, samples, status>>
    BY <1>2 DEF Zone, Idle
  <2>2. /\ work' \in {<<>>, <<"endQuantum", "finish">>} /\ zone' \in BOOLEAN
        /\ sampler' \in Samplers /\ zones' \in 0..Zones /\ broken' \in BOOLEAN
        /\ zone' => zones' > 0
    <3>1. CASE sim_state = "FUNCTIONAL"
      BY <1>2, <2>1, <3>1, SamplingAssumption DEF Zone, Change, EndSample, WheelInv, SamplingTypeOK
    <3>2. CASE sim_state # "FUNCTIONAL"
      BY <1>2, <2>1, <3>2 DEF Zone, WheelInv, SamplingTypeOK
    <3> QED
      BY <3>1, <3>2
  <2>3. work' \in Stacks /\ work' \in Seq({"endQuantum", "finish"}) /\ Len(work') <= 3
    <3>1. work' \in Stacks
      BY <2>2 DEF Stacks
    <3> QED
      BY <3>1, StacksType
  <2>4. SamplingTypeOK'
    BY <2>1, <2>2, <2>3 DEF WheelInv, SamplingTypeOK, clock
  <2>5. Stack'
    BY <2>1, <2>2, <2>3 DEF WheelInv, Stack
  <2>6. Sorted' /\ Alarmed' /\ NetKept' /\ Prompt'
    BY <2>1 DEF WheelInv, Sorted, Alarmed, NetKept, On, Called, Prompt, Missed, clock
  <2> QED
    BY <2>4, <2>5, <2>6 DEF WheelInv
<1>3. CASE UNCHANGED samplingVars
  <2>1. UNCHANGED <<now, wheel, alarms, sim_state, next_sample, sampler, nfunctional, start,
                    len, calls, work, zone, samples, status, zones, broken>>
    BY <1>3 DEF samplingVars, clock, sample
  <2>2. SamplingTypeOK' /\ Stack'
    BY <2>1 DEF WheelInv, SamplingTypeOK, Stack
  <2>3. Sorted' /\ Alarmed' /\ NetKept' /\ Prompt'
    BY <2>1 DEF WheelInv, Sorted, Alarmed, NetKept, On, Called, Prompt, Missed
  <2> QED
    BY <2>2, <2>3 DEF WheelInv
<1> QED
  BY <1>1, <1>2, <1>3, HeyWheel, CallWheel, EndQuantumWheel, FinishWheel, StartWheel,
     TickWheel DEF SamplingNext

\* The wheel and the requests to the emulator agree, whatever the samplers, the
\* samples that break and the callbacks that come early, late or twice.
THEOREM WheelInvariance == SamplingSpec => []WheelInv
BY InitWheel, WheelStep, PTL DEF SamplingSpec

\* What a waiting emulator was asked for is the first time on the wheel (hey and
\* subscribe, callme.cpp:29-66); after a missed simulation sample only, it may
\* not be.
THEOREM FirstIsAskedFor == SamplingSpec => []Armed
<1>1. WheelInv => Armed
  <2> SUFFICES ASSUME WheelInv, Idle
               PROVE  wheel # <<>> /\ ((\E a \in alarms : a <= Head(wheel).at) \/ Missed)
    BY DEF WheelInv, Armed
  <2>1. On("net")
    BY DEF WheelInv, NetKept, Called, Idle
  <2>2. wheel # <<>> /\ Head(wheel) = wheel[1]
    BY <2>1 DEF On, WheelInv, SamplingTypeOK
  <2> QED
    BY <2>2 DEF WheelInv, Alarmed
<1> QED
  BY <1>1, WheelInvariance, PTL

\* So the network's callback, with which the node joins the barrier, and the end
\* of a sample come by the lateness of the emulator after their time, however
\* they share the wheel (CallMe::later, callme.cpp:45-55): what Run of
\* ClusterSync takes for granted.
THEOREM CallbacksArePrompt ==
  SamplingSpec => [](Missed \/ \A i \in 1..Len(wheel) : now <= wheel[i].at + Late)
<1>1. WheelInv => Missed \/ \A i \in 1..Len(wheel) : now <= wheel[i].at + Late
  BY DEF WheelInv, Prompt
<1> QED
  BY <1>1, WheelInvariance, PTL

-----------------------------------------------------------------------------
\* The length of a sample that nothing breaks

DueAt == start + len

\* The end of the sample is on the wheel, has been taken off it, or has come.
OnTheWheel ==
  /\ work \in {<<>>, <<"endQuantum">>}
  /\ ~Called("sample") /\ One(DueAt)
  /\ next_sample = IF sim_state = "SIMULATION" THEN DueAt ELSE 0

Taken ==
  /\ work = <<>>
  /\ None
  /\ \E i \in 1..Len(calls) : \A j \in 1..Len(calls) : calls[j] = "sample" <=> j = i
  /\ DueAt <= now
  /\ next_sample = IF sim_state = "SIMULATION" THEN DueAt ELSE 0

Over ==
  /\ work \in {<<"endQuantum", "finish">>, <<"finish">>}
  /\ ~Called("sample") /\ None
  /\ DueAt <= now
  /\ next_sample = 0
  /\ sim_state = "SIMULATION" => DueAt = now

Length ==
  ~broken =>
    /\ status = "new" => None /\ next_sample = 0
    /\ status = "run" => /\ OnTheWheel \/ Taken \/ Over
                         /\ sim_state = "SIMULATION" => len > 0
                         /\ sim_state # "SIMULATION" => now <= DueAt + Late

LEMMA InitLength == SamplingInit => Length
<1> SUFFICES ASSUME SamplingInit PROVE Length
  OBVIOUS
<1>1. wheel = <<[at |-> NetQ, who |-> "net"]>>
  BY DEF SamplingInit, Callback
<1>2. \A i \in 1..Len(wheel) : wheel[i].who = "net"
  BY <1>1
<1> QED
  BY <1>2 DEF SamplingInit, Length, None

\* A sample begins when no callback of another is left.
LEMMA StartLength ==
  ASSUME WheelInv, StartSample(<<>>), UNCHANGED <<now, calls>>,
         None, ~Called("sample"), next_sample = 0,
         status' = "run"
  PROVE  /\ OnTheWheel' \/ Over'
         /\ sim_state' = "SIMULATION" => len' > 0
         /\ sim_state' # "SIMULATION" => now' <= DueAt' + Late
<1>1. sampler \in Samplers /\ sim_state \in States /\ now \in Nat
  BY DEF WheelInv, SamplingTypeOK
<1>2. PICK c \in changeState(sampler, sim_state) :
        /\ sim_state' = c[1] /\ start' = now /\ len' = c[2]
        /\ Callme(c[1], c[2], <<>>)
  BY DEF StartSample
<1>3. c[1] \in States /\ c[2] \in Nat /\ (c[1] = "SIMULATION" => c[2] > 0)
  BY <1>1, Durations
<1>4. End(c[1], c[2]) = now + c[2]
  BY DEF End
<1>5. \/ /\ c[2] = 0
         /\ work' = EndSample \o <<>> /\ UNCHANGED clock /\ next_sample' = 0
      \/ /\ c[2] # 0
         /\ work' = <<>> /\ Later(now + c[2], "sample")
         /\ next_sample' = IF c[1] = "SIMULATION" THEN now + c[2] ELSE 0
  <2>1. \/ /\ End(c[1], c[2]) = now
           /\ work' = EndSample \o <<>> /\ UNCHANGED clock
           /\ next_sample' = IF c[1] = "SIMULATION" THEN 0 ELSE next_sample
        \/ /\ End(c[1], c[2]) # now
           /\ work' = <<>> /\ Later(End(c[1], c[2]), "sample")
           /\ next_sample' = IF c[1] = "SIMULATION" THEN End(c[1], c[2])
                             ELSE next_sample
    BY <1>2, <1>3, CallmeIs, Zenon
  <2>2. End(c[1], c[2]) = now <=> c[2] = 0
    BY <1>1, <1>3, <1>4
  <2>3. CASE c[2] = 0
    <3>1. End(c[1], c[2]) = now
      BY <2>2, <2>3
    <3> QED
      BY <2>1, <2>3, <3>1
  <2>4. CASE c[2] # 0
    <3>1. /\ work' = <<>> /\ Later(End(c[1], c[2]), "sample")
          /\ next_sample' = IF c[1] = "SIMULATION" THEN End(c[1], c[2])
                            ELSE next_sample
      BY <2>1, <2>2, <2>4, Zenon
    <3>2. Later(now + c[2], "sample")
      BY <1>4, <3>1 DEF Later
    <3> QED
      BY <1>4, <2>4, <3>1, <3>2
  <2> QED
    BY <2>3, <2>4
<1>6. /\ sim_state' = "SIMULATION" => len' > 0
      /\ sim_state' # "SIMULATION" => now' <= DueAt' + Late
  BY <1>1, <1>2, <1>3, SamplingAssumption DEF DueAt
<1>7. ~Called("sample")'
  BY DEF Called
<1>8. CASE c[2] = 0
  <2>1. work' = <<"endQuantum", "finish">> /\ UNCHANGED clock /\ next_sample' = 0
    BY <1>5, <1>8, StackIs
  <2>2. None'
    BY <2>1 DEF None, clock
  <2> QED
    BY <1>1, <1>2, <1>3, <1>6, <1>7, <1>8, <2>1, <2>2 DEF Over, DueAt
<1>9. CASE c[2] # 0
  <2>1. /\ work' = <<>> /\ Later(now + c[2], "sample")
        /\ next_sample' = IF c[1] = "SIMULATION" THEN now + c[2] ELSE 0
    BY <1>5, <1>9
  <2>2. now + c[2] \in Nat /\ now + c[2] >= now
    BY <1>1, <1>3
  <2>3. ~Missed
    BY DEF Missed
  <2>4. One(now + c[2])'
    BY <2>1, <2>2, <2>3, LaterKeeps
  <2>5. DueAt' = now + c[2]
    BY <1>2 DEF DueAt
  <2>6. One(DueAt)'
    BY <2>4, <2>5, <1>2 DEF One, DueAt
  <2> QED
    BY <1>2, <1>6, <1>7, <2>1, <2>5, <2>6 DEF OnTheWheel, DueAt
<1> QED
  BY <1>8, <1>9

LEMMA HeyLength == ASSUME WheelInv, Length, ~broken, Hey PROVE Length'
<1>1. /\ work = <<>> /\ calls = <<>> /\ status = "run"
      /\ UNCHANGED <<now, sample, work, zone, samples, status, zones, broken>>
  BY DEF Hey, Idle
<1>2. PICK k \in 0..Len(wheel) :
        /\ calls' \in Seq({"sample", "net"}) /\ Len(calls') = k
        /\ \A i \in 1..k : calls'[i] = wheel[i].who /\ wheel[i].at <= now
        /\ wheel' \in Seq(Entry) /\ Len(wheel') = Len(wheel) - k
        /\ \A i \in 1..(Len(wheel) - k) : wheel'[i] = wheel[k + i] /\ now < wheel'[i].at
  BY HeyTakes
<1>3. Len(wheel) \in Nat
  BY DEF WheelInv, SamplingTypeOK
<1>4. OnTheWheel
  <2>1. ~Taken
    BY <1>1 DEF Taken
  <2>2. ~Over
    BY <1>1, StacksDiffer DEF Over
  <2> QED
    BY <1>1, <2>1, <2>2 DEF Length
<1>5. PICK m \in 1..Len(wheel) :
        /\ wheel[m].at = DueAt
        /\ \A j \in 1..Len(wheel) : wheel[j].who = "sample" <=> j = m
  BY <1>4 DEF OnTheWheel, One
<1>6. \A i \in 1..Len(wheel') : k + i \in 1..Len(wheel) /\ wheel'[i] = wheel[k + i]
  BY <1>2, <1>3
<1>7. \A i \in 1..Len(calls') : i \in 1..Len(wheel) /\ calls'[i] = wheel[i].who
  BY <1>2, <1>3
<1>8. UNCHANGED <<DueAt, sim_state, next_sample, len, now>>
  BY <1>1 DEF sample, DueAt
<1>9. CASE m <= k
  <2>1. None'
    BY <1>3, <1>5, <1>6, <1>9 DEF None
  <2>2. m \in 1..Len(calls') /\ \A j \in 1..Len(calls') : calls'[j] = "sample" <=> j = m
    BY <1>2, <1>3, <1>5, <1>7, <1>9
  <2>3. DueAt <= now
    BY <1>2, <1>3, <1>5, <1>9
  <2>4. Taken'
    BY <1>1, <1>4, <1>8, <2>1, <2>2, <2>3 DEF Taken, OnTheWheel
  <2> QED
    BY <1>1, <1>8, <2>4 DEF Length
<1>10. CASE m > k
  <2>1. ~Called("sample")'
    BY <1>2, <1>5, <1>7, <1>10 DEF Called
  <2>2. m - k \in 1..Len(wheel') /\ k + (m - k) = m
    BY <1>2, <1>3, <1>10
  <2>3. /\ wheel'[m - k].at = DueAt
        /\ \A j \in 1..Len(wheel') : wheel'[j].who = "sample" <=> j = m - k
    BY <1>2, <1>3, <1>5, <1>6, <2>2
  <2>4. One(DueAt)'
    BY <1>8, <2>2, <2>3 DEF One
  <2>5. OnTheWheel'
    BY <1>1, <1>4, <1>8, <2>1, <2>4 DEF OnTheWheel
  <2> QED
    BY <1>1, <1>8, <2>5 DEF Length
<1> QED
  BY <1>2, <1>3, <1>9, <1>10

LEMMA CallLength == ASSUME WheelInv, Length, ~broken, Call PROVE Length'
<1> USE SamplingAssumption
<1>1. /\ work = <<>> /\ calls # <<>> /\ status = "run"
      /\ calls' = Tail(calls)
      /\ UNCHANGED <<now, zone, samples, status, zones, broken>>
  BY DEF Call
<1>2. /\ calls \in Seq({"sample", "net"}) /\ now \in Nat /\ sim_state \in States
      /\ start \in Nat /\ len \in Nat
  BY DEF WheelInv, SamplingTypeOK
<1>3. /\ calls' \in Seq({"sample", "net"}) /\ Len(calls') = Len(calls) - 1
      /\ \A i \in 1..Len(calls') : calls'[i] = calls[i + 1]
      /\ Head(calls) = calls[1] /\ Len(calls) \in Nat /\ Len(calls) >= 1
  BY <1>1, <1>2
<1>4. \A i \in 1..Len(calls') : i + 1 \in 1..Len(calls) /\ i + 1 # 1
  BY <1>3
<1>5. ~Called("sample") => ~Called("sample")'
  BY <1>3, <1>4 DEF Called
<1>6. /\ OnTheWheel \/ Taken
      /\ sim_state = "SIMULATION" => len > 0
      /\ sim_state # "SIMULATION" => now <= DueAt + Late
  <2>1. ~Over
    BY <1>1, StacksDiffer DEF Over
  <2> QED
    BY <1>1, <2>1 DEF Length
<1>7. CASE /\ Head(calls) = "sample"
           /\ Callme(sim_state, 0, <<>>)
           /\ UNCHANGED <<sim_state, sampler, nfunctional, start, len>>
  <2>1. 1 \in 1..Len(calls) /\ calls[1] = "sample"
    BY <1>3, <1>7
  <2>2. Taken
    <3>1. Called("sample")
      BY <2>1 DEF Called
    <3> QED
      BY <1>6, <3>1 DEF OnTheWheel
  <2>3. ~Called("sample")'
    <3>1. \A j \in 1..Len(calls) : calls[j] = "sample" => j = 1
      BY <2>1, <2>2 DEF Taken
    <3> QED
      BY <1>3, <1>4, <3>1 DEF Called
  <2>4. UNCHANGED <<DueAt, sim_state, len, now, status>>
    BY <1>1, <1>7 DEF DueAt
  <2>5. \/ /\ End(sim_state, 0) = now
           /\ work' = EndSample \o <<>> /\ UNCHANGED clock
           /\ next_sample' = IF sim_state = "SIMULATION" THEN 0 ELSE next_sample
        \/ /\ End(sim_state, 0) # now
           /\ work' = <<>> /\ Later(End(sim_state, 0), "sample")
           /\ next_sample' = IF sim_state = "SIMULATION" THEN End(sim_state, 0)
                             ELSE next_sample
    BY <1>2, <1>7, CallmeIs
  <2>6. End(sim_state, 0) = IF sim_state = "SIMULATION" THEN DueAt ELSE now
    BY <1>2, <1>6, <2>2 DEF End, Taken, DueAt
  <2>7. CASE End(sim_state, 0) = now
    <3>1. work' = <<"endQuantum", "finish">> /\ UNCHANGED clock /\ next_sample' = 0
      BY <2>2, <2>5, <2>7, StackIs DEF Taken
    <3>2. None'
      BY <2>2, <3>1 DEF Taken, None, clock
    <3>3. Over'
      BY <2>2, <2>3, <2>4, <2>6, <2>7, <3>1, <3>2 DEF Over, Taken
    <3> QED
      BY <1>1, <1>6, <2>4, <3>3 DEF Length
  <2>8. CASE End(sim_state, 0) # now
    <3>1. /\ sim_state = "SIMULATION" /\ work' = <<>> /\ Later(DueAt, "sample")
          /\ next_sample' = DueAt /\ next_sample = DueAt /\ DueAt \in Nat
      BY <1>2, <2>2, <2>5, <2>6, <2>8 DEF Taken, DueAt
    <3>2. (Missed => Missed') /\ (DueAt >= now \/ Missed')
      BY <1>1, <1>2, <1>6, <3>1 DEF Missed, DueAt
    <3>3. One(DueAt)'
      <4>1. \A t : t = DueAt => One(t)'
        BY <1>1, <2>2, <3>1, <3>2, LaterKeeps DEF Taken
      <4> QED
        BY <2>4, <4>1 DEF One
    <3>4. OnTheWheel'
      BY <2>3, <2>4, <3>1, <3>3 DEF OnTheWheel
    <3> QED
      BY <1>1, <1>6, <2>4, <3>4 DEF Length
  <2> QED
    BY <2>7, <2>8
<1>8. CASE Head(calls) = "net" /\ Later(now + NetQ, "net") /\ UNCHANGED <<sample, work>>
  <2>1. now + NetQ \in Nat /\ now + NetQ >= now
    BY <1>2
  <2>2. UNCHANGED <<DueAt, sim_state, next_sample, len, now, status, work>>
    BY <1>1, <1>8 DEF DueAt, sample
  <2>3. Missed => Missed'
    BY <2>2 DEF Missed
  <2>4. (None => None') /\ \A t : One(t) => One(t)'
    BY <1>1, <1>8, <2>1, <2>3, LaterKeeps
  <2>5. CASE OnTheWheel
    <3>1. One(DueAt)'
      <4>1. \A t : t = DueAt => One(t)'
        BY <2>4, <2>5 DEF OnTheWheel
      <4> QED
        BY <2>2, <4>1 DEF One
    <3>2. OnTheWheel'
      BY <1>5, <2>2, <2>5, <3>1 DEF OnTheWheel
    <3> QED
      BY <1>1, <1>6, <2>2, <3>2 DEF Length
  <2>6. CASE Taken
    <3>1. PICK i \in 1..Len(calls) :
            \A j \in 1..Len(calls) : calls[j] = "sample" <=> j = i
      BY <2>6 DEF Taken
    <3>2. i # 1
      BY <1>3, <1>8, <3>1
    <3>3. i - 1 \in 1..Len(calls')
      BY <1>3, <3>2
    <3>4. \A j \in 1..Len(calls') : calls'[j] = "sample" <=> j = i - 1
      BY <1>3, <1>4, <3>1
    <3>5. Taken'
      BY <2>2, <2>4, <2>6, <3>3, <3>4 DEF Taken
    <3> QED
      BY <1>1, <1>6, <2>2, <3>5 DEF Length
  <2> QED
    BY <1>6, <2>5, <2>6
<1> QED
  BY <1>7, <1>8 DEF Call

LEMMA FinishLength ==
  ASSUME WheelInv, Length, ~broken, Finish PROVE Over /\ Length'
<1>1. /\ work # <<>> /\ Head(work) = "finish"
      /\ UNCHANGED <<now, calls, zone, zones, broken>>
  BY DEF Finish
<1>2. status = "run"
  BY <1>1 DEF WheelInv, Stack
<1>3. Over
  <2>1. ~OnTheWheel
    BY <1>1, StackIs DEF OnTheWheel
  <2>2. ~Taken
    BY <1>1 DEF Taken
  <2> QED
    BY <1>2, <2>1, <2>2 DEF Length
<1>4. work = <<"finish">> /\ Tail(work) = <<>>
  BY <1>1, <1>3, StackIs DEF Over
<1>5. CASE status' = "run"
  <2>1. StartSample(<<>>)
    BY <1>4, <1>5 DEF Finish
  <2> QED
    BY <1>1, <1>3, <1>5, <2>1, StartLength DEF Over, Length
<1>6. CASE status' # "run"
  <2>1. status' # "new"
    BY <1>6 DEF Finish, StartSample
  <2> QED
    BY <1>3, <1>6, <2>1 DEF Length
<1> QED
  BY <1>5, <1>6

LEMMA StartsLength == ASSUME WheelInv, Length, ~broken, Start PROVE Length'
<1>1. /\ status = "new" /\ StartSample(<<>>)
      /\ UNCHANGED <<now, calls, zone, samples, zones, broken>>
  BY DEF Start
<1>2. None /\ next_sample = 0 /\ calls = <<>>
  BY <1>1 DEF Length, WheelInv, Stack
<1>3. ~Called("sample")
  BY <1>2 DEF Called
<1>4. CASE status' = "run"
  BY <1>1, <1>2, <1>3, <1>4, StartLength DEF Length
<1>5. CASE status' # "run"
  <2>1. status' # "new"
    BY <1>1, <1>5 DEF StartSample
  <2> QED
    BY <1>5, <2>1 DEF Length
<1> QED
  BY <1>4, <1>5

LEMMA TickLength == ASSUME WheelInv, Length, ~broken, Tick PROVE Length'
<1> USE SamplingAssumption
<1>1. /\ work = <<>> /\ calls = <<>> /\ status = "run" /\ now' = now + 1
      /\ \A a \in alarms : now < a + Late
      /\ UNCHANGED <<clock, sample, calls, work, zone, samples, status, zones, broken>>
  BY DEF Tick, Idle
<1>2. /\ now \in Nat /\ start \in Nat /\ len \in Nat /\ alarms \in SUBSET Nat
      /\ wheel \in Seq(Entry) /\ next_sample \in Nat
  BY DEF WheelInv, SamplingTypeOK, Entry
<1>3. OnTheWheel
  <2>1. ~Taken
    BY <1>1 DEF Taken
  <2>2. ~Over
    BY <1>1, StacksDiffer DEF Over
  <2> QED
    BY <1>1, <2>1, <2>2 DEF Length
<1>4. UNCHANGED <<DueAt, sim_state, next_sample, len, status, calls, work, wheel>>
  BY <1>1 DEF DueAt, sample, clock
<1>5. OnTheWheel'
  BY <1>3, <1>4 DEF OnTheWheel, Called, One
<1>6. ASSUME sim_state # "SIMULATION" PROVE now + 1 <= DueAt + Late
  <2>1. ~Missed
    BY <1>3, <1>6 DEF OnTheWheel, Missed
  <2>2. PICK i \in 1..Len(wheel) : wheel[i].at = DueAt
    BY <1>3 DEF OnTheWheel, One
  <2>3. 1 \in 1..Len(wheel) /\ wheel # <<>> /\ wheel[1] \in Entry
    BY <1>2, <2>2
  <2>4. wheel[1].at \in Nat
    BY <2>3 DEF Entry
  <2>5. PICK a \in alarms : a <= wheel[1].at
    BY <2>1, <2>3 DEF WheelInv, Alarmed
  <2>6. i = 1 \/ wheel[1].at <= wheel[i].at
    BY <2>2, <2>3 DEF WheelInv, Sorted
  <2>7. DueAt \in Nat
    BY <1>2 DEF DueAt
  <2> QED
    BY <1>1, <1>2, <2>2, <2>4, <2>5, <2>6, <2>7
<1> QED
  BY <1>1, <1>3, <1>4, <1>5, <1>6 DEF Length

LEMMA LengthStep == ASSUME WheelInv, Length, [SamplingNext]_samplingVars PROVE Length'
<1> SUFFICES ASSUME ~broken' PROVE Length'
  BY DEF Length
<1>1. CASE EndQuantum
  <2>1. ~zone /\ work' = Tail(work) /\ UNCHANGED <<sampler, zones, broken>>
    BY <1>1 DEF EndQuantum, Change
  <2>2. /\ work # <<>> /\ Head(work) = "endQuantum"
        /\ UNCHANGED <<now, clock, calls, sim_state, next_sample, nfunctional, start,
                       len, samples, status>>
    BY <1>1 DEF EndQuantum
  <2>3. UNCHANGED <<DueAt, sim_state, next_sample, len, status, calls, wheel, now>>
    BY <2>2 DEF DueAt, clock
  <2>4. ~Taken
    BY <2>2 DEF Taken
  <2>5. OnTheWheel => OnTheWheel'
    BY <2>1, <2>2, <2>3, StackIs DEF OnTheWheel, Called, One
  <2>6. Over => Over'
    BY <2>1, <2>2, <2>3, StackIs DEF Over, Called, None
  <2>7. None => None'
    BY <2>3 DEF None
  <2> QED
    BY <2>1, <2>3, <2>4, <2>5, <2>6, <2>7 DEF Length
<1>2. CASE QuantumEnd
  <2>1. /\ work = <<>> /\ calls = <<>> /\ status = "run" /\ work' = <<"endQuantum">>
        /\ UNCHANGED <<now, clock, sample, calls, zone, samples, status, zones, broken>>
    BY <1>2 DEF QuantumEnd, Idle
  <2>2. UNCHANGED <<DueAt, sim_state, next_sample, len, status, calls, wheel, now>>
    BY <2>1 DEF DueAt, clock, sample
  <2>3. ~Taken /\ ~Over
    BY <2>1, StacksDiffer DEF Taken, Over
  <2>4. OnTheWheel => OnTheWheel'
    BY <2>1, <2>2 DEF OnTheWheel, Called, One
  <2> QED
    BY <2>1, <2>2, <2>3, <2>4 DEF Length
<1>3. CASE Zone
  <2>1. /\ UNCHANGED <<sampler, zones, broken, work>>
        /\ UNCHANGED <<now, clock, sim_state, next_sample, nfunctional, start, len,
                       calls, samples, status>>
    BY <1>3 DEF Zone, Change
  <2> QED
    BY <2>1 DEF Length, OnTheWheel, Taken, Over, Called, One, None, DueAt, clock
<1>4. CASE UNCHANGED samplingVars
  BY <1>4 DEF Length, OnTheWheel, Taken, Over, Called, One, None, DueAt, clock, sample, samplingVars
<1>5. CASE Hey
  BY <1>5, HeyLength DEF Hey
<1>6. CASE Call
  BY <1>6, CallLength DEF Call
<1>7. CASE Finish
  BY <1>7, FinishLength DEF Finish
<1>8. CASE Start
  BY <1>8, StartsLength DEF Start
<1>9. CASE Tick
  BY <1>9, TickLength DEF Tick
<1> QED
  BY <1>1, <1>2, <1>3, <1>4, <1>5, <1>6, <1>7, <1>8, <1>9 DEF SamplingNext

\* Until a cpuid changes the sampler, there is one callback for the end of the
\* sample, on the wheel or off it, and its time is the one the sampler gave.
THEOREM LengthInvariance == SamplingSpec => [](WheelInv /\ Length)
BY InitWheel, InitLength, WheelStep, LengthStep, PTL DEF SamplingSpec

\* A sample that nothing has broken ends when its time is over, in simulation
\* exactly then (callme and endSample, abaeterno.cpp:266-328), as
\* examples/multiple_cpu_interval.in:5 says; a callback that comes early or twice
\* ends none.
THEOREM SamplesHaveTheirLength == SamplingSpec => UnbrokenLength
<1>1. WheelInv /\ Length /\ [SamplingNext]_samplingVars => [~broken' => InTime]_samplingVars
  <2> SUFFICES ASSUME WheelInv, Length, ~broken', Finish PROVE InTime
    BY DEF InTime
  <2>1. ~broken
    BY DEF Finish
  <2>2. Over
    BY <2>1, FinishLength
  <2>3. status = "run"
    BY DEF Finish, WheelInv, Stack
  <2>4. sim_state # "SIMULATION" => now <= DueAt + Late
    BY <2>1, <2>3 DEF Length
  <2>5. now \in Nat /\ DueAt \in Nat /\ Late \in Nat
    BY SamplingAssumption DEF WheelInv, SamplingTypeOK, DueAt
  <2> QED
    BY <2>2, <2>4, <2>5 DEF InTime, Over, DueAt
<1> QED
  BY <1>1, LengthInvariance, PTL DEF SamplingSpec, UnbrokenLength

=============================================================================
