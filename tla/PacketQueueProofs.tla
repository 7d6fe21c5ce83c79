--------------------------- MODULE PacketQueueProofs ---------------------------
(***************************************************************************)
(* The mediator's packet queue, for any nodes, packets, delays and bounds  *)
(* of the quantum: its types, the floor of the quantum, and that no packet *)
(* is lost or sent twice but for twins of one microsecond.                 *)
(*                                                                         *)
(* The floor is not plain from compute_quantum, which clips to the time of *)
(* a pending packet last.  It rests on what send_packets leaves behind:    *)
(* messages later than nextgt, which is half a quantum_min or more ahead   *)
(* of gt.  What the std::set answers for its first element has to be one   *)
(* of its messages, for which the queue needs a bound.                     *)
(*                                                                         *)
(* The packets are each in one place.  The wire is the walk over the       *)
(* queue's std::set, in the order of its comparator; that it has every     *)
(* message once rests on the keys' being different.                        *)
(***************************************************************************)
EXTENDS PacketQueue, SequenceTheorems, FiniteSetTheorems, WellFoundedInduction,
        TLAPS

Msg == [packet : Packets, node : Nodes, simtime : Nat, realtime : Nat]

\* The messages, with a bound on their times.
Messages ==
  /\ IsFiniteSet(queue)
  /\ queue \subseteq Msg
  /\ \A m \in queue : m.realtime <= clock
  /\ data.packet = NoPacket => data.to = {}
  /\ \E bound \in Nat : \A m \in queue : m.simtime <= bound

\* The next barrier is most of a quantum_min ahead.
Ahead ==
  /\ quantum >= QMin
  /\ 2 * (nextgt - gt) + 1 >= QMin
  /\ ctrl.pc = "quantum" => ctrl.pqmax = 0 \/ 2 * ctrl.pqmax >= QMin

IInv == TypeOK /\ Messages /\ Ahead

-----------------------------------------------------------------------------
\* The order of the set

LEMMA Least ==
  ASSUME NEW T \in SUBSET Nat, T # {}
  PROVE  \E x \in T : \A y \in T : x <= y
<1>1. PICK x \in T : \A y \in T : ~ (<<y, x>> \in OpToRel(<, Nat))
  BY NatLessThanWellFounded, WFMin
<1>2. \A y \in T : ~(y < x)
  BY <1>1 DEF OpToRel
<1> QED
  BY <1>2

\* The set has a first element.
LEMMA FirstIn ==
  ASSUME Messages, clock \in Nat, NEW S \in SUBSET queue, S # {}
  PROVE  First(S) \in S /\ \A y \in S : ~Before(y, First(S))
<1>1. PICK bound \in Nat : \A m \in queue : m.simtime <= bound
  BY DEF Messages
<1> DEFINE late(m) == bound - m.simtime
           ages == {late(m) : m \in S}
<1>2. /\ \A m \in S : m \in Msg /\ m.simtime \in Nat /\ m.realtime \in Nat
      /\ \A m \in S : m.simtime <= bound /\ m.realtime <= clock
  BY <1>1 DEF Messages, Msg
<1>3. \E m \in S : \A x \in S : x.simtime <= m.simtime
  <2>1. ages \in SUBSET Nat /\ ages # {}
    BY <1>1, <1>2
  <2>2. PICK a \in ages : \A b \in ages : a <= b
    BY <2>1, Least
  <2>3. PICK m \in S : a = late(m)
    BY <2>2
  <2>4. \A x \in S : late(m) <= late(x)
    BY <2>2, <2>3
  <2> QED
    BY <2>4, <1>1, <1>2
<1>4. PICK m \in S : \A x \in S : x.simtime <= m.simtime
  BY <1>3
<1> DEFINE same == {x \in S : x.simtime = m.simtime}
           young == {clock - x.realtime : x \in same}
<1>5. young \in SUBSET Nat /\ young # {}
  BY <1>2, <1>4
<1>6. PICK a \in young : \A b \in young : a <= b
  BY <1>5, Least
<1>7. PICK f \in same : a = clock - f.realtime
  BY <1>6
<1>8. \A x \in same : x.realtime <= f.realtime
  <2>1. \A x \in same : clock - f.realtime <= clock - x.realtime
    BY <1>6, <1>7
  <2> QED
    BY <2>1, <1>2
<1>9. \A x \in S : ~Before(x, f)
  BY <1>2, <1>4, <1>7, <1>8 DEF Before
<1> QED
  BY <1>7, <1>9 DEF First

-----------------------------------------------------------------------------
\* The walk through the set

\* A subset of the queue can be put in order.
LEMMA Ordered ==
  ASSUME TypeOK, Messages
  PROVE  \A S \in SUBSET queue :
           \E s \in SetToSeqs(S) : \A i, j \in DOMAIN s : i < j => Before(s[i], s[j])
<1> DEFINE Goal(S) ==
             \E s \in SetToSeqs(S) : \A i, j \in DOMAIN s : i < j => Before(s[i], s[j])
           bad == {n \in Nat : \E S \in SUBSET queue : Cardinality(S) = n /\ ~Goal(S)}
<1>1. \A S \in SUBSET queue : IsFiniteSet(S) /\ Cardinality(S) \in Nat
  <2>1. IsFiniteSet(queue)
    BY DEF Messages
  <2> QED
    BY <2>1, FS_Subset, FS_CardinalityType
<1>2. \A m \in queue : m.simtime \in Nat /\ m.realtime \in Nat
  BY DEF Messages, Msg
<1>3. ASSUME NEW n \in bad, \A k \in bad : n <= k PROVE FALSE
  <2>1. PICK S \in SUBSET queue : Cardinality(S) = n /\ ~Goal(S)
    BY <1>3
  <2>2. CASE S = {}
    <3>1. Cardinality(S) = 0
      BY <2>2, FS_EmptySet
    <3> DEFINE e == [i \in 1..0 |-> i]
    <3>2. e \in [1..Cardinality(S) -> S] /\ DOMAIN e = {}
      BY <3>1
    <3> HIDE DEF e
    <3>3. e \in SetToSeqs(S)
      BY <3>1, <3>2 DEF SetToSeqs
    <3> QED
      BY <3>2, <3>3, <2>1
  <2>3. CASE S # {}
    <3> DEFINE f == First(S)
               T == S \ {f}
    <3>1. f \in S /\ \A y \in S : ~Before(y, f)
      <4>1. clock \in Nat
        BY DEF TypeOK
      <4> QED
        BY <2>3, <4>1, FirstIn
    <3>2. /\ T \in SUBSET queue
          /\ Cardinality(S) \in Nat /\ Cardinality(T) \in Nat
          /\ Cardinality(S) = Cardinality(T) + 1
      <4>1. Cardinality(T) = Cardinality(S) - 1
        BY <1>1, <3>1, FS_RemoveElement
      <4> QED
        BY <4>1, <1>1
    <3> HIDE DEF f
    <3>3. Goal(T)
      <4>1. Cardinality(T) \notin bad
        BY <3>2, <2>1, <1>3
      <4> QED
        BY <4>1, <3>2
    <3>4. PICK t \in SetToSeqs(T) : \A i, j \in DOMAIN t : i < j => Before(t[i], t[j])
      BY <3>3
    <3> DEFINE k == Cardinality(T)
               s == [i \in 1..(k + 1) |-> IF i = 1 THEN f ELSE t[i - 1]]
    <3>5. /\ t \in [1..k -> T]
          /\ \A i, j \in 1..k : i # j => t[i] # t[j]
      BY <3>4 DEF SetToSeqs
    <3>6. k \in Nat /\ Cardinality(S) = k + 1
      BY <3>2
    <3>7. T \subseteq S /\ f \notin T
      OBVIOUS
    <3> HIDE DEF T, k
    <3>8. /\ s \in [1..(k + 1) -> S]
          /\ \A i, j \in 1..(k + 1) : i # j => s[i] # s[j]
      BY <3>1, <3>5, <3>6, <3>7
    <3>9. \A x \in T : Before(f, x)
      BY <3>1, <3>7, <2>1 DEF TypeOK
    <3>10. \A i, j \in 1..(k + 1) : i < j => Before(s[i], s[j])
      <4> TAKE i, j \in 1..(k + 1)
      <4> HAVE i < j
      <4>1. j # 1 /\ j - 1 \in 1..k /\ s[j] = t[j - 1] /\ t[j - 1] \in T
        BY <3>5, <3>6
      <4>2. CASE i = 1
        BY <4>1, <4>2, <3>9
      <4>3. CASE i # 1
        <5>1. i - 1 \in 1..k /\ s[i] = t[i - 1] /\ i - 1 < j - 1
          BY <4>3, <3>6
        <5> QED
          BY <5>1, <4>1, <3>4, <3>5
      <4> QED
        BY <4>2, <4>3
    <3> HIDE DEF s
    <3>11. s \in SetToSeqs(S)
      BY <3>8, <3>6 DEF SetToSeqs
    <3>12. DOMAIN s = 1..(k + 1)
      BY <3>8
    <3> QED
      BY <3>10, <3>11, <3>12, <2>1
  <2> QED
    BY <2>2, <2>3
<1>4. bad = {}
  <2>1. CASE bad # {}
    <3>1. bad \in SUBSET Nat
      OBVIOUS
    <3>2. \E n \in bad : \A k \in bad : n <= k
      BY <2>1, <3>1, Least
    <3> QED
      BY <3>2, <1>3
  <2> QED
    BY <2>1
<1> QED
  BY <1>1, <1>4

\* It meets each message once.
LEMMA WalkIs ==
  ASSUME TypeOK, Messages, NEW S \in SUBSET queue
  PROVE  /\ Walk(S) \in Seq(S) /\ Len(Walk(S)) = Cardinality(S)
         /\ \A i, j \in 1..Len(Walk(S)) : Walk(S)[i] = Walk(S)[j] => i = j
         /\ \A m \in S : \E i \in 1..Len(Walk(S)) : Walk(S)[i] = m
<1>1. Walk(S) \in SetToSeqs(S)
  BY Ordered DEF Walk
<1> DEFINE w == Walk(S)
           n == Cardinality(S)
<1> HIDE DEF w
<1>2. IsFiniteSet(S) /\ n \in Nat
  <2>1. IsFiniteSet(queue)
    BY DEF Messages
  <2> QED
    BY <2>1, FS_Subset, FS_CardinalityType
<1>3. w \in [1..n -> S] /\ \A i, j \in 1..n : i # j => w[i] # w[j]
  BY <1>1 DEF w, SetToSeqs
<1> HIDE DEF n
<1>4. w \in Seq(S) /\ Len(w) = n
  BY <1>2, <1>3
<1>5. w \in Injection(1..n, S)
  BY <1>3 DEF Injection, IsInjective
<1>6. w \in Surjection(1..n, S)
  <2>1. IsFiniteSet(1..n) /\ Cardinality(1..n) = n
    BY <1>2, FS_Interval
  <2>2. Cardinality(S) = n
    BY DEF n
  <2> QED
    BY <1>2, <1>5, <2>1, <2>2, FS_Injection
<1>7. \A m \in S : \E i \in 1..n : w[i] = m
  BY <1>6 DEF Surjection
<1> QED
  BY <1>3, <1>4, <1>7 DEF w, n

-----------------------------------------------------------------------------
\* Quanta

LEMMA LroundNat ==
  ASSUME NEW q \in Nat PROVE Lround(q) \in Nat /\ 2 * Lround(q) >= q
BY DEF Lround

\* A quantum that is clipped to no less than quantum_min is none below.
LEMMA Clipped ==
  ASSUME NEW nq \in Int, NEW qmax \in Nat, qmax >= QMin
  PROVE  Clip(nq, qmax) \in Nat /\ Clip(nq, qmax) >= QMin
BY PacketQueueAssumption DEF Clip

LEMMA ScaledInt ==
  ASSUME quantum \in Nat, packs \in Nat, NEW d \in Int PROVE Scaled(d) \in Int
BY PacketQueueAssumption DEF Scaled

-----------------------------------------------------------------------------
\* The invariant is inductive.

LEMMA InitInv == Init => IInv
<1> SUFFICES ASSUME Init PROVE IInv
  OBVIOUS
<1> USE PacketQueueAssumption DEF Init
<1>1. TypeOK
  BY DEF TypeOK
<1>2. Messages
  BY FS_EmptySet DEF Messages
<1>3. Ahead
  BY DEF Ahead
<1> QED
  BY <1>1, <1>2, <1>3 DEF IInv

\* After send_packets the first message left is past the barrier.
LEMMA ReleaseInv == ASSUME IInv, SendPackets PROVE IInv'
<1> USE PacketQueueAssumption DEF IInv
<1> DEFINE due == {m \in queue : nextgt >= m.simtime}
           rest == queue \ due
<1>1. /\ queue' = rest
      /\ ctrl' = [pc |-> "quantum", nsent |-> Cardinality(due),
                  pqmax |-> IF rest = {} THEN 0 ELSE First(rest).simtime - gt]
      /\ UNCHANGED <<gt, nextgt, quantum, last_qtime, packs, sync_started, data,
                     arrived, clock>>
  BY DEF SendPackets, Release
<1>2. Cardinality(due) \in Nat /\ IsFiniteSet(rest)
  <2>1. IsFiniteSet(queue)
    BY DEF Messages
  <2>2. IsFiniteSet(due) /\ IsFiniteSet(rest)
    BY <2>1, FS_Subset
  <2> QED
    BY <2>2, FS_CardinalityType
<1>3. ctrl'.pqmax \in Nat /\ (ctrl'.pqmax = 0 \/ 2 * ctrl'.pqmax >= QMin)
  <2>1. CASE rest = {}
    BY <1>1, <2>1
  <2>2. CASE rest # {}
    <3>1. First(rest) \in rest
      <4>1. clock \in Nat
        BY DEF TypeOK
      <4> QED
        BY <2>2, <4>1, FirstIn DEF Messages
    <3>2. First(rest).simtime \in Nat /\ First(rest).simtime > nextgt
      BY <3>1 DEF Messages, Msg, TypeOK
    <3>3. ctrl'.pqmax = First(rest).simtime - gt
      BY <1>1, <2>2
    <3> QED
      BY <3>2, <3>3 DEF TypeOK, Ahead
  <2> QED
    BY <2>1, <2>2
<1>4. TypeOK'
  <2>1. ctrl' \in [pc : {"idle", "quantum", "advance"}, nsent : Nat, pqmax : Nat]
    BY <1>1, <1>2, <1>3
  <2>2. \A m, x \in queue' : m = x \/ Before(m, x) \/ Before(x, m)
    BY <1>1 DEF TypeOK
  <2> QED
    BY <1>1, <2>1, <2>2 DEF TypeOK
<1>5. Messages'
  BY <1>1, <1>2 DEF Messages
<1>6. Ahead'
  BY <1>1, <1>3 DEF Ahead
<1> QED
  BY <1>4, <1>5, <1>6

LEMMA ComputeInv == ASSUME IInv, ComputeQuantum PROVE IInv'
<1> USE PacketQueueAssumption DEF IInv
<1>1. quantum' \in Nat /\ quantum' >= QMin
  <2> DEFINE qmax == IF ctrl.pqmax > 0 THEN 2 * ctrl.pqmax ELSE QMax
  <2>1. qmax \in Nat /\ qmax >= QMin
    BY DEF ComputeQuantum, TypeOK, Ahead
  <2>2. Scaled(gt - last_qtime) \in Int
    <3>1. gt - last_qtime \in Int /\ quantum \in Nat /\ packs \in Nat
      BY DEF TypeOK
    <3> QED
      BY <3>1, ScaledInt
  <2> HIDE DEF qmax
  <2>3. Clip(Scaled(gt - last_qtime), qmax) \in Nat
        /\ Clip(Scaled(gt - last_qtime), qmax) >= QMin
    BY <2>1, <2>2, Clipped
  <2> QED
    BY <2>3 DEF ComputeQuantum, qmax
<1>2. /\ last_qtime' = gt /\ packs' = 0
      /\ ctrl' = [ctrl EXCEPT !.pc = "advance"]
      /\ UNCHANGED <<gt, nextgt, sync_started, data, arrived, queue, clock>>
  BY DEF ComputeQuantum
<1>3. TypeOK'
  BY <1>1, <1>2 DEF TypeOK, Before
<1>4. Messages'
  BY <1>2 DEF Messages
<1>5. Ahead'
  BY <1>1, <1>2 DEF Ahead, TypeOK
<1> QED
  BY <1>3, <1>4, <1>5

LEMMA AdvanceInv == ASSUME IInv, GT_advance PROVE IInv'
<1> USE PacketQueueAssumption DEF IInv
<1>1. Lround(quantum) \in Nat /\ 2 * Lround(quantum) >= QMin
  <2>1. quantum \in Nat /\ quantum >= QMin
    BY DEF TypeOK, Ahead
  <2>2. Lround(quantum) \in Nat /\ 2 * Lround(quantum) >= quantum
    BY <2>1, LroundNat
  <2> QED
    BY <2>1, <2>2
<1>2. /\ gt' = nextgt /\ nextgt' = nextgt + Lround(quantum)
      /\ ctrl' = [pc |-> "idle", nsent |-> 0, pqmax |-> 0]
      /\ UNCHANGED <<quantum, last_qtime, packs, sync_started, data, arrived,
                     queue, clock>>
  BY DEF GT_advance
<1>3. TypeOK'
  BY <1>1, <1>2 DEF TypeOK, Before
<1>4. Messages'
  BY <1>2 DEF Messages
<1>5. Ahead'
  BY <1>1, <1>2 DEF Ahead, TypeOK
<1> QED
  BY <1>3, <1>4, <1>5

\* A message is queued, unless the set has one of the same times.
LEMMA SendInv == ASSUME IInv, NEW n \in Nodes, Send(n) PROVE IInv'
<1> USE PacketQueueAssumption DEF IInv
<1>1. PICK delay \in Delays, tick \in Ticks :
        /\ clock' = clock + tick
        /\ LET m == Message(data.packet, n, data.now + delay, clock')
           IN UNCHANGED queue \/ Insert(m)
  BY DEF Send
<1> DEFINE m == Message(data.packet, n, data.now + delay, clock')
<1>2. clock' \in Nat /\ clock <= clock'
  BY <1>1 DEF TypeOK
<1>3. m \in Msg /\ m.realtime = clock'
  <2>1. data.packet \in Packets
    BY DEF Send, TypeOK, Messages
  <2>2. data.now + delay \in Nat
    BY DEF TypeOK
  <2> QED
    BY <2>1, <2>2, <1>2 DEF Message, Msg
<1>4. data' = [data EXCEPT !.to = @ \ {n}]
      /\ UNCHANGED <<gt, nextgt, quantum, last_qtime, packs, sync_started, ctrl,
                     arrived>>
  BY DEF Send
<1>5. \/ UNCHANGED queue
      \/ /\ queue' = queue \union {m}
         /\ \A x \in queue : Before(x, m) \/ Before(m, x)
  BY <1>1 DEF Insert
<1> HIDE DEF m
<1>6. TypeOK'
  <2>1. \A x, y \in queue' : x = y \/ Before(x, y) \/ Before(y, x)
    BY <1>5 DEF TypeOK
  <2>2. data' \in [packet : Packets \union {NoPacket}, now : Nat, to : SUBSET Nodes]
    BY <1>4 DEF TypeOK
  <2> QED
    BY <1>2, <1>4, <2>1, <2>2 DEF TypeOK
<1>7. Messages'
  <2>1. IsFiniteSet(queue')
    BY <1>5, FS_AddElement DEF Messages
  <2>2. PICK bound \in Nat : \A x \in queue : x.simtime <= bound
    BY DEF Messages
  <2> DEFINE new == IF m.simtime <= bound THEN bound ELSE m.simtime
  <2>3. new \in Nat /\ m.simtime <= new /\ bound <= new
    BY <1>3 DEF Msg
  <2>4. \A x \in queue : x.simtime \in Nat /\ x.realtime \in Nat
    BY DEF Messages, Msg
  <2>5. \A x \in queue' : x.simtime <= new
    BY <1>5, <2>2, <2>3, <2>4
  <2>6. \A x \in queue' : x.realtime <= clock'
    BY <1>2, <1>3, <1>5, <2>4 DEF Messages, TypeOK
  <2>7. queue' \subseteq Msg
    BY <1>3, <1>5 DEF Messages
  <2>8. data'.packet = NoPacket => data'.to = {}
    BY <1>4 DEF Messages, TypeOK
  <2> QED
    BY <2>1, <2>3, <2>5, <2>6, <2>7, <2>8 DEF Messages
<1>8. Ahead'
  BY <1>4 DEF Ahead
<1> QED
  BY <1>6, <1>7, <1>8

LEMMA StepInv == ASSUME IInv, [Next]_vars PROVE IInv'
<1> USE PacketQueueAssumption DEF IInv
<1>1. CASE StartSync
  BY <1>1 DEF StartSync, TypeOK, Messages, Ahead, Before
<1>2. CASE Count
  BY <1>2 DEF Count, TypeOK, Messages, Ahead, Before
<1>3. ASSUME NEW p \in Packets, Receive(p) PROVE IInv'
  <2>1. data' \in [packet : Packets \union {NoPacket}, now : Nat, to : SUBSET Nodes]
        /\ data'.packet # NoPacket
    BY <1>3 DEF Receive, TypeOK
  <2> QED
    BY <1>3, <2>1 DEF Receive, TypeOK, Messages, Ahead, Before
<1>4. CASE UNCHANGED vars
  BY <1>4 DEF vars, TypeOK, Messages, Ahead, Before
<1> QED
  BY <1>1, <1>2, <1>3, <1>4, ReleaseInv, ComputeInv, AdvanceInv, SendInv
  DEF Next, CtrlNext, DataNext

THEOREM Invariance == Spec => []IInv
BY InitInv, StepInv, PTL DEF Spec

\* compute_quantum (switch.cpp:486-537): for any delays, packets and rounding
\* the quantum is never below quantum_min, and time goes on at every barrier.
THEOREM Floor == Spec => []QuantumFloor
<1>1. IInv => QuantumFloor
  BY DEF IInv, Ahead, QuantumFloor
<1> QED
  BY <1>1, Invariance, PTL

-----------------------------------------------------------------------------
\* Where the packets are

Is(m, p, n) == m.packet = p /\ m.node = n

InHand(p, n) == data.packet = p /\ n \in data.to
Queued(p, n) == \E m \in queue : Is(m, p, n)
Gone(p, n) == \E i \in 1..Len(out) : Is(out[i], p, n)
Refused(p, n) == \E m \in refused : Is(m, p, n)

\* A packet is received once.
Received ==
  /\ out \in Seq(Msg) /\ refused \subseteq Msg
  /\ \A a \in arrived : a.packet \in Packets
  /\ \A a, b \in arrived : a.packet = b.packet => a = b
  /\ data.packet # NoPacket =>
       \E a \in arrived : a.packet = data.packet /\ data.to \subseteq a.to

\* For a destination it is in one place.
Apart ==
  \A p, n : /\ InHand(p, n) => ~Queued(p, n) /\ ~Gone(p, n) /\ ~Refused(p, n)
            /\ Queued(p, n) => ~Gone(p, n) /\ ~Refused(p, n)
            /\ Gone(p, n) => ~Refused(p, n)

\* There it is once.
Once ==
  /\ \A m, x \in queue : Is(m, x.packet, x.node) => m = x
  /\ \A i, j \in 1..Len(out) : Is(out[i], out[j].packet, out[j].node) => i = j
  /\ \A m, x \in refused : Is(m, x.packet, x.node) => m = x

\* It is somewhere for its destinations, and nowhere for others.
Somewhere ==
  \A p, n : (p \in Packets
               /\ (InHand(p, n) \/ Queued(p, n) \/ Gone(p, n) \/ Refused(p, n)))
            <=> \E a \in arrived : a.packet = p /\ n \in a.to

\* What the set has refused is equal for it to something it had.
Twinned ==
  \A m \in refused : \/ \E x \in queue : Twins(m, x)
                     \/ \E i \in 1..Len(out) : Twins(m, out[i])

Places == Received /\ Apart /\ Once /\ Somewhere /\ Twinned

LEMMA InitPlaces == Init => Places
BY DEF Init, Places, Received, Apart, Once, Somewhere, Twinned, InHand, Queued, Gone,
   Refused

\* send_packets moves the messages that are due.
LEMMA SendPacketsPlaces == ASSUME IInv, Places, SendPackets PROVE Places'
<1> DEFINE due == {m \in queue : nextgt >= m.simtime}
           w == Walk(due)
<1>1. /\ queue' = queue \ due /\ out' = out \o w
      /\ UNCHANGED <<data, arrived, refused>>
  BY DEF SendPackets, Release, ReallySend
<1>2. /\ w \in Seq(due)
      /\ \A i, j \in 1..Len(w) : w[i] = w[j] => i = j
      /\ \A m \in due : \E i \in 1..Len(w) : w[i] = m
  <2>1. due \in SUBSET queue
    OBVIOUS
  <2> HIDE DEF due
  <2> QED
    BY <2>1, WalkIs DEF IInv
<1>3. due \subseteq queue /\ queue \subseteq Msg /\ out \in Seq(Msg)
  BY DEF IInv, Messages, Places, Received
<1> HIDE DEF due, w
<1>4. w \in Seq(Msg)
  BY <1>2, <1>3
<1>5. /\ out' \in Seq(Msg) /\ Len(out') = Len(out) + Len(w)
      /\ Len(out) \in Nat /\ Len(w) \in Nat
      /\ \A i \in 1..Len(out') :
           out'[i] = IF i <= Len(out) THEN out[i] ELSE w[i - Len(out)]
  BY <1>1, <1>3, <1>4, ConcatProperties
<1>6. \A i \in 1..Len(out') :
        \/ i \in 1..Len(out) /\ out'[i] = out[i]
        \/ /\ i > Len(out) /\ i - Len(out) \in 1..Len(w)
           /\ out'[i] = w[i - Len(out)] /\ out'[i] \in due
  <2> SUFFICES ASSUME NEW i \in 1..Len(out'), i \notin 1..Len(out)
               PROVE  /\ i > Len(out) /\ i - Len(out) \in 1..Len(w)
                      /\ out'[i] = w[i - Len(out)] /\ out'[i] \in due
    BY <1>5
  <2>1. i > Len(out) /\ i - Len(out) \in 1..Len(w)
    BY <1>5
  <2>2. out'[i] = w[i - Len(out)]
    BY <1>5, <2>1
  <2>3. \A k \in 1..Len(w) : w[k] \in due
    BY <1>2
  <2> QED
    BY <2>1, <2>2, <2>3
<1>7. \A p, n : Gone(p, n)' <=> Gone(p, n) \/ \E m \in due : Is(m, p, n)
  <2> TAKE p, n
  <2>1. Gone(p, n)' => Gone(p, n) \/ \E m \in due : Is(m, p, n)
    BY <1>6 DEF Gone, Is
  <2>2. ASSUME Gone(p, n) PROVE Gone(p, n)'
    <3>1. PICK i \in 1..Len(out) : Is(out[i], p, n)
      BY <2>2 DEF Gone
    <3>2. i \in 1..Len(out') /\ out'[i] = out[i]
      BY <3>1, <1>5
    <3> QED
      BY <3>1, <3>2 DEF Gone, Is
  <2>3. ASSUME NEW m \in due, Is(m, p, n) PROVE Gone(p, n)'
    <3>1. PICK i \in 1..Len(w) : w[i] = m
      BY <1>2
    <3>2. i + Len(out) \in 1..Len(out')
      BY <1>5
    <3>3. i + Len(out) > Len(out) /\ (i + Len(out)) - Len(out) = i
      BY <1>5
    <3>4. out'[i + Len(out)] = m
      BY <3>1, <3>2, <3>3, <1>5
    <3> QED
      BY <2>3, <3>2, <3>4 DEF Gone, Is
  <2> QED
    BY <2>1, <2>2, <2>3
<1>8. \A p, n : Queued(p, n)' <=> \E m \in queue \ due : Is(m, p, n)
  BY <1>1 DEF Queued, Is
<1>9. \A p, n : (InHand(p, n)' <=> InHand(p, n)) /\ (Refused(p, n)' <=> Refused(p, n))
  BY <1>1 DEF InHand, Refused
<1>10. \A m, x \in queue : Is(m, x.packet, x.node) => m = x
  BY DEF Places, Once
<1>11. Received'
  BY <1>1, <1>5 DEF Places, Received
<1>12. Apart'
  <2> SUFFICES ASSUME NEW p, NEW n
               PROVE  /\ InHand(p, n)' => ~Queued(p, n)' /\ ~Gone(p, n)' /\ ~Refused(p, n)'
                      /\ Queued(p, n)' => ~Gone(p, n)' /\ ~Refused(p, n)'
                      /\ Gone(p, n)' => ~Refused(p, n)'
    BY DEF Apart
  <2>1. /\ InHand(p, n) => ~Queued(p, n) /\ ~Gone(p, n) /\ ~Refused(p, n)
        /\ Queued(p, n) => ~Gone(p, n) /\ ~Refused(p, n)
        /\ Gone(p, n) => ~Refused(p, n)
    BY DEF Places, Apart
  <2>2. \A m \in queue \ due, x \in due : ~(Is(m, p, n) /\ Is(x, p, n))
    BY <1>3, <1>10 DEF Is
  <2>3. (\E m \in queue \ due : Is(m, p, n)) => Queued(p, n)
    BY DEF Queued
  <2>4. (\E m \in due : Is(m, p, n)) => Queued(p, n)
    BY <1>3 DEF Queued
  <2> QED
    BY <1>7, <1>8, <1>9, <2>1, <2>2, <2>3, <2>4
<1>13. Once'
  <2>1. \A m, x \in queue' : Is(m, x.packet, x.node) => m = x
    BY <1>1, <1>10
  <2>2. ASSUME NEW i \in 1..Len(out'), NEW j \in 1..Len(out'),
               Is(out'[i], out'[j].packet, out'[j].node)
        PROVE  i = j
    <3>1. \A k \in 1..Len(out), m \in due : ~Is(out[k], m.packet, m.node)
                                             /\ ~Is(m, out[k].packet, out[k].node)
      <4> SUFFICES ASSUME NEW k \in 1..Len(out), NEW m \in due,
                          out[k].packet = m.packet, out[k].node = m.node
                   PROVE  FALSE
        BY DEF Is
      <4>1. Queued(m.packet, m.node) /\ Gone(m.packet, m.node)
        BY <1>3 DEF Queued, Gone, Is
      <4> QED
        BY <4>1 DEF Places, Apart
    <3>2. CASE i \in 1..Len(out) /\ out'[i] = out[i]
      <4>1. j \in 1..Len(out) /\ out'[j] = out[j]
        BY <1>6, <2>2, <3>1, <3>2
      <4> QED
        BY <2>2, <3>2, <4>1 DEF Places, Once
    <3>3. CASE /\ i > Len(out) /\ i - Len(out) \in 1..Len(w)
               /\ out'[i] = w[i - Len(out)] /\ out'[i] \in due
      <4>1. /\ j > Len(out) /\ j - Len(out) \in 1..Len(w)
            /\ out'[j] = w[j - Len(out)] /\ out'[j] \in due
        BY <1>6, <2>2, <3>1, <3>3
      <4>2. out'[i] = out'[j]
        BY <1>3, <1>10, <2>2, <3>3, <4>1
      <4>3. i - Len(out) = j - Len(out)
        BY <1>2, <3>3, <4>1, <4>2
      <4> QED
        BY <4>3, <1>5
    <3> QED
      BY <1>6, <3>2, <3>3
  <2> QED
    BY <1>1, <2>1, <2>2 DEF Places, Once, Is
<1>14. Somewhere'
  <2> SUFFICES ASSUME NEW p, NEW n
               PROVE  (InHand(p, n) \/ Queued(p, n) \/ Gone(p, n))
                      <=> (InHand(p, n)' \/ Queued(p, n)' \/ Gone(p, n)')
    BY <1>1, <1>9 DEF Places, Somewhere
  <2>1. Queued(p, n) <=> (\E m \in queue \ due : Is(m, p, n)) \/ \E m \in due : Is(m, p, n)
    BY <1>3 DEF Queued
  <2> QED
    BY <2>1, <1>7, <1>8, <1>9
<1>15. Twinned'
  <2> SUFFICES ASSUME NEW m \in refused
               PROVE  \/ \E x \in queue' : Twins(m, x)
                      \/ \E i \in 1..Len(out') : Twins(m, out'[i])
    BY <1>1 DEF Twinned, Twins
  <2>1. CASE \E x \in queue : Twins(m, x)
    <3>1. PICK x \in queue : Twins(m, x)
      BY <2>1
    <3>2. CASE x \in due
      <4>1. PICK i \in 1..Len(w) : w[i] = x
        BY <1>2, <3>2
      <4>2. /\ i + Len(out) \in 1..Len(out') /\ i + Len(out) > Len(out)
            /\ (i + Len(out)) - Len(out) = i
        BY <1>5
      <4>3. out'[i + Len(out)] = x
        BY <4>1, <4>2, <1>5
      <4> QED
        BY <3>1, <4>2, <4>3
    <3> QED
      BY <1>1, <3>1, <3>2
  <2>2. CASE \E i \in 1..Len(out) : Twins(m, out[i])
    BY <2>2, <1>5
  <2> QED
    BY <2>1, <2>2 DEF Places, Twinned
<1> QED
  BY <1>11, <1>12, <1>13, <1>14, <1>15 DEF Places

LEMMA ReceivePlaces ==
  ASSUME IInv, Places, NEW p \in Packets, Receive(p) PROVE Places'
<1> USE PacketQueueAssumption
<1>1. PICK to : /\ arrived' = arrived \union {[packet |-> p, to |-> to]}
                /\ data' = [packet |-> p, now |-> gt, to |-> to]
  BY DEF Receive
<1>2. /\ data.packet = NoPacket /\ \A a \in arrived : a.packet # p
      /\ UNCHANGED <<queue, out, refused>>
  BY DEF Receive, history
<1>3. data.to = {}
  BY <1>2 DEF IInv, Messages
<1>4. \A q, n : /\ ~InHand(q, n)
                /\ InHand(q, n)' <=> q = p /\ n \in to
                /\ Queued(q, n)' <=> Queued(q, n)
                /\ Gone(q, n)' <=> Gone(q, n)
                /\ Refused(q, n)' <=> Refused(q, n)
  BY <1>1, <1>2, <1>3 DEF InHand, Queued, Gone, Refused, Is
<1>5. \A n : ~Queued(p, n) /\ ~Gone(p, n) /\ ~Refused(p, n)
  BY <1>2 DEF Places, Somewhere
<1> DEFINE b == [packet |-> p, to |-> to]
<1>6. b.packet = p /\ b.to = to /\ arrived' = arrived \union {b}
  BY <1>1
<1> HIDE DEF b
<1>7. Received'
  <2>1. /\ out' \in Seq(Msg) /\ refused' \subseteq Msg
        /\ \A a \in arrived' : a.packet \in Packets
        /\ \A x, y \in arrived' : x.packet = y.packet => x = y
    BY <1>2, <1>6 DEF Places, Received
  <2>2. b \in arrived' /\ b.packet = data'.packet /\ data'.to \subseteq b.to
    BY <1>1, <1>6
  <2> QED
    BY <2>1, <2>2 DEF Received
<1>8. Apart'
  BY <1>4, <1>5 DEF Places, Apart
<1>9. Once'
  BY <1>2 DEF Places, Once, Is
<1>10. Somewhere'
  <2> SUFFICES ASSUME NEW q, NEW n
               PROVE  (q \in Packets /\ (\/ InHand(q, n)' \/ Queued(q, n)'
                                         \/ Gone(q, n)' \/ Refused(q, n)'))
                      <=> \E a \in arrived' : a.packet = q /\ n \in a.to
    BY DEF Somewhere
  <2>1. (\E a \in arrived' : a.packet = q /\ n \in a.to)
        <=> (q = p /\ n \in to) \/ \E a \in arrived : a.packet = q /\ n \in a.to
    BY <1>6
  <2>2. (q \in Packets /\ (Queued(q, n) \/ Gone(q, n) \/ Refused(q, n)))
        <=> \E a \in arrived : a.packet = q /\ n \in a.to
    BY <1>4 DEF Places, Somewhere
  <2> QED
    BY <1>4, <2>1, <2>2
<1>11. Twinned'
  BY <1>2 DEF Places, Twinned, Twins
<1> QED
  BY <1>7, <1>8, <1>9, <1>10, <1>11 DEF Places

\* A message goes out, or into the queue, or is refused for one of its times.
LEMMA SendPlaces ==
  ASSUME IInv, Places, NEW n \in Nodes, Send(n) PROVE Places'
<1> USE PacketQueueAssumption
<1>1. PICK delay \in Delays, tick \in Ticks :
        /\ clock' = clock + tick
        /\ LET m == Message(data.packet, n, data.now + delay, clock')
           IN \/ out' = out \o <<m>> /\ UNCHANGED <<queue, refused>>
              \/ Insert(m) /\ UNCHANGED out
  BY DEF Send, ReallySend
<1> DEFINE m == Message(data.packet, n, data.now + delay, clock')
<1>2. clock' \in Nat
  BY <1>1 DEF IInv, TypeOK
<1>3. n \in data.to /\ data' = [data EXCEPT !.to = @ \ {n}] /\ UNCHANGED arrived
  BY DEF Send
<1>4. data.packet \in Packets
  BY <1>3 DEF IInv, TypeOK, Messages
<1>5. m \in Msg /\ m.packet = data.packet /\ m.node = n
  <2>1. data.now + delay \in Nat
    BY DEF IInv, TypeOK
  <2> QED
    BY <1>2, <1>4, <2>1 DEF Message, Msg
<1>6. out \o <<m>> = Append(out, m)
  BY <1>5 DEF Places, Received
<1>7. \/ out' = Append(out, m) /\ UNCHANGED <<queue, refused>>
      \/ queue' = queue \union {m} /\ UNCHANGED <<out, refused>>
      \/ /\ refused' = refused \union {m} /\ UNCHANGED <<out, queue>>
         /\ \E x \in queue : ~Before(x, m) /\ ~Before(m, x)
  BY <1>1, <1>6 DEF Insert
<1> HIDE DEF m
<1>8. out \in Seq(Msg) /\ refused \subseteq Msg
  BY DEF Places, Received
<1>9. \A p, k : InHand(p, k) <=> InHand(p, k)' \/ (p = data.packet /\ k = n)
  BY <1>3 DEF InHand, IInv, TypeOK
<1>10. \A p : ~InHand(p, n)'
  BY <1>3 DEF InHand, IInv, TypeOK
<1>11. ~Queued(data.packet, n) /\ ~Gone(data.packet, n) /\ ~Refused(data.packet, n)
  BY <1>3 DEF Places, Apart, InHand
<1>12. Received'
  <2>1. out' \in Seq(Msg) /\ refused' \subseteq Msg
    BY <1>5, <1>7, <1>8
  <2>2. data'.packet = data.packet /\ data'.to \subseteq data.to
    BY <1>3 DEF IInv, TypeOK
  <2> QED
    BY <1>3, <2>1, <2>2 DEF Places, Received
<1>13. CASE out' = Append(out, m) /\ UNCHANGED <<queue, refused>>
  <2>1. /\ Len(out) \in Nat /\ Len(out') = Len(out) + 1
        /\ \A i \in 1..Len(out) : out'[i] = out[i]
        /\ out'[Len(out) + 1] = m
    BY <1>5, <1>8, <1>13, AppendProperties
  <2>2. \A i \in 1..Len(out') : i \in 1..Len(out) \/ i = Len(out) + 1
    BY <2>1
  <2>3. 1..Len(out) \subseteq 1..Len(out') /\ Len(out) + 1 \in 1..Len(out')
    BY <2>1
  <2>4. \A p, k : Gone(p, k)' <=> Gone(p, k) \/ (p = data.packet /\ k = n)
    BY <1>5, <2>1, <2>2, <2>3 DEF Gone, Is
  <2>5. \A p, k : (Queued(p, k)' <=> Queued(p, k)) /\ (Refused(p, k)' <=> Refused(p, k))
    BY <1>13 DEF Queued, Refused, Is
  <2>6. \A i \in 1..Len(out) : ~Is(out[i], data.packet, n)
    BY <1>11 DEF Gone
  <2>7. Once'
    <3>1. \A i, j \in 1..Len(out') :
            Is(out'[i], out'[j].packet, out'[j].node) => i = j
      BY <1>5, <2>1, <2>2, <2>6 DEF Places, Once, Is
    <3> QED
      BY <1>13, <3>1 DEF Places, Once, Is
  <2>8. Apart'
    <3> SUFFICES ASSUME NEW p, NEW k
                 PROVE  /\ InHand(p, k)' => ~Queued(p, k)' /\ ~Gone(p, k)' /\ ~Refused(p, k)'
                        /\ Queued(p, k)' => ~Gone(p, k)' /\ ~Refused(p, k)'
                        /\ Gone(p, k)' => ~Refused(p, k)'
      BY DEF Apart
    <3>1. /\ InHand(p, k) => ~Queued(p, k) /\ ~Gone(p, k) /\ ~Refused(p, k)
          /\ Queued(p, k) => ~Gone(p, k) /\ ~Refused(p, k)
          /\ Gone(p, k) => ~Refused(p, k)
      BY DEF Places, Apart
    <3> QED
      BY <1>9, <1>10, <1>11, <2>4, <2>5, <3>1
  <2>9. Somewhere'
    BY <1>3, <1>9, <2>4, <2>5 DEF Places, Somewhere
  <2>10. Twinned'
    BY <1>13, <2>1, <2>3 DEF Places, Twinned, Twins
  <2> QED
    BY <1>12, <2>7, <2>8, <2>9, <2>10 DEF Places
<1>14. CASE queue' = queue \union {m} /\ UNCHANGED <<out, refused>>
  <2>1. \A p, k : Queued(p, k)' <=> Queued(p, k) \/ (p = data.packet /\ k = n)
    BY <1>5, <1>14 DEF Queued, Is
  <2>2. \A p, k : (Gone(p, k)' <=> Gone(p, k)) /\ (Refused(p, k)' <=> Refused(p, k))
    BY <1>14 DEF Gone, Refused, Is
  <2>3. \A x \in queue : ~Is(x, data.packet, n)
    BY <1>11 DEF Queued
  <2>4. Once'
    <3>1. \A x, y \in queue' : Is(x, y.packet, y.node) => x = y
      BY <1>5, <1>14, <2>3 DEF Places, Once, Is
    <3> QED
      BY <1>14, <3>1 DEF Places, Once, Is
  <2>5. Apart'
    <3> SUFFICES ASSUME NEW p, NEW k
                 PROVE  /\ InHand(p, k)' => ~Queued(p, k)' /\ ~Gone(p, k)' /\ ~Refused(p, k)'
                        /\ Queued(p, k)' => ~Gone(p, k)' /\ ~Refused(p, k)'
                        /\ Gone(p, k)' => ~Refused(p, k)'
      BY DEF Apart
    <3>1. /\ InHand(p, k) => ~Queued(p, k) /\ ~Gone(p, k) /\ ~Refused(p, k)
          /\ Queued(p, k) => ~Gone(p, k) /\ ~Refused(p, k)
          /\ Gone(p, k) => ~Refused(p, k)
      BY DEF Places, Apart
    <3> QED
      BY <1>9, <1>10, <1>11, <2>1, <2>2, <3>1
  <2>6. Somewhere'
    BY <1>3, <1>9, <2>1, <2>2 DEF Places, Somewhere
  <2>7. Twinned'
    BY <1>14 DEF Places, Twinned, Twins
  <2> QED
    BY <1>12, <2>4, <2>5, <2>6, <2>7 DEF Places
<1>15. CASE /\ refused' = refused \union {m} /\ UNCHANGED <<out, queue>>
            /\ \E x \in queue : ~Before(x, m) /\ ~Before(m, x)
  <2>1. \A p, k : Refused(p, k)' <=> Refused(p, k) \/ (p = data.packet /\ k = n)
    BY <1>5, <1>15 DEF Refused, Is
  <2>2. \A p, k : (Gone(p, k)' <=> Gone(p, k)) /\ (Queued(p, k)' <=> Queued(p, k))
    BY <1>15 DEF Gone, Queued, Is
  <2>3. \A x \in refused : ~Is(x, data.packet, n)
    BY <1>11 DEF Refused
  <2>4. Once'
    <3>1. \A x, y \in refused' : Is(x, y.packet, y.node) => x = y
      BY <1>5, <1>15, <2>3 DEF Places, Once, Is
    <3> QED
      BY <1>15, <3>1 DEF Places, Once, Is
  <2>5. Apart'
    <3> SUFFICES ASSUME NEW p, NEW k
                 PROVE  /\ InHand(p, k)' => ~Queued(p, k)' /\ ~Gone(p, k)' /\ ~Refused(p, k)'
                        /\ Queued(p, k)' => ~Gone(p, k)' /\ ~Refused(p, k)'
                        /\ Gone(p, k)' => ~Refused(p, k)'
      BY DEF Apart
    <3>1. /\ InHand(p, k) => ~Queued(p, k) /\ ~Gone(p, k) /\ ~Refused(p, k)
          /\ Queued(p, k) => ~Gone(p, k) /\ ~Refused(p, k)
          /\ Gone(p, k) => ~Refused(p, k)
      BY DEF Places, Apart
    <3> QED
      BY <1>9, <1>10, <1>11, <2>1, <2>2, <3>1
  <2>6. Somewhere'
    BY <1>3, <1>9, <2>1, <2>2 DEF Places, Somewhere
  <2>7. Twinned'
    <3>1. PICK x \in queue : ~Before(x, m) /\ ~Before(m, x)
      BY <1>15
    <3>2. Twins(m, x)
      <4>1. x \in Msg
        BY DEF IInv, Messages
      <4> QED
        BY <3>1, <4>1, <1>5 DEF Before, Twins, Msg
    <3>3. \A y \in refused' : y = m \/ y \in refused
      BY <1>15
    <3> QED
      BY <1>15, <3>2, <3>3 DEF Places, Twinned, Twins
  <2> QED
    BY <1>12, <2>4, <2>5, <2>6, <2>7 DEF Places
<1> QED
  BY <1>7, <1>13, <1>14, <1>15

LEMMA CountPlaces == ASSUME IInv, Places, Count PROVE Places'
<1>1. /\ data.to = {} /\ data' = [packet |-> NoPacket, now |-> 0, to |-> {}]
      /\ UNCHANGED <<arrived, queue, out, refused>>
  BY DEF Count, history
<1>2. \A p, n : /\ InHand(p, n)' <=> InHand(p, n)
                /\ Queued(p, n)' <=> Queued(p, n)
                /\ Gone(p, n)' <=> Gone(p, n)
                /\ Refused(p, n)' <=> Refused(p, n)
  BY <1>1 DEF InHand, Queued, Gone, Refused, Is
<1>3. Received' /\ Once' /\ Twinned'
  BY <1>1 DEF Places, Received, Once, Twinned, Twins, Is
<1>4. Apart' /\ Somewhere'
  BY <1>1, <1>2 DEF Places, Apart, Somewhere
<1> QED
  BY <1>3, <1>4 DEF Places

LEMMA StepPlaces == ASSUME IInv, Places, [Next]_vars PROVE Places'
<1>1. CASE UNCHANGED <<data, arrived, queue, out, refused>>
  BY <1>1 DEF Places, Received, Apart, Once, Somewhere, Twinned, Twins, InHand, Queued,
              Gone, Refused, Is
<1>2. CASE StartSync \/ ComputeQuantum \/ GT_advance \/ UNCHANGED vars
  BY <1>1, <1>2 DEF StartSync, ComputeQuantum, GT_advance, vars, history
<1> QED
  BY <1>2, SendPacketsPlaces, ReceivePlaces, SendPlaces, CountPlaces
  DEF Next, CtrlNext, DataNext

LEMMA PlacesAccount == ASSUME IInv, Places PROVE Accounted
<1>0. \A m \in refused : \E x \in queue \union ToSet(out) : Twins(m, x)
  <2>1. \A i \in 1..Len(out) : out[i] \in ToSet(out)
    BY DEF Places, Received, ToSet
  <2> QED
    BY <2>1 DEF Places, Twinned
<1> SUFFICES ASSUME NEW a \in arrived, NEW n \in a.to
             PROVE  Copies(a.packet, n)
                    = IF data.packet = a.packet /\ n \in data.to THEN 0 ELSE 1
  BY <1>0 DEF Accounted
<1> DEFINE p == a.packet
           inQueue == {m \in queue : m.packet = p /\ m.node = n}
           passed == {i \in DOMAIN out : out[i].packet = p /\ out[i].node = n}
           dropped == {m \in refused : m.packet = p /\ m.node = n}
<1>1. DOMAIN out = 1..Len(out)
  BY DEF Places, Received
<1>2. Cardinality(inQueue) = IF Queued(p, n) THEN 1 ELSE 0
  <2>1. CASE ~Queued(p, n)
    <3>1. inQueue = {}
      BY <2>1 DEF Queued, Is
    <3> QED
      BY <2>1, <3>1, FS_EmptySet
  <2>2. CASE Queued(p, n)
    <3>1. PICK m \in queue : Is(m, p, n)
      BY <2>2 DEF Queued
    <3>2. inQueue = {m}
      BY <3>1 DEF Places, Once, Is
    <3> QED
      BY <2>2, <3>2, FS_Singleton
  <2> QED
    BY <2>1, <2>2
<1>3. Cardinality(passed) = IF Gone(p, n) THEN 1 ELSE 0
  <2>1. CASE ~Gone(p, n)
    <3>1. passed = {}
      BY <1>1, <2>1 DEF Gone, Is
    <3> QED
      BY <2>1, <3>1, FS_EmptySet
  <2>2. CASE Gone(p, n)
    <3>1. PICK i \in 1..Len(out) : Is(out[i], p, n)
      BY <2>2 DEF Gone
    <3>2. passed = {i}
      BY <1>1, <3>1 DEF Places, Once, Is
    <3> QED
      BY <2>2, <3>2, FS_Singleton
  <2> QED
    BY <2>1, <2>2
<1>4. Cardinality(dropped) = IF Refused(p, n) THEN 1 ELSE 0
  <2>1. CASE ~Refused(p, n)
    <3>1. dropped = {}
      BY <2>1 DEF Refused, Is
    <3> QED
      BY <2>1, <3>1, FS_EmptySet
  <2>2. CASE Refused(p, n)
    <3>1. PICK m \in refused : Is(m, p, n)
      BY <2>2 DEF Refused
    <3>2. dropped = {m}
      BY <3>1 DEF Places, Once, Is
    <3> QED
      BY <2>2, <3>2, FS_Singleton
  <2> QED
    BY <2>1, <2>2
<1>5. Copies(p, n) = Cardinality(inQueue) + Cardinality(passed) + Cardinality(dropped)
  BY DEF Copies
<1>6. InHand(p, n) \/ Queued(p, n) \/ Gone(p, n) \/ Refused(p, n)
  BY DEF Places, Somewhere
<1>7. /\ InHand(p, n) => ~Queued(p, n) /\ ~Gone(p, n) /\ ~Refused(p, n)
      /\ Queued(p, n) => ~Gone(p, n) /\ ~Refused(p, n)
      /\ Gone(p, n) => ~Refused(p, n)
  BY DEF Places, Apart
<1>8. InHand(p, n) <=> data.packet = a.packet /\ n \in data.to
  BY DEF InHand
<1> HIDE DEF inQueue, passed, dropped
<1> QED
  BY <1>2, <1>3, <1>5, <1>6, <1>7, <1>8, <1>4

\* What becomes of a packet (scheduler.cpp:41): for any nodes, packets, delays,
\* quanta and any clock, it is in one place for each of its destinations, once,
\* and one that the queue's set has refused has a twin of its times.
THEOREM EachOnce == Spec => []Accounted
<1>1. Init => Places
  BY InitPlaces
<1>2. IInv /\ Places /\ [Next]_vars => Places'
  BY StepPlaces
<1>3. IInv /\ Places => Accounted
  BY PlacesAccount
<1> QED
  BY <1>1, <1>2, <1>3, Invariance, PTL DEF Spec

=============================================================================
