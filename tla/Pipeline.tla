------------------------------- MODULE Pipeline -------------------------------
(***************************************************************************)
(* The pipeline of Timer1 (abaeterno/timer_cpu/timer1.cpp).                *)
(*                                                                         *)
(* The emulator's instructions are queued in `buffer'.  With enough of     *)
(* them, Timer1 runs cycles: it predicts basic blocks into `ftq', fetches  *)
(* from them into `window', and commits the window's instructions against  *)
(* the buffer's.  The prediction starts again at the next real instruction *)
(* when one was followed by another than predicted.  A cycle is one call   *)
(* per stage, from the last to the first; each is an action.               *)
(*                                                                         *)
(* What the BTB, the two-level predictor, the RAS and the caches answer is *)
(* arbitrary.  Addresses are physical; every instruction is one byte long, *)
(* but a prediction may think otherwise.                                   *)
(***************************************************************************)
EXTENDS Naturals, Sequences, FiniteSets, FiniteSetsExt

CONSTANTS
  Addrs,       \* addresses of the instructions, and of the predictions
  Nexts,       \* predicted successors; 0 is what an unused RAS entry holds
  PredSizes,   \* sizes that predictions give to instructions
  MaxBB,       \* longest predicted basic block
  Mems,        \* how many accesses an instruction makes
  MaxLat,      \* latency of the accesses of an instruction in a cycle
  ILats,       \* latencies of the icache
  DcachePorts, FetchWidth, CommitWidth, MaxFtq, MaxWindow, PipeStages,
  BpredLatency, Lookahead, \* PREDECODING_LOOKAHEAD
  MaxBuffer    \* bound of the model: a longer buffer waits for a control

ASSUME PipelineAssumption ==
  /\ Addrs \subseteq Nat \ {0} /\ Nexts \subseteq Addrs \union {0}
  /\ PredSizes \subseteq Nat \ {0} /\ MaxBB \in Nat \ {0}
  /\ Mems \subseteq Nat /\ MaxLat \in Nat
  /\ Max(ILats) \in Nat /\ ILats \subseteq 0..Max(ILats)
  /\ DcachePorts \in Nat \ {0} /\ CommitWidth \in Nat \ {0}
  /\ FetchWidth \in 1..MaxWindow /\ MaxWindow \in Nat /\ MaxFtq \in Nat \ {0}
  /\ PipeStages \in Nat /\ BpredLatency \in Nat /\ Lookahead \in Nat \ {0}
  /\ MaxBuffer \in Nat

VARIABLES
  stage,        \* which of sim_cycle's calls is next; "wait" between cycles
  prev,         \* the last instruction; its addr is 0 when there is none
  pnext,        \* prev.next: the address to predict from
  buffer,       \* instructions; `left' are the accesses between the iterators
  window,       \* `delay' is commit - cycles_internal, 0 when past
  ftq,          \* predicted basic blocks: addresses to fetch, and successor
  block,        \* the committed part of a basic block: addr and bytes
  bpred_delay, fetch_delay,
  looked_up,    \* the address of the last icache access
  leftover,     \* its delay was running when the fetch queue was squashed
  mistaken      \* a predicted 0 was taken for the lack of a prediction

pipe == <<buffer, window, ftq, bpred_delay, fetch_delay>>
vars == <<stage, prev, pnext, pipe, block, looked_up, leftover, mistaken>>

NoInst == [addr |-> 0, control |-> FALSE, mems |-> 0]

Init ==
  /\ buffer = <<>> /\ window = <<>> /\ ftq = <<>>
  /\ prev = NoInst /\ pnext = 0
  /\ block = [addr |-> 0, bytes |-> 0]
  /\ fetch_delay = 0
  /\ stage = "wait"
  /\ bpred_delay = BpredLatency
  /\ looked_up = 0 /\ leftover = FALSE /\ mistaken = FALSE

-----------------------------------------------------------------------------
\* simulateInstruction

HasPrev == prev.addr # 0

Interrupted(inst) ==
  HasPrev /\ ~prev.control /\ prev.addr + 1 # inst.addr

Buffered(inst) ==
  IF HasPrev
  THEN Append(buffer, [addr |-> prev.addr, next |-> inst.addr, left |-> prev.mems,
                       control |-> prev.control, interrupt |-> Interrupted(inst)])
  ELSE buffer

\* if (!prev.next)
Restart ==
  IF pnext = 0
  THEN /\ pnext' = prev.addr
       /\ block' = [block EXCEPT !.addr = prev.addr]
       /\ mistaken' = (mistaken \/ Len(buffer') > 1)
  ELSE UNCHANGED <<pnext, block, mistaken>>

Simulate(inst) ==
  /\ stage = "wait"
  /\ Len(buffer) < MaxBuffer \/ inst.control
  /\ Len(buffer) <= MaxBuffer
  /\ buffer' = Buffered(inst)
  /\ Restart
  /\ prev' = inst
  \* the cycles wait for beginsNewBB, which is set here by a control
  /\ stage' = IF Len(buffer') > Lookahead * CommitWidth /\ inst.control
              THEN "dcache" ELSE "wait"
  /\ UNCHANGED <<window, ftq, bpred_delay, fetch_delay, looked_up, leftover>>

\* cycles_internal advances by c
Later(c) ==
  [i \in DOMAIN window |-> [window[i] EXCEPT !.delay = IF @ > c THEN @ - c ELSE 0]]

\* idle
Idle(c) ==
  /\ stage = "wait"
  /\ window' = Later(c)
  /\ UNCHANGED <<stage, prev, pnext, buffer, ftq, bpred_delay, fetch_delay, block,
                 looked_up, leftover, mistaken>>

\* Mutant: the delay of the icache is not reset.
EndSimulation_KeepDelay ==
  /\ stage = "wait"
  /\ buffer' = <<>> /\ window' = <<>> /\ ftq' = <<>>
  /\ prev' = NoInst /\ pnext' = 0
  /\ block' = [addr |-> 0, bytes |-> 0]
  /\ fetch_delay' = fetch_delay
  /\ bpred_delay' = BpredLatency
  /\ leftover' = FALSE /\ mistaken' = FALSE
  /\ UNCHANGED <<stage, looked_up>>

EndSimulation ==
  /\ stage = "wait"
  /\ buffer' = <<>> /\ window' = <<>> /\ ftq' = <<>>
  /\ prev' = NoInst /\ pnext' = 0
  /\ block' = [addr |-> 0, bytes |-> 0]
  /\ fetch_delay' = 0
  /\ bpred_delay' = BpredLatency
  /\ leftover' = FALSE /\ mistaken' = FALSE
  /\ UNCHANGED <<stage, looked_up>>

-----------------------------------------------------------------------------
\* sim_dcache

\* Mutant: the addresses are not compared.
Matching_Any == 1..Min({Len(window), Len(buffer), 2 * CommitWidth})

\* the instructions of the window that are the buffer's
Matching ==
  LET n == Min({Len(window), Len(buffer), 2 * CommitWidth})
  IN {i \in 1..n : \A j \in 1..i : window[j].addr = buffer[j].addr}

\* how many ports the accesses of those before the i-th leave
PortsAt(i) ==
  LET asked == SumFunctionOnSet([j \in Matching |-> buffer[j].left],
                                {j \in Matching : j < i /\ ~window[j].ready})
  IN Cardinality({p \in 1..DcachePorts : p > asked})

Reached == {i \in Matching : ~window[i].ready /\ PortsAt(i) > 0}

Made(i) == Min({buffer[i].left, PortsAt(i)})

\* `lat' are the latencies; one that is past already adds less, or nothing
Dcache ==
  /\ stage = "dcache"
  /\ \E lat \in [{i \in Reached : buffer[i].left > 0} -> 0..MaxLat] :
       window' = [i \in DOMAIN window |->
         IF i \notin Reached THEN window[i]
         ELSE [window[i] EXCEPT !.delay = @ + (IF i \in DOMAIN lat THEN lat[i] ELSE 0),
                                !.ready = (Made(i) = buffer[i].left)]]
  /\ buffer' = [i \in DOMAIN buffer |->
       IF i \in Reached THEN [buffer[i] EXCEPT !.left = @ - Made(i)] ELSE buffer[i]]
  /\ stage' = "commit"
  /\ UNCHANGED <<prev, pnext, ftq, block, bpred_delay, fetch_delay,
                 looked_up, leftover, mistaken>>

-----------------------------------------------------------------------------
\* sim_commit

Predicted(i) == window[i].next = buffer[i].next

\* how many the loop commits
Committed ==
  Max({n \in 0..Min({CommitWidth, Len(window)}) :
         \A i \in 1..n : /\ window[i].ready /\ window[i].delay = 0
                         /\ i < n => Predicted(i)})

\* Mutant: an interrupt does not end the block.
Ends_Control(i) == buffer[i].control

Ends(i) == buffer[i].control \/ buffer[i].interrupt

\* the block when n instructions are committed: it begins behind the last of
\* them that ends one
Trained(n) ==
  LET ends == {i \in 1..n : Ends(i)}
  IN IF ends = {} THEN [block EXCEPT !.bytes = @ + n]
     ELSE [addr |-> buffer[Max(ends)].next, bytes |-> n - Max(ends)]

\* Mutant: the prediction goes on where it was.
Squash_Here(real) ==
  /\ window' = <<>> /\ ftq' = <<>>
  /\ pnext' = pnext
  /\ bpred_delay' = BpredLatency
  /\ leftover' = (leftover \/ fetch_delay > 0)

\* Mutant: the block being fetched stays.
Squash_KeepFtq(real) ==
  /\ window' = <<>> /\ ftq' = ftq
  /\ pnext' = real.next
  /\ bpred_delay' = BpredLatency
  /\ leftover' = (leftover \/ fetch_delay > 0)

\* the pipeline after it; everything younger than a misprediction goes
Squash(real) ==
  /\ window' = <<>> /\ ftq' = <<>>
  /\ pnext' = real.next
  /\ bpred_delay' = BpredLatency
  /\ leftover' = (leftover \/ fetch_delay > 0)

Commit ==
  /\ stage = "commit"
  /\ IF Committed > 0 /\ ~Predicted(Committed)
     THEN Squash(buffer[Committed])
     ELSE /\ window' = SubSeq(window, Committed + 1, Len(window))
          /\ UNCHANGED <<ftq, pnext, bpred_delay, leftover>>
  /\ block' = Trained(Committed)
  /\ buffer' = SubSeq(buffer, Committed + 1, Len(buffer))
  /\ stage' = "icache"
  /\ UNCHANGED <<prev, fetch_delay, looked_up, mistaken>>

-----------------------------------------------------------------------------
\* sim_icache, sim_fetch, sim_predict

Icache ==
  /\ stage = "icache"
  /\ IF fetch_delay = 0 /\ ftq # <<>>
     THEN /\ fetch_delay' \in ILats
          /\ looked_up' = ftq[1].path[1]
          /\ leftover' = FALSE
     ELSE /\ fetch_delay' = IF fetch_delay > 0 THEN fetch_delay - 1 ELSE 0
          /\ UNCHANGED <<looked_up, leftover>>
  /\ stage' = "fetch"
  /\ UNCHANGED <<prev, pnext, buffer, window, ftq, bpred_delay, block, mistaken>>

CanFetch == fetch_delay = 0 /\ ftq # <<>> /\ Len(window) + FetchWidth <= MaxWindow

\* the first k instructions of a block
Fetched(bb, k) ==
  [i \in 1..k |->
     [addr |-> bb.path[i], ready |-> FALSE, delay |-> PipeStages,
      next |-> IF i < Len(bb.path) THEN bb.path[i + 1] ELSE bb.next]]

\* how many depends on the bytes left of the line
Fetch ==
  /\ stage = "fetch"
  /\ IF CanFetch
     THEN \E k \in 1..Min({FetchWidth, Len(ftq[1].path)}) :
            /\ window' = window \o Fetched(ftq[1], k)
            /\ ftq' = IF k = Len(ftq[1].path) THEN Tail(ftq)
                      ELSE [ftq EXCEPT ![1].path = SubSeq(@, k + 1, Len(@))]
     ELSE UNCHANGED <<window, ftq>>
  /\ stage' = "predict"
  /\ UNCHANGED <<prev, pnext, buffer, bpred_delay, fetch_delay, block,
                 looked_up, leftover, mistaken>>

\* the addresses of at most MaxBB instructions from addr on
Paths(addr) ==
  {path \in UNION {[1..n -> addr..addr + MaxBB * Max(PredSizes)] : n \in 1..MaxBB} :
     /\ path[1] = addr
     /\ \A i \in 2..Len(path) : \E size \in PredSizes : path[i] = path[i - 1] + size}

\* bpred_predict: whatever the BTB and the RAS make of it
Prediction(addr) == [path : Paths(addr), next : Nexts]

\* and the end of the cycle
Predict ==
  /\ stage = "predict"
  /\ IF bpred_delay > 0
     THEN bpred_delay' = bpred_delay - 1 /\ UNCHANGED <<ftq, pnext>>
     ELSE IF Len(ftq) >= MaxFtq THEN UNCHANGED <<bpred_delay, ftq, pnext>>
     ELSE \E request \in Prediction(pnext) :
            /\ ftq' = Append(ftq, request)
            /\ pnext' = request.next
            /\ bpred_delay' = BpredLatency
  /\ window' = Later(1)
  /\ stage' = IF Len(buffer) > Lookahead * CommitWidth THEN "dcache" ELSE "wait"
  /\ UNCHANGED <<prev, buffer, fetch_delay, block, looked_up, leftover, mistaken>>

-----------------------------------------------------------------------------
Cycle == Dcache \/ Commit \/ Icache \/ Fetch \/ Predict

Next ==
  \/ \E a \in Addrs, c \in BOOLEAN, m \in Mems :
       Simulate([addr |-> a, control |-> c, mems |-> m])
  \/ Idle(1)
  \/ EndSimulation
  \/ Cycle

\* The cycles run inside one call: they are not left in the middle.
Spec == Init /\ [][Next]_vars /\ WF_vars(Cycle)

-----------------------------------------------------------------------------
\* Properties

\* The queues keep their limits.
TypeOK ==
  /\ stage \in {"wait", "dcache", "commit", "icache", "fetch", "predict"}
  /\ prev \in [addr : Addrs \union {0}, control : BOOLEAN, mems : Mems \union {0}]
  /\ pnext \in Nexts \union Addrs \union {0}
  /\ Len(buffer) <= MaxBuffer + 1
  /\ \A i \in DOMAIN buffer :
       buffer[i] \in [addr : Addrs, next : Addrs, left : Nat,
                      control : BOOLEAN, interrupt : BOOLEAN]
  /\ Len(window) <= MaxWindow
  /\ \A i \in DOMAIN window :
       window[i] \in [addr : Nat, next : Nat, ready : BOOLEAN, delay : Nat]
  /\ Len(ftq) <= MaxFtq
  /\ \A i \in DOMAIN ftq : Len(ftq[i].path) \in 1..MaxBB /\ ftq[i].next \in Nexts
  /\ block \in [addr : Addrs \union {0}, bytes : Nat]
  /\ bpred_delay \in 0..BpredLatency
  /\ fetch_delay \in 0..Max(ILats)
  /\ looked_up \in Nat /\ leftover \in BOOLEAN /\ mistaken \in BOOLEAN

\* The real instructions that are not committed, and the address that comes
\* next on the predicted path: the window, then the fetch queue, then the
\* prediction to come.
Program == [i \in DOMAIN buffer |-> buffer[i].addr] \o <<prev.addr>>
Ahead(i) ==
  IF i <= Len(window) THEN window[i].addr
  ELSE IF ftq # <<>> THEN ftq[1].path[1] ELSE pnext

\* As long as the predictions before were right, the instruction of the
\* window at a place is the one of the buffer at that place, and so is what
\* will be fetched there: sim_commit's ERROR_IF (timer1.cpp:661) never
\* fires, and a misprediction has its own instruction to be found out by.
OnPath ==
  /\ TypeOK
  /\ HasPrev /\ pnext # 0 => Ahead(1) = Program[1]
  /\ \A i \in 1..Len(window) :
       (i < Len(Program) /\ \A j \in 1..i : Predicted(j)) => Ahead(i + 1) = Program[i + 1]
  /\ Committed <= Len(buffer)

\* An instruction is ready only when every access of the real instruction at
\* its place has been made: a squash may fetch it again, but neither loses
\* accesses nor takes them over from another instruction.
Performed ==
  \A i \in DOMAIN window :
    window[i].ready => /\ i <= Len(buffer)
                       /\ window[i].addr = buffer[i].addr
                       /\ buffer[i].left = 0

\* What is fetched is what the icache was last asked for, but for the first
\* fetch after a squash in the midst of an access: the delay of the old path
\* stands for the access to the new one, which is not made (timer1.cpp:503).
FetchedLine ==
  stage = "fetch" /\ fetch_delay = 0 /\ ftq # <<>> /\ ~leftover =>
    looked_up = ftq[1].path[1]

\* The block that the BTB will be trained with ends where the oldest
\* instruction begins, whatever was predicted and squashed; a predicted
\* address of 0 (an unused entry of the RAS) is taken for the start of a
\* sample and moves its address (timer1.cpp:359).
BlockIntact ==
  HasPrev /\ pnext # 0 /\ ~mistaken => block.addr + block.bytes = Program[1]

\* However wrong the predictions are, the cycles come to an end: some
\* instruction is committed again and again.
Drains == stage # "wait" ~> stage = "wait"
=============================================================================
