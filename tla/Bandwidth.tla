------------------------------ MODULE Bandwidth ------------------------------
(***************************************************************************)
(* The timer `bandwidth' (abaeterno/timer_cpu/bandwidth.cpp).              *)
(*                                                                         *)
(* The instructions that the emulator executes wait in a queue until the   *)
(* next one lies on another cache line.  Then the timer runs cycles until  *)
(* one line is left: it commits from the reorder buffer, performs accesses *)
(* as far as the cache has ports, and fetches from the queue, one line in  *)
(* a cycle.  The stages are actions, and so is every instruction that goes *)
(* through one of the last two.                                            *)
(*                                                                         *)
(* Instructions are held by their addresses in the pool of the CPU, which  *)
(* keeps the last `history' of them.                                       *)
(***************************************************************************)
EXTENDS Naturals, Sequences, SequencesExt, FiniteSetsExt

CONSTANTS
  Code,           \* the instructions: address, and number of loads and stores
  LineSize,
  Repeats,        \* an instruction may follow on itself
  ILats, DLats,   \* latencies of the caches
  DcachePorts, FetchWidth, ExecuteWidth, BufferSize,
  Idles,          \* cycles that the emulator may be idle at a time
  MaxIns, MaxCycles, \* bounds of the model: no instruction is given after them
  Patience        \* and a call that is still running then counts as hung

BandwidthAssumption ==
  /\ Code \subseteq [addr : Nat, loads : Nat, stores : Nat]
  /\ LineSize \in Nat \ {0} /\ Repeats \in BOOLEAN
  /\ ILats \subseteq Nat /\ DLats \subseteq Nat /\ Idles \subseteq Nat
  /\ {DcachePorts, FetchWidth, ExecuteWidth, BufferSize} \subseteq Nat \ {0}
  /\ MaxIns \in Nat /\ MaxCycles \in Nat /\ Patience \in Nat

VARIABLES
  stage,         \* "wait" between calls; else the stage of the cycle
  q, lines_, more_in_line_, \* class Waiting
  insns,         \* class ReorderBuffer, the oldest first
  non_executed_, \* id of the instruction it points to; 0 for end()
  icache_waiting,
  next,          \* fetched from the queue, not yet in the buffer
  ports, remaining, \* locals of the running stage
  cycles,
  sim_state,
  given,         \* instructions so far; they are numbered
  retired        \* the last one that is gone

waiting == <<q, lines_, more_in_line_>>
reorder == <<insns, non_executed_>>
fetch   == <<icache_waiting, next>>
counts  == <<given, retired>>
vars == <<stage, waiting, reorder, fetch, ports, remaining, cycles, sim_state,
          counts>>

None == [id |-> 0, addr |-> 0, loads |-> 0, stores |-> 0]

\* trace_needs.history
History == 2 * BufferSize

Init ==
  /\ stage = "wait" /\ sim_state = "FUNCTIONAL"
  /\ q = <<>> /\ lines_ = 0 /\ more_in_line_ = FALSE
  /\ insns = <<>> /\ non_executed_ = 0
  /\ icache_waiting = 0 /\ next = None
  /\ ports = 0 /\ remaining = 0 /\ cycles = 0
  /\ given = 0 /\ retired = 0

-----------------------------------------------------------------------------
\* class Waiting

\* b, after a, begins another line: it lies on one, or jumps back
Breaks(a, b) == a.addr \div LineSize # b.addr \div LineSize \/ a.addr > b.addr

WaitingAdd(inst) ==
  /\ q' = Append(q, inst)
  /\ lines_' = IF q = <<>> THEN 1
               ELSE IF Breaks(Last(q), inst) THEN lines_ + 1 ELSE lines_
  /\ UNCHANGED more_in_line_

\* Waiting::next returns the head of the queue, which it takes
WaitingNext ==
  /\ q # <<>>
  /\ q' = Tail(q)
  /\ more_in_line_' = (q' # <<>> /\ ~Breaks(Head(q), Head(q')))
  /\ lines_' = IF q' = <<>> THEN 0
               ELSE IF more_in_line_' THEN lines_ ELSE lines_ - 1

-----------------------------------------------------------------------------
\* Calls of the timer

\* simulation, and the warmings, which call it
Simulate(inst) ==
  /\ stage = "wait" /\ sim_state # "FUNCTIONAL"
  /\ cycles < MaxCycles /\ given < MaxIns
  /\ q # <<>> /\ ~Repeats => Last(q).addr # inst.addr
  /\ WaitingAdd(inst)
  /\ given' = given + 1
  /\ stage' = IF lines_' > 1 THEN "commit" ELSE "wait"
  /\ UNCHANGED <<reorder, fetch, ports, remaining, cycles, sim_state, retired>>

Idle(c) ==
  /\ stage = "wait"
  /\ cycles + c <= MaxCycles
  /\ cycles' = cycles + c
  /\ UNCHANGED <<stage, waiting, reorder, fetch, ports, remaining, sim_state, counts>>

\* Mutant: the instruction between queue and buffer is not dropped.
EndSimulation_KeepNext ==
  /\ q' = <<>> /\ lines_' = 0 /\ more_in_line_' = FALSE
  /\ insns' = <<>> /\ non_executed_' = 0
  /\ icache_waiting' = 0 /\ next' = next
  /\ retired' = given

EndSimulation ==
  /\ q' = <<>> /\ lines_' = 0 /\ more_in_line_' = FALSE
  /\ insns' = <<>> /\ non_executed_' = 0
  /\ icache_waiting' = 0 /\ next' = None
  /\ retired' = given

\* doSetState.  A warming sample is broken before it comes to FUNCTIONAL.
\* beginSimulation clears the metrics, and cycles is one of them.
SetState(new) ==
  /\ stage = "wait"
  /\ <<sim_state, new>> # <<"SIMULATION", "FULL_WARMING">>
  /\ sim_state' = new
  /\ IF sim_state = "SIMULATION" THEN EndSimulation
     ELSE UNCHANGED <<waiting, reorder, fetch, retired>>
  /\ cycles' = IF new = "SIMULATION" THEN 0 ELSE cycles
  /\ UNCHANGED <<stage, ports, remaining, given>>

-----------------------------------------------------------------------------
\* simulate_one_cycle

\* Mutant: it is enough that an instruction has come to its cycle.
CanCommit_Unexecuted(inst) == inst.finish_cycle <= cycles

CanCommit(inst) == inst.executed /\ inst.finish_cycle <= cycles

\* commit_stage.  Every instruction that can go goes: the loop does not count
\* max_commit_per_cycle_ down, which is but tested for 0.
Commit ==
  /\ stage = "commit"
  /\ LET n == Max({k \in 0..Len(insns) : \A i \in 1..k : CanCommit(insns[i])})
     IN /\ insns' = SubSeq(insns, n + 1, Len(insns))
        /\ retired' = retired + n
  /\ stage' = "begin memory"
  /\ UNCHANGED <<waiting, non_executed_, fetch, ports, remaining, cycles, sim_state,
                 given>>

\* memory_stage begins: ReorderBuffer::non_executed
BeginMemory ==
  /\ stage = "begin memory"
  /\ ports' = DcachePorts /\ remaining' = ExecuteWidth
  /\ LET i == SelectInSeq(insns, LAMBDA e : ~e.executed)
     IN non_executed_' = IF non_executed_ # 0 \/ i = 0 THEN non_executed_
                         ELSE insns[i].id
  /\ stage' = "memory"
  /\ UNCHANGED <<waiting, insns, fetch, cycles, sim_state, counts>>

\* position of non_executed_ in the buffer
Non == SelectInSeq(insns, LAMBDA e : e.id = non_executed_)

\* Mutant: the iterators over the accesses start again in the next cycle.
Accessed_Again(inst, l, s, lat) ==
  [inst EXCEPT !.finish_cycle = IF l > 0 THEN Max({@, cycles + lat}) ELSE @,
               !.executed = l = inst.loads /\ s = inst.stores]

\* an instruction after l of its loads, the slowest in lat, and s stores, which
\* nobody waits for
Accessed(inst, l, s, lat) ==
  [inst EXCEPT !.loads = @ - l, !.stores = @ - s,
               !.finish_cycle = IF l > 0 THEN Max({@, cycles + lat}) ELSE @,
               !.executed = l = inst.loads /\ s = inst.stores]

MemoryGoesOn == ports > 0 /\ non_executed_ # 0 /\ remaining > 0

\* memory_stage, one instruction
Memory ==
  /\ stage = "memory" /\ MemoryGoesOn
  /\ LET inst == insns[Non]
         l == Min({ports, inst.loads})
         s == Min({ports - l, inst.stores})
         done == l = inst.loads /\ s = inst.stores
     IN /\ \E lat \in IF l > 0 THEN DLats ELSE {0} :
             insns' = [insns EXCEPT ![Non] = Accessed(inst, l, s, lat)]
        /\ ports' = ports - l - s
        /\ non_executed_' = IF ~done THEN non_executed_
                            ELSE IF Non = Len(insns) THEN 0 ELSE insns[Non + 1].id
        /\ remaining' = IF done THEN remaining - 1 ELSE 0
  /\ UNCHANGED <<stage, waiting, fetch, cycles, sim_state, counts>>

EndMemory ==
  /\ stage = "memory" /\ ~MemoryGoesOn
  /\ stage' = "fetch"
  /\ remaining' = FetchWidth
  /\ UNCHANGED <<waiting, reorder, fetch, ports, cycles, sim_state, counts>>

\* Mutant: a full buffer takes one more.
Full_OffByOne == Len(insns) > BufferSize

Full == Len(insns) = BufferSize

\* the end of a cycle, and of the call if there is but one line left
EndCycle ==
  /\ cycles < Patience
  /\ cycles' = cycles + 1
  /\ stage' = IF lines_' > 1 THEN "commit" ELSE "wait"

\* fetch_stage: the line is still being loaded
FetchWaits ==
  /\ stage = "fetch" /\ icache_waiting > 0
  /\ icache_waiting' = icache_waiting - 1
  /\ UNCHANGED <<waiting, reorder, next, ports, remaining, sim_state, counts>>
  /\ EndCycle

\* fetch_stage: the first instruction of a line is looked up
FetchLine ==
  /\ stage = "fetch" /\ icache_waiting = 0
  /\ ~Full /\ remaining > 0 /\ next = None
  /\ WaitingNext
  /\ next' = Head(q)
  /\ \E lat \in ILats :
       \/ /\ lat = 0
          /\ UNCHANGED <<icache_waiting, stage, cycles>>
       \/ /\ lat > 0
          /\ icache_waiting' = lat - 1
          /\ EndCycle
  /\ UNCHANGED <<reorder, ports, remaining, sim_state, counts>>

\* ReorderBuffer::add
ReorderAdd(inst) ==
  /\ insns' = Append(insns, [id |-> inst.id, addr |-> inst.addr, loads |-> inst.loads,
                            stores |-> inst.stores, executed |-> FALSE,
                            finish_cycle |-> 0])
  /\ non_executed_' = IF non_executed_ = 0 THEN inst.id ELSE non_executed_

\* fetch_stage: an instruction goes to the buffer, and the next one of its
\* line, if there is one, comes from the queue
FetchOne ==
  /\ stage = "fetch" /\ icache_waiting = 0
  /\ ~Full /\ remaining > 0 /\ next # None
  /\ ReorderAdd(next)
  /\ remaining' = remaining - 1
  /\ \/ /\ more_in_line_
        /\ WaitingNext /\ next' = Head(q)
        /\ UNCHANGED <<stage, cycles>>
     \/ /\ ~more_in_line_
        /\ next' = None
        /\ UNCHANGED waiting
        /\ EndCycle
  /\ UNCHANGED <<icache_waiting, ports, sim_state, counts>>

\* fetch_stage: nothing, or nothing more, can be fetched in this cycle
FetchEnds ==
  /\ stage = "fetch" /\ icache_waiting = 0
  /\ Full \/ remaining = 0
  /\ UNCHANGED <<waiting, reorder, fetch, ports, remaining, sim_state, counts>>
  /\ EndCycle

Cycle ==
  \/ Commit \/ BeginMemory \/ Memory \/ EndMemory
  \/ FetchWaits \/ FetchLine \/ FetchOne \/ FetchEnds

Next ==
  \/ \E i \in Code : Simulate([id |-> given + 1, addr |-> i.addr,
                              loads |-> i.loads, stores |-> i.stores])
  \/ \E c \in Idles : Idle(c)
  \/ \E new \in {"FUNCTIONAL", "FULL_WARMING", "SIMULATION"} : SetState(new)
  \/ Cycle

\* the loop of simulation() goes on
Spec == Init /\ [][Next]_vars /\ WF_vars(Cycle)

-----------------------------------------------------------------------------
\* Properties

\* the instructions the timer remembers, the oldest first
Remembered ==
  [i \in DOMAIN insns |-> insns[i].id]
    \o (IF next = None THEN <<>> ELSE <<next.id>>)
    \o [i \in DOMAIN q |-> q[i].id]

\* The instructions of a sample go through queue, fetch and reorder buffer in
\* the order of the program; none is lost, none comes twice, none survives
\* the end of a simulation (Bandwidth::simulation, endSimulation).
InProgramOrder == Remembered = [i \in 1..given - retired |-> retired + i]

\* The iterator that the reorder buffer keeps while it is filled and emptied
\* never dangles: it points to the first instruction that is not executed,
\* or to the end when all are (ReorderBuffer::non_executed, remove_oldest).
CursorSound ==
  LET i == SelectInSeq(insns, LAMBDA e : ~e.executed)
  IN non_executed_ = IF i = 0 THEN 0 ELSE insns[i].id

BufferSound == InProgramOrder /\ CursorSound

\* "max number of instructions that a timer may remember" (trace_needs.h:79):
\* not so.  The queue keeps a whole line and the next instruction besides what
\* is in the buffer, and an instruction that jumps to itself for ever.
WithinHistory == Len(Remembered) <= History

\* An instruction in the reorder buffer waits for its own loads only.  Not so:
\* after a warming, beginSimulation takes the cycles back below those at which
\* the instructions in the buffer are finished.
OwnLatency == \A i \in DOMAIN insns : insns[i].finish_cycle <= cycles + Max(DLats)

\* simulation() returns: the instructions of a line are always fetched in the
\* end, whatever keeps the ports, the buffer or the caches busy.
Returns == stage # "wait" ~> stage = "wait"

=============================================================================
