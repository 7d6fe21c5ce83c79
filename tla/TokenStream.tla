----------------------------- MODULE TokenStream -----------------------------
(***************************************************************************)
(* From the emulator's tokens to the timer of one CPU                      *)
(* (abaeterno/parsing/cpu_token_parser.cpp, main/interleaver.cpp,          *)
(* timer_cpu/timer0.cpp and timer1.cpp).                                   *)
(*                                                                         *)
(* The emulator writes the tokens of every instruction to a queue and      *)
(* delivers it when it likes; run() turns tokens into instructions in the  *)
(* ring.  At the end of a quantum all of them are handed on to the timer,  *)
(* which remembers some by their addresses.  A change of the simulation    *)
(* state empties the ring if the timer needs other tokens from then on; so *)
(* does a cpuid that breaks a sample, from the midst of handing on.        *)
(***************************************************************************)
EXTENDS InstructionRing

CONSTANTS
  Hold,  \* the timer remembers so many instructions; TraceNeeds::history
         \* counts the fake ones of cpuids too, which the timer does not get
  Timers, \* the timers that the CPU may have
  Shapes, \* the instructions that the guest may execute
  MaxCode \* bound of the model: how many

\* the tokens of an instruction, by what it is
Kinds ==
  [plain    |-> <<"inst">>,
   load     |-> <<"inst", "mem">>,
   prefetch |-> <<"prefetch", "inst">>,
   cpuid    |-> <<"cpuid", "inst">>,
   asm      |-> <<"cpuid", "inst", "mem">>,
   unknown  |-> <<"noinst", "mem">>]

ASSUME TokenStreamAssumption ==
  /\ Timers \subseteq {"timer0", "timer1", "timer_dep"}
  /\ Hold \in Nat /\ 2 * Hold <= Space /\ MaxCode \in Nat
  /\ Shapes \subseteq DOMAIN Kinds

VARIABLES
  executed,   \* instructions of the guest so far; also the pc of the last
  writing,    \* its tokens that are still to be written
  tokens,     \* the queue, from head to tail
  pc,         \* "guest", "run" inside run(), "emit" inside end_quantum
  ending,     \* what follows on run(): "guest", "quantum" or "sample"
  current,    \* current_inst, an address, or NoInst
  pending,    \* prefetch_address
  sim_state,
  cpu_timer,  \* the timer of the CPU
  held,       \* what the timer remembers, the oldest first
  accesses,   \* pcs of the instructions that access memory
  cut         \* and of those whose access was delivered apart from them

parser == <<tokens, pc, ending, current, pending>>
guest  == <<executed, writing, accesses, cut>>
timer  == <<cpu_timer, held>>
vars   == <<ring, parser, guest, timer, sim_state>>

NoInst == [ring |-> 0, slot |-> 0]
Token(k, p) == [kind |-> k, pc |-> p]

\* TraceNeeds::st: the tokens that a state needs.  "trace" are code, memory,
\* exceptions and heartbeats; the registers are for the simulation of TimerDep.
Needs(st) ==
  {need \in {"trace", "register"} :
     /\ st # "FUNCTIONAL"
     /\ need = "register" => cpu_timer = "timer_dep" /\ st = "SIMULATION"}

StreamInit ==
  /\ Init
  /\ executed = 0 /\ writing = <<>> /\ accesses = {} /\ cut = {}
  /\ tokens = <<>> /\ pc = "guest" /\ ending = "guest"
  /\ current = NoInst /\ pending = {}
  /\ sim_state \in {"FUNCTIONAL", "FULL_WARMING", "SIMULATION"}
  /\ cpu_timer \in Timers /\ held = <<>>

-----------------------------------------------------------------------------
\* The emulator

\* The tokens of the instruction at p.  Those of a tag, prefetch or custom
\* asm, and of a cpuid come first.  The opcode of an "unknown" one is gone with
\* the last change of state, and so are tags.
TokensOf(shape, p) ==
  [i \in DOMAIN Kinds[shape] |-> Token(Kinds[shape][i], p)]

\* the guest executes an instruction; nothing is injected in FUNCTIONAL
Execute ==
  /\ pc = "guest" /\ writing = <<>>
  /\ Needs(sim_state) # {}
  /\ executed < MaxCode
  /\ executed' = executed + 1
  /\ \E s \in Shapes :
       /\ writing' = TokensOf(s, executed + 1)
       /\ accesses' = IF s \in {"load", "prefetch", "asm"}
                      THEN accesses \union {executed + 1} ELSE accesses
  /\ UNCHANGED <<ring, parser, timer, sim_state, cut>>

Write ==
  /\ pc = "guest" /\ writing # <<>>
  /\ tokens' = Append(tokens, Head(writing))
  /\ writing' = Tail(writing)
  /\ UNCHANGED <<ring, pc, ending, current, pending, timer, sim_state,
                 executed, accesses, cut>>

\* DeliverEventQueue, "not synchronous"; add_tokens when the queue is full
Deliver ==
  /\ pc = "guest" /\ tokens # <<>>
  /\ pc' = "run" /\ ending' = "guest" /\ current' = NoInst
  /\ cut' = IF writing # <<>> /\ Head(writing).kind = "mem"
            THEN cut \union {executed} ELSE cut
  /\ UNCHANGED <<ring, tokens, pending, timer, sim_state, executed, writing, accesses>>

\* QuantumEnd, or the callback at the end of a sample: endQuantum
Quantum(e) ==
  /\ pc = "guest" /\ writing = <<>>
  /\ pc' = "run" /\ ending' = e /\ current' = NoInst
  /\ UNCHANGED <<ring, tokens, pending, timer, sim_state, guest>>

-----------------------------------------------------------------------------
\* CpuTokenParser::run, token by token

Taken == pc = "run" /\ tokens # <<>> /\ tokens' = Tail(tokens)

\* the address that alloc is about to give out
NewAddress == IF elems = safe_size THEN [ring |-> pul + 1, slot |-> elems]
              ELSE [ring |-> pul, slot |-> in]

\* Mutant: pending prefetches stay for the next instruction, too.
EventInstruction_KeepPending ==
  /\ Taken /\ Head(tokens).kind = "inst"
  /\ Alloc(Head(tokens).pc, pending)
  /\ current' = NewAddress
  /\ UNCHANGED <<pc, ending, pending, guest, timer, sim_state>>

\* EVENT_INSTRUCTION, with process_pending
EventInstruction ==
  /\ Taken /\ Head(tokens).kind = "inst"
  /\ Alloc(Head(tokens).pc, pending)
  /\ current' = NewAddress
  /\ pending' = {}
  /\ UNCHANGED <<pc, ending, guest, timer, sim_state>>

EventUnknown ==
  /\ Taken /\ Head(tokens).kind = "noinst"
  /\ current' = NoInst
  /\ UNCHANGED <<ring, pc, ending, pending, guest, timer, sim_state>>

EventMemory ==
  /\ Taken /\ Head(tokens).kind = "mem"
  /\ IF current = NoInst THEN UNCHANGED ring
     ELSE LoadsPush(current.ring, current.slot, Head(tokens).pc)
  /\ UNCHANGED <<pc, ending, current, pending, guest, timer, sim_state>>

EventPrefetch ==
  /\ Taken /\ Head(tokens).kind = "prefetch"
  /\ pending' = pending \union {Head(tokens).pc}
  /\ UNCHANGED <<ring, pc, ending, current, guest, timer, sim_state>>

\* EVENT_CPUID, EVENT_ASM: a fake instruction
EventCpuid ==
  /\ Taken /\ Head(tokens).kind = "cpuid"
  /\ Alloc(0, {})
  /\ UNCHANGED <<pc, ending, current, pending, guest, timer, sim_state>>

RunDone ==
  /\ pc = "run" /\ tokens = <<>>
  /\ pc' = IF ending = "guest" THEN "guest" ELSE "emit"
  /\ UNCHANGED <<ring, tokens, ending, current, pending, guest, timer, sim_state>>

-----------------------------------------------------------------------------
\* Changes of the simulation state

\* a sampler's next state; Selective may have changed to any sampler
Following ==
  [FUNCTIONAL   |-> {"FUNCTIONAL", "FULL_WARMING", "SIMULATION"},
   FULL_WARMING |-> {"SIMULATION"},
   SIMULATION   |-> {"SIMULATION", "FUNCTIONAL"}]
FollowingBroken ==
  [Following EXCEPT !.FULL_WARMING = {"SIMULATION", "FUNCTIONAL"}]

\* endSimulation: the timer forgets
EndTimer ==
  /\ held' = IF sim_state = "SIMULATION" THEN <<>> ELSE held
  /\ UNCHANGED cpu_timer

-----------------------------------------------------------------------------
\* Interleaver::end_quantum

\* the timer drops what it is done with
Remembered(h) ==
  {SubSeq(Append(held, h), i, Len(held) + 1) :
     i \in (IF Len(held) < Hold THEN 1 ELSE Len(held) + 2 - Hold)..Len(held) + 2}

\* CpuData::emit_ins: an instruction for the timer
Emit ==
  /\ pc = "emit" /\ NextIns
  /\ mem[pul][out].pc # 0
  /\ held' \in Remembered([ring |-> pul, slot |-> out, id |-> mem[pul][out].id])
  /\ UNCHANGED <<parser, guest, cpu_timer, sim_state>>

\* CpuidCall::simulation discards a fake instruction
Discard ==
  /\ pc = "emit" /\ NextIns
  /\ mem[pul][out].pc = 0
  /\ UNCHANGED <<parser, guest, timer, sim_state>>

\* transition() and doSetState, where the ring is emptied if the needs change
ChangeState(new, break) ==
  LET flush == Needs(new) # Needs(sim_state) IN
  /\ sim_state' = new
  /\ IF break \/ flush THEN Clear ELSE UNCHANGED ring
  /\ pending' = IF flush THEN {} ELSE pending
  /\ EndTimer
  /\ pc' = "guest"
  /\ UNCHANGED <<tokens, ending, current, guest>>

\* or it breaks the sample: break_sample, endSample and startSample
Break ==
  /\ pc = "emit" /\ elems # 0
  /\ mem[pul][out].pc = 0
  /\ \E new \in FollowingBroken[sim_state] : ChangeState(new, TRUE)

\* a cpuid that breaks a functional sample does so at once
BreakNow ==
  /\ pc = "guest" /\ sim_state = "FUNCTIONAL"
  /\ \E new \in Following[sim_state] : ChangeState(new, TRUE)

\* all handed on; the sample may end
EmitDone ==
  /\ pc = "emit" /\ elems = 0
  /\ ending = "quantum"
  /\ pc' = "guest"
  /\ UNCHANGED <<ring, tokens, ending, current, pending, guest, timer, sim_state>>

EndSample ==
  /\ pc = "emit" /\ elems = 0
  /\ ending = "sample"
  /\ \E new \in Following[sim_state] : ChangeState(new, FALSE)

Next ==
  \/ Execute \/ Write \/ Deliver
  \/ \E e \in {"quantum", "sample"} : Quantum(e)
  \/ EventInstruction \/ EventUnknown \/ EventMemory \/ EventPrefetch
  \/ EventCpuid \/ RunDone
  \/ Emit \/ Discard \/ Break \/ BreakNow \/ EmitDone \/ EndSample

Spec == StreamInit /\ [][Next]_vars

-----------------------------------------------------------------------------
\* Properties

\* Instructions are handed on with their own accesses and prefetches only,
\* and with all of them unless a delivery came between the instruction and
\* its access: whatever fakes, unknown opcodes, deliveries and growth of the
\* ring come between the tokens, which hold current_inst and
\* prefetch_address.
Attached ==
  \A n \in 1..elems :
    LET i == mem[pul][Wrapped(out + n - 1)] IN
    /\ i.loads \subseteq {i.pc}
    /\ pc = "emit" /\ i.pc \in accesses \ cut => i.loads = {i.pc}

Intact(h) ==
  /\ h.ring \in DOMAIN mem /\ h.slot \in Slots(h.ring)
  /\ mem[h.ring][h.slot].id = h.id

\* What a timer remembers is still what it was given, through wrap-around and
\* growth, if it was handed on since the ring was last emptied; also where a
\* break or a need for registers has emptied the ring and the timer remembers
\* older instructions besides.
HeldIntact ==
  \A n \in DOMAIN held :
    (\E k \in DOMAIN handed : handed[k] = held[n]) => Intact(held[n])

\* "INST OVERWRITTEN. INCREASE timer.history" (timer1.cpp:244) is all that can
\* befall what a timer remembers: with enough history it stays.  Not so: the
\* break of a warming sample clears the ring behind the timer, and so does the
\* start of a simulation with TimerDep.
NeverOverwritten == \A n \in DOMAIN held : Intact(held[n])

=============================================================================
