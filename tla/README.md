# COTSon: verification project

COTSon simulates a cluster of computers.  Every simulated machine is a *node*:
a SimNow emulator whose timing plug-in, `abaeterno`, decides how much simulated
time the instructions take.  A *mediator* process keeps the nodes' simulated
clocks together and carries the packets of their network cards.  Paths below
are those of the repository's files; modules, configurations and
`PROJECT.json` are in this directory.

Contents: 1 inventory, 2 plan, 3 modules and their relation to the code,
4 runs and bounds, 5 fairness, 6 disagreements between code and comments,
7 proofs, 8 limits.

## 1  Inventory

| Part | State | Operations | Interacts with |
|---|---|---|---|
| Cluster synchronisation, mediator side (`src/network/switch.cpp`, `node.cpp`, `control_packet_processor.cpp`) | global time `gt_`, next barrier `nextgt_`, quantum, `last_sync_`, each node's recorded time | take TimeStamp / TimeQuery / Terminate, `sync_cluster`, `timeout`, `send_sync` | nodes over UDP; multicast back |
| Cluster synchronisation, node side (`src/abaeterno/main/network_timing.cpp`) | `clust_gt`, `end`, `last_ts_`, the pending callback | `sync`, `heartbeat`, `next`, `wait_until`, `asktime`, `cpuid`, `terminate`, the `global_time` thread | CallMe wheel, mediator |
| Mediator threads (`mediator_server.cpp`, `reactor.cpp`) | none of their own; they share the switch | control reactor, data reactor, heartbeat thread | all call into the switch without a lock over `sync_cluster` |
| Packet path (`switch.cpp`, `scheduler.cpp`, `data_packet_processor.cpp`) | queue `messages_`, quantum, packet counts | `process_packet`, `send`, `broadcast`, `schedule`, `send_packets`, `compute_quantum` | data thread fills, control thread releases |
| Timing models and edges (`net_*.cpp`, `slirp_acceptor.cpp`, `vde_acceptor.cpp`, `stats.cpp`) | per-link bandwidth figures | latency of a packet; bridges to real networks | packet path |
| Node registry (`switch.cpp:114-257`) | `nodes_`, `mac_map_` | `register_node` by mac, by id, by address; removal of duplicate and obsolete nodes | control and data threads |
| Sampling driver (`abaeterno.cpp`, `callme.cpp`, `sampler/`) | simulation state, `next_sample`, callback wheel, sampler counters | `callme`, `endSample`, `startSample`, `break_sample`, `changeState` | emulator callbacks, all state observers |
| Interleaver and token stream (`interleaver.cpp`, `instructions.cpp`, `parsing/`) | instruction rings, CPU order, token queues | `end_quantum`, `emit_ins`, `next`, `map` | emulator writes tokens, timers read |
| Memory hierarchy (`mem_lib/`) | MOESI state of every line, time wheel of pending updates | `read`, `readx`, `write`, `state`, `invalidate`, bus protocols | CPU timers above, main memory below |
| CPU and device timers (`timer_cpu/`, `timer_dev/`, predictors) | pipeline and device arithmetic | per-instruction and per-request latencies | memory hierarchy |
| Emulator glue, profiler, injector, command socket | I/O | - | SimNow |
| Metrics, options, heartbeats (`src/common`) | counters, Lua options | reporting | all |
| Control scripts, daemon (`share/*.rb`, `daemon/`) | sandboxes on disk, a database | create, start, stop, place | operating system |
| Vendored (`disksim`, `distorm`, `libluabind`, `mcpat`, `slirp`, SimNow) | - | - | - |

What is hard, and which property makes the part correct:

* *Cluster synchronisation.*  UDP loses, repeats and reorders; three mediator
  threads and two node threads interleave; nodes join late and leave; the
  mediator is never told how many nodes there are.  Correct means: no node
  runs away from another by more than a quantum, and nobody waits for ever.
* *Mediator threads.*  Plain members shared without a lock.  Correct means: a
  barrier is opened only when everybody has reached it, and then announced.
* *Packet path.*  The data thread schedules with a global time that the
  control thread may be moving.  Correct means: nothing is sent twice, what is
  queued goes out in the end and in the order of simulated time, and only what
  the set takes for a duplicate is dropped.
* *Memory hierarchy.*  Nested bus transactions, evictions and writebacks
  across several caches.  Correct means: single writer, inclusion, no lost
  write.  In simulation the same operations are deferred events.
* *Sampling.*  Callbacks outlive the sample that requested them, come late or
  twice, and a cpuid may break a sample from inside its own end.  Correct
  means: every sample has the length its sampler chose, and the node stops.
* *Node registry.*  Three ways to find a node, by mac, id and address, which
  must agree in whatever order a machine is met.  Correct means: one entry in
  the barrier for a machine, with its own time, reachable where its mac is.
* *Token stream.*  Tokens of one instruction are delivered apart; the ring
  wraps, grows and is emptied while the timer still remembers instructions by
  address.  Correct means: each instruction is handed on once and in order, and
  accesses and memories belong to the instruction they say.
* *Pipeline.*  Mispredictions squash the window and the fetch queue in the midst of
  multi-cycle accesses.  Correct means: what is committed is the program, every
  access is made for its own instruction, and every batch of cycles ends.

`PROJECT.json` lists the hazards line by line under "hazards", each with the
properties that would catch it, or why none does yet.

## 2  Plan

Order of work, most important behaviour first; all of it is done:

1. `QuantumBarrier`, the abstract promise of the mediator, and `ClusterSync`,
   the protocol that implements it, with proofs.
2. `MediatorThreads`: the same handlers one memory access at a time; proofs of
   what holds while no timer thread interferes.
3. `PacketQueue`: scheduler, adaptive quantum, data thread; proofs of the floor
   of the quantum and of where each packet is.
4. `Coherence`: L1s, L2s and the bus protocols while warming, with proofs.
5. `NodeRegistry`: `nodes_` and `mac_map_` under the forms of `register_node`,
   with proofs.
6. `CacheTiming`: the same caches with the time wheel, whose answers it takes
   from `Coherence`; proofs of what holds for any clocks.
7. `Sampling`: the CallMe wheel, `break_sample` and the samplers, with proofs.
8. `InstructionRing`, an abstract ring, and `TokenStream`, which is the parser,
   the interleaver and the timer on top of it and is proved to use the ring
   only as it says.
9. `Pipeline` and `Bandwidth`: the stages of the timers `timer1` and
   `bandwidth`; `CpuTimers`, which has one of them; proofs of the safety of both.

What could follow: the order in which the interleaver takes instructions from several CPUs
(`update_cpus`, `set_order`); the circular queue that the emulator's thread
shares with the parser; L1s above the caches of `CacheTiming`; the renaming
of registers in `timer_dep`.

Compositions.  `ClusterSync` is composed of the mediator, the nodes and the
network in one module, because they share the datagrams in flight.
`MediatorThreads`, `PacketQueue` and `NodeRegistry` refine one part of the
mediator each: the first keeps the whole of `sync_cluster` and reduces a node
to its arrivals, the second keeps the data path and lets the barrier open
whenever it may, the third keeps the tables of nodes and reduces packets and
time stamps to what registers a node.  `TokenStream` EXTENDS `InstructionRing`
and implements it; `CacheTiming` instantiates `Coherence` for the protocols'
answers.  `CpuTimers` EXTENDS `Pipeline` and instantiates `Bandwidth`.

## 3  The modules and the code

`map` in `PROJECT.json` gives the source lines of every definition.

**QuantumBarrier** is the promise: the nodes that take part run up to a common
horizon, and the horizon moves only when every one of them has reached it.  It
knows no messages, threads or timeouts.

**ClusterSync** is the protocol.  One step is one handler of one thread.

* Mediator: `RecvTimeStamp` is `process_timing_message` with `heartbeat_node`
  and all of `sync_cluster` (`Barrier`, `AtBarrier`, `GT_advance`) and
  `send_sync`; `RecvTimeQuery` is `time_query`, `RecvTerminate` the Terminate
  case of `ControlPacketProcessor::process`; `Resync` is `timeout`, which the heartbeat thread
  and the reactors call too.  The quantum that `compute_quantum` leaves behind
  is any of `Quanta`; `PacketQueue` says how it comes about.
* Node: `Run` is the emulator, which CallMe stops at `wake` or a little later
  (`Overshoot`).  `sync` reads the global time twice and therefore is two
  steps, `SyncHeartbeat` and `SyncCheck`; `SyncResume` is the return of
  `wait_until` with `next`.  `RecvSync` is the `global_time` thread with
  `GT::process`, `AskForTime` its time query, `SendCpuid` the relay of a cpuid
  message, whose stamp is an argument of the guest.
* Network: `up` and `down` are sets, so datagrams arrive in any order.
  `Faults` selects what an instance sees: lost, repeated or reordered time
  stamps, lost global times, a failing multicast, and a mac that moves to
  another port, which resets the node's id (`PortChange`).
* A node that has exited or been released does not return: the code has no
  way back.  A lost Terminate is not modelled, see the hazard.

**NodeRegistry** has one action for each branch of `register_node(mac,
address)` (`AdoptPort`, `NewMac`, `SamePort`, `SetPort` with
`erase_dup_nodes`, `ReplacePort`), `PortRequest` for `register_node(address)`
and `RegisterId` (`Known`, `Unknown`) for `register_node(id, address)`.
`Unicast` and `Broadcast` are `process_packet` on the data thread, `TimeStamp`
is `process_timing_message` on the control thread, with `setSimtime`.  `iter`
is where a thread is in its loop over `nodes_` (`Broadcast`,
`simtime_advance`, `start_nodes`): a loop is one step per node, and `Stray` is
what an iterator does whose node was erased.  `reported` and `seen` are not in
the code: they remember what machines sent.

**MediatorThreads** takes `TakeStamp` (control reactor) and `Tick` (timer
threads) through `sync_cluster` one load or store of a shared member at a
time: `Scan`, `Compare`, `ComputeQuantum`, `SetGT`, `LoadNext`, `StoreNext`,
`SendSync`, `Multicast`, `MarkSync`.  The scan over the nodes is one step:
records only grow, and only the thread that scans in the control reactor
changes them.  The nodes are `Arrive`: a node reaches a time it was told.
Initially any of the timer threads may be switched off for good (`pc` is
"off"); `Running` are the others.

**PacketQueue** has the control thread (`SendPackets`, `ComputeQuantum`,
`GT_advance`) and the data thread (`Receive`, `Send` for each destination,
`Count`).  The queue is the `std::set` of `scheduler.h` with its comparator;
`Insert` drops a message whose key is there, as `std::set::insert` does.
`Receive` registers the address of a sender, and `ReallySend` sends to a node
that has one (`valid`).  `out`, `lost` and `refused` are history variables: the
messages given to `really_send`, those without an address, and those that the
set did not take.
Quanta are kept in halves of a microsecond so that `lround` is exact.

**Coherence** is the hierarchy of `src/examples`: per core a write-through L1
without write-allocate over a write-back L2, and a bus with one of three
protocols.  While warming (`simulating == false`) `perform_update` and
`perform_invalidate` run at once and there is one thread, so that an access
with everything it causes elsewhere is a step: `ReadL2`, `ReadMiss`, `Write`.
`Demote`, `Kill`, `Share`, `Leave` are what the protocols tell snooped caches
to become.  `Snoop` includes the nested transaction: a snooped cache that
writes its line back does so over the bus, and that write invalidates the
copies of all others, the asking cache's among them.  `L1After` is what
`invalidate` and `inclusive_invalidations` pass on to the L1s.  `stale` is not
in the code: it holds the lines whose last write the main memory has not seen.

**CacheTiming** is one set of each write-back cache of a bus when
`simulating` is true.  `ReadMiss` and `WriteMiss` ask the bus at once
and leave `UPDATE` and `INVALIDATE` events on the caches' time wheels;
`Perform` takes the earliest event when a call with such a time can come.
Each core has a clock, which `Tick` moves; clocks differ by at most `Skew`.  A
`WriteHalfMiss`, a write to a line in flight, asks the bus with the time of
the line's arrival.  `raced` is not in the code: it collects the tags for
which the bus was asked while they were in flight or ahead of time.

**Sampling** is `AbAeterno::callme`, `startSample`, `endSample`,
`break_sample`, the CallMe wheel, and the state machines of the samplers,
which are records of `Samplers`.  `Hey` is the emulator's callback and `Call`
the next callback that it takes off the wheel; `EndQuantum` and `Finish` are
what `endSample` has still to do.  Everything runs on the emulator's thread;
because a cpuid (`Zone`) is handled from inside `endQuantum`, the call stack is
the variable `work`.  Time passes in `Tick`; callbacks come up to `Late` later
than asked for, or twice.

**InstructionRing** is the pool of `lib/instructions.cpp`: allocation, with
the copy into a ring of twice the size, handing on, and `clear`, with slots
numbered as in memory.  **TokenStream** is a CPU on top of it: the guest and
the emulator write the tokens of an instruction (`Execute`, `Write`; `Kinds`
are the instructions) and deliver them when they like (`Deliver`);
`CpuTokenParser::run` takes them one by one (`Event...`); at the end of a
quantum the interleaver hands on (`Emit`) or drops (`Discard`) what the ring
has; a cpuid breaks the sample (`Break`, `BreakNow`); and the timer remembers
the last `Hold` instructions by their slots.  `Needs` are the tokens a state
needs; they change with tracing, and for `timer_dep`, which needs registers in
simulation only, between warming and simulation too: `ChangeState` then empties
the ring under what the timer remembers.

**Pipeline** is Timer1's cycle, one action per stage in the order of the code:
`Dcache`, `Commit`, `Icache`, `Fetch`, `Predict`.  `Simulate` puts an
instruction into `buffer` and starts cycles when there are enough of them,
`Idle` and `EndSimulation` are the calls between.  What BTB, predictor, RAS
and caches answer is arbitrary.

**Bandwidth** is the timer `bandwidth`: `Simulate` is `simulation`, which puts
an instruction into the class `Waiting` and runs cycles as long as it holds
more than one cache line; `Commit`, `BeginMemory` to `EndMemory` and the
`Fetch...` actions are the three stages of a cycle, of which the last two take
one instruction in a step.  `non_executed_`, an iterator into the list of the
reorder buffer, is the number of the instruction it points to.  `SetState` is
`doSetState`, with what `endSimulation` and `beginSimulation` reset.

**CpuTimers**: a CPU has one timer, chosen by its options (`Cpu::timer`).  The
choice is made in the initial states, and the chosen one runs.

**MC modules** declare model values and the symmetry sets: cores are
interchangeable and so are the lines of a set, for no action compares them;
nodes are where none has a role of its own.  No liveness is checked under
symmetry.

The modules named **...Proofs** hold the theorems (section 7).

## 4  Runs and bounds

| Run | Question | Bounds |
|---|---|---|
| `sync_barrier` | Do the nodes stay together under lost and reordered stamps, failing multicasts and dropped nodes, and is the abstract barrier implemented? | 2 nodes, quanta 1 or 2, callbacks up to 1 late, time to 3 |
| `sync_reports` | Can the heartbeat filter swallow a report somebody waits for? | 2 nodes, both of which send time queries and relay a cpuid at any time, repeated stamps, quantum 1, time to 2: each node waits twice |
| `sync_live` | Do waiting nodes go on, and does everybody leave after a Terminate, if global times may be lost? | 2 nodes, quantum 1, callbacks up to 1 late, so that a node may overrun a whole quantum, time to 4 |
| `sync_query` | Is a barrier that all have reached opened? *No*, see 6. | 2 nodes, quantum 1, time to 2 |
| `threads` | Control reactor alone: is the barrier honoured and announced? Raced by the heartbeat thread: how far apart can nodes get, and is every barrier announced in the end? | 2 nodes, quantum 1, time to 4 |
| `queue` | Each message of a packet is sent once, refused once or still queued, never dropped but for an equal one; a valid one is sent in the end; the quantum is not below its minimum. | 2 nodes, 2 packets, delay 3, quanta 2 to 4 us, a real clock that may stand still between two packets |
| `coherence` | Single writer, inclusion, no lost write, way bounds. | 3 cores, 3 lines of one set, 1-way L1, 2-way L2, 3 protocols |
| `registry` | One barrier entry per machine, with its own times, and unicasts that go where the mac was seen. | 2 machines, 3 macs, 5 sockets, 3 entries, time to 1 |
| `sampling` | Unbroken samples have their length, the emulator is asked for the first time on the wheel, the node stops. | every sampler but random ones, samples of 1 to 3, callbacks up to 1 late, 2 changes of the sampler, time to 9 |
| `stream` | Order, history and remembered instructions of the ring; accesses and prefetches reach their own instruction. | a ring for 1 instruction that grows once, 4 guest instructions of 5 shapes, 6 in the ring |
| `caches` | Fetched once, no way lost, invalidations hit their tag, coherent but for races. | a direct-mapped and a 2-way cache, 2 lines, latency 2, clocks 1 apart, time to 3 |
| `cpu_timers` | timer1: the window follows the program, accesses are performed, blocks are intact, cycles end. bandwidth: order is kept, the iterator into the reorder buffer is sound, calls return. | timer1: 2 addresses, blocks of up to 2, instructions with 3 accesses, 2 ports, icache latency 2, a window of 3, a buffer of 2. bandwidth: 3 instructions on 2 lines, one with 3 accesses for 2 ports, a buffer of 3, 7 instructions, 3 states of the simulation |

Why the bounds are enough.  *Two nodes* give a slow and a fast one, and every
property of the barrier is about a pair; the theorems of `ClusterSyncProofs`
hold for any number.  *Time to 3* with quanta of 1 and 2 lets the barrier move
twice or three times, so that a datagram of one quantum arrives in the next
but one; the mediator forgets older quanta.  A handler that would take the
global time past `MaxGT` is cut off, and the liveness properties only speak of
barriers below the bound.  *Quanta 1 and 2* let the quantum shrink and grow.
*Two packets, of which both may be broadcast*, put up to four messages in the
queue, below or beyond the next barrier (a delay of 3 against quanta of 2 to
4 us), and some of them equal to the set.  *Three cores* are a
writer, an owner whose line has to be written back, and a bystander that the
writeback hits; *three lines in a two-way set* make evictions happen.

Every property of a passing run has a mutant: a variant of one definition with
a plausible bug, kept next to the definition in its module.  The variants are
no part of the specification; they show that the property looks at the code.

*Two machines* in the registry: the first sends its time stamps from its data
port, the second has a second mac and moves between two data ports.  Three
entries are one more than the machines need, which makes duplicates possible.
*Time to 9* lets a node go through functional, warming and simulation twice
and be broken in each.  *A ring for one instruction* wraps and grows at once;
four instructions are three more than the timer remembers.  *Clocks 1 apart*
with a latency of 2 is the largest skew at which an invalidation cannot hit
another tag (see 6).  `MaxRaced = 0` ends a behaviour at its first race; the
state after the race is still checked.  *A window of 3* against a width of 2 lets a squash
find a partly fetched line; *3 accesses against 2 ports* spread the accesses
of an instruction over two cycles.

CHECK_DEADLOCK is off where the model stops by its bound (`threads`, `queue`,
`registry`, `caches`, `stream`, `cpu_timers`) or the system really ends
(`sync_live`, Terminate; `sampling`, max_nanos).

## 5  Fairness

`ClusterSync!Fairness` asks for weak fairness of each loop: the control
reactor that handles datagrams, the heartbeat thread, the emulator, the steps
of `sync` and the query thread.  They are loops around `select`, `sleep` or
emulation with no lock held that could stop them.  Strong fairness is asked of
the reception of global times by a node and of time queries by the mediator:
a datagram repeated for ever gets through at last.  The heartbeat thread
repeats the first; nothing repeats a TimeStamp, so no fairness is asked for
lost ones, and the runs with liveness lose none.  Nothing is asked of
`Terminate`, `SendCpuid`, `PortChange` or the faults.

`WaitersResume` is checked with no node sending time queries; with them it
fails for the reason that `sync_query` shows.  It exempts the states in which
every node has overrun a whole quantum (`Overrun`), where the cluster hangs
without any loss or query (see 6).

`MediatorThreads!Fairness` and `PacketQueue!FairSpec` ask that threads which
loop for ever keep going.

`SamplingFairness` asks for weak fairness of the handlers, which run to
their end on one thread, and for strong fairness of the emulator: it
advances time, and a callback it was asked for comes.  SimNow is closed; this
is what `RequestCallbackDelayed` is used for.

`Pipeline` and `Bandwidth` ask for weak fairness of the stages: they are calls
of one loop.  A call of `Bandwidth` that comes to cycle 40 (`Patience`) is cut
off and counts as hung; none does.

## 6  Where code and comments disagree

* `sync_query` - `Switch::timeout` passes `GT()` as the time of the caller,
  which is always below the next barrier, so no timeout, heartbeat or time
  query ever opens a barrier.  A node that sends a TimeQuery at the time of its
  arrival filters its own heartbeat; the query completes the mediator's table
  and the cluster stands still.  A lost TimeStamp of the last node ends the
  same way.  `switch.cpp:458`: "Time advances when the slowest node has
  reached the barrier".

Noted while modelling.  These have no run of their own; where a configuration
is named, the disagreement shows when the property is checked with it.

* `SyncReports.cfg` with `CpuidArgs = {3}`: `ArrivalReported` fails.  `send_msg` (`network_timing.cpp:281`) remembers
  the stamp of any message, and that of a relayed cpuid is the guest's
  argument; later heartbeats count as redundant.
* `Threads.cfg`: `BarrierHonoured` fails without its `Running = {}`.
  `GT_advance` (`switch.cpp:480`) assigns `gt_` before `nextgt_`; `timeout` on
  another thread that reads in between opens the barrier a second time.
  `RacedSkew` says how far this goes with one timer thread: one more quantum.
  With both timer threads there is no bound: one thread keeps an old sum to
  store in `nextgt_`, and each time it does the other two find the
  barrier reached again (`Timers = {"heartbeat", "data"}` and `RacedSkew`
  without its premise: a node is told a time four quanta ahead of another,
  and the bound grows with `MaxGT`).
* `Queue.cfg`: not every message is sent.  Messages of the same simulated and
  real microsecond are equal to the `std::set` (`scheduler.cpp:41`) and the
  second is dropped: a broadcast inserts its messages back to back.
  `Accounted` says that nothing else is dropped.
* `Queue.cfg`: `ReleasedInOrder` fails.  The comparator (`scheduler.h:70`) was
  written for a `priority_queue`; the set is walked from the latest message to
  the earliest.
* `SyncLive.cfg`: `WaitersResume` fails without its `Overrun`.  A TimeStamp
  opens one quantum (`switch.cpp:456`) and a timeout, which passes `GT()`,
  none.  When the stamps that would have opened the next quanta are those just
  used, every node waits at or beyond the new barrier, has said so, and is not
  asked again: with a callback a whole quantum late, or with quanta of the
  nodes above the mediator's.
* `SyncLive.cfg` with a node that asks for the time: `WaitersResume` fails, for
  the reason that `sync_query` shows.
* `Registry.cfg`: `IteratorsValid` fails.  `broadcast` (`switch.cpp:304`)
  iterates over `nodes_` without the lock that registration takes.
* Registry, without `Separate`: `OneEntry` fails for a machine that sends time
  stamps and packets from one socket, with a mac that its id does not imply,
  and then moves to another socket.  And `AdoptPort` (`switch.cpp:172`)
  gives a machine's entry to another one that sends from the same socket later.
* `Sampling.cfg`: `SampleLength` fails after `break_sample`
  (`abaeterno.cpp:356`): the broken sample's callback stays on the wheel and
  cuts a later sample short, against `examples/multiple_cpu_interval.in:5`.
* `Stream.cfg`: `NeverOverwritten` fails.  A break (`interleaver.cpp:195`)
  empties the ring while the timer still remembers instructions in it, and so
  does the start of a simulation with `timer_dep`, whose flags change there
  (`timer_dep.cpp:135-140`, `cpu_token_parser.cpp:408`): its `prev_inst` is then
  an instruction that was freed or has become another one.  `timer1.cpp:244`
  reports such an instruction as changed.  `HeldIntact` is about the
  instructions handed on since the ring was last emptied.
* `Caches.cfg` with clocks as far apart as the latency of a miss (`Skew = 2`):
  `HitsItsTag` fails, a deferred `INVALIDATE` keeps a pointer to a line that
  holds another tag by then.  Among the races that `raced` excludes: a write
  to a line in flight asks the bus ahead of all clocks; two
  writers with differing clocks invalidate each other and lose the write; an
  `INVALIDATE` with SHARED revives a line; two misses are both told EXCLUSIVE.
* Pipeline: a squash leaves `fetch_delay` running, so the first fetch of the
  new path is not looked up (`timer1.cpp:503`); a predicted address of 0 is
  taken for the start of a sample (`timer1.cpp:359`); the line at the head of the
  fetch queue is read again in every cycle in which the window is full; with
  `max_window` below `fetch_width` nothing is ever fetched.
* `cpu_timers` with `B!WithinHistory`, already for a buffer of 3 and lines of 2
  instructions: `bandwidth.cpp:190` asks for a history of twice the reorder
  buffer, "account for waiting !!", but the queue keeps a whole line, and all
  of an instruction that jumps to itself; `trace_needs.h:79` calls the history
  the "max number of instructions that a timer may remember".
* `bandwidth` has an option `commit_width` ("limits bandwidth of
  fetch/execute/commit stages", `bandwidth.cpp:133`), but `commit_stage`
  (`bandwidth.cpp:348`) never counts `remaining_instrs` down: every finished
  instruction at the head of the buffer commits in the same cycle.  `Commit`
  models what the code does.
* `cpu_timers` with `B!OwnLatency`: `beginSimulation` (`bandwidth.cpp:205`)
  sets `cycles` back to 0 and leaves in the buffer what a warming put there,
  finished at cycles that are now ahead: the sample begins with a stall as
  long as the warming was.
* `timer_dep.cpp`: the test `lastreg == MAXREG` of `rename` compares a
  `uint8_t` with 256; the counter wraps by itself, and a register that is not
  written for 256 renamings shares its cycle with a newer one.
* `compute_quantum` can exceed `quantum_max`: the limit by a pending packet
  replaces it.
* MESI leaves a written shared line EXCLUSIVE (`mesi.cpp:103`, where the
  comment above says "and return MODIFIED"), FUTUREBUS a line written on a
  miss (`futurebus.cpp:93`).  Such a line is clean and its eviction writes
  nothing back: traffic is under-counted.  `DirtyKept` is therefore stated for
  MOESI.
* An L1 line that was invalidated but not replaced becomes valid again when
  its L2 passes on SHARED or OWNER (`cache_impl.h:475`); `Inclusion` holds all
  the same.
* `NetworkTiming::terminate` sets `end` on a temporary `GT`.
* `circular_token_queue.cpp:34`: `size()` of a wrapped queue is one too few.
  `circbuf.h`'s `operator[]` takes `(head - i) % N` unsigned, which wraps
  rightly for powers of two only.  `memory_tracer.cpp` compares
  (`cl->moesi==Memory::INVALID;`) where it should assign.  The constructor of
  `SimPointReader` always throws.  The uniform order rate of the interleaver
  divides by an instruction count that may be 0.

## 7  What is proved

The provers are SMT (Z3), Zenon and, for temporal steps, LS4.

`ClusterSyncProofs`, from `ClusterSyncAssumption` alone (the least quantum is
positive and a quantum, every quantum and the nodes' own quantum is positive
and at most `QMax`), for any set of nodes and any set of faults:

| Theorem | States |
|---|---|
| `Invariance` | the inductive invariant `IInv` |
| `TypeCorrect` | `TypeOK`, with `gt < nextgt <= gt + QMax` |
| `SkewBounded` | `BoundedSkew`: no node is further ahead of a joined one than a quantum and the lateness of a callback |
| `JoinedRemain` | `JoinedStays`: the barrier leaves no joined node behind |
| `ArrivalsReported` | `ArrivalReported`, under `StampsKept`: no stamp is lost, and cpuid messages carry no stamp but 0 |
| `Refinement` | `ImplementsBarrier`: every step is a step of `QuantumBarrier` or a stutter |

`BoundedSkew` is not inductive: it speaks of real times, and the mediator only
sees recorded ones.  `IInv` adds `KnownPast` (what the mediator has recorded
or is about to receive of a node is not later than the node's real time),
`KnownOpened` (what a node knows or is about to hear of the global time has
been opened by the mediator) and `Confined` (no node is scheduled past the
open barrier, or past its free run).  Then a member recorded at the barrier
really is there, which gives the guard of the abstract step; and a node that
moves is below a barrier that every joined node is at most a quantum short of.
For `ArrivalReported` the invariant is `Reported`: the last stamp a node sent
is recorded or in flight, and it is not before the node's time from the moment
`sync` has decided to wait.  It needs `StampsKept` for the two faults that the
code does not survive.
The handlers are first summarised by what they may do (`BarrierEffect`,
`SendSyncEffect`, `ResyncEffect`, `TimingMessageEffect`), and each action's
lemma uses the summaries only.

`ClusterSync` takes it that a callback comes `Overshoot` late at most.  The
last part of `ClusterSyncProofs` is about the wheel that the callback waits on:
it extends `Sampling` too (hence names such as `SamplingSpec` there) and
proves from `SamplingAssumption`, for any samplers and numbers of sampler
changes:

| Theorem | States |
|---|---|
| `WheelInvariance` | the inductive invariant `WheelInv`, with `SamplingTypeOK` |
| `FirstIsAskedFor` | `Armed`: a waiting emulator was asked for the first time on the wheel |
| `CallbacksArePrompt` | nothing on the wheel waits longer than the emulator is late, unless a simulation sample was missed |
| `LengthInvariance` | `Length`: where the callback of the sample is, until a cpuid changes the sampler |
| `SamplesHaveTheirLength` | `UnbrokenLength` |

`WheelInv` says that the wheel is sorted (`Sorted`; what `upper_bound` finds is
a greatest element of a bounded set of numbers), that its first time or an
earlier one was asked for (`Alarmed`), that the network's callback is on it or
just taken off it (`NetKept`), that time has not gone past it (`Prompt`), and
which handlers can be on the stack (`Stack`): an instruction that breaks the
sample does so before they nest.  A missed simulation sample asks for a time
that is past, for which the emulator is never called; the invariant says that
this is the only way to lose the first time.  `Length` follows the one callback
of an unbroken sample from the wheel (`OnTheWheel`) to the calls (`Taken`) to
the end of the sample (`Over`).

`CoherenceProofs`, from `CoherenceAssumption` (known protocols), for any
numbers of cores, lines and ways:

| Theorem | States |
|---|---|
| `Invariance` | `IInv`: types, `SingleWriter`, `Inclusion` and `DirtyKept` |
| `Coherent` | `SingleWriter` under each of the protocols |
| `Inclusive` | `Inclusion` |
| `SetsFit` | `TypeOK`: no set holds more lines than it has ways |
| `NothingLost` | `DirtyKept` |

The argument separates one line on the bus (`ReadSound`, `WriteSound`: sound
copies stay sound, by protocol and by whether a snooped cache writes back)
from what an access does to the other lines (`AccessSound`, `AccessInclusive`,
`AccessDirty`), and composes them for each action.  The victims may be any
set of lines, so nothing rests on the replacement policy.  `SetsFit` counts the ways: an access adds one line to
a set and takes the victim out of a full one.

`MediatorThreadsProofs`, from `MediatorThreadsAssumption`, for any nodes and
quanta: `TypeCorrect` (`TypeOK`), `BarrierIsHonoured` (`BarrierHonoured`),
`BarrierIsAnnounced` (`Announced`) and `DriftIsBounded` (`RacedSkew`).  For the
middle two the invariant says for each step of the
control reactor what it has read and what still holds of it (`Alone`), if no
timer thread runs; a thread that is off stays off, so `Running = {}` is a fact
of the whole behaviour.  With timer threads `Alone` is false, which is what
section 6 reports.  For `RacedSkew` the invariant bounds, by the recorded time
of each node, all that may become the barrier (`DriftAt`): `nextgt_`, and the
sum that a thread has read and not yet stored, which may be old; the
bounds are a quantum tighter while another thread has passed the test of
`simtime_advance`, since that thread will add one.  It needs that at most two
threads are at work (`Paired`).

`PacketQueueProofs`, from `PacketQueueAssumption`, for any nodes, packets,
delays and quanta: `Floor` (`QuantumFloor`) and `EachOnce` (`Accounted`).

`compute_quantum` limits the quantum by the first packet in the queue.  `Messages` says that the queue is a
finite set whose times are bounded, so that it has a first packet, by the
well-foundedness of the naturals; `Ahead` says that the next barrier is at
least half a `quantum_min` away, which is what rounding may take of it, and
that a limit which is about to be used is not below `quantum_min`.

The invariant of `EachOnce` is `Places`: for a destination a packet is in one
place, the data thread's hands, the queue, the wire or the refused ones
(`Apart`), there it is once, by the comparator of the queue (`Once`), it is in
one of them from its arrival on (`Somewhere`), and what a refused message was
taken for is still queued or has gone (`Twinned`).  The wire is the sequence in
which `Walk` goes over the queue: `Ordered` and `WalkIs` say that a finite
queue has one, with each message once.

`NodeRegistryProofs`, from `NodeRegistryAssumption`, for any machines, macs
and ports:

| Theorem | States |
|---|---|
| `Invariance` | types, and `Mapping`: `mac_map_` leads to entries that have a mac, and the mac of an entry leads to it |
| `UnicastsAreLocated` | `Located` |
| `Attribution` | with `Separate`: every entry has the data of one machine, and the mac of its id leads to it |
| `MachinesHaveOneEntry` | with `Separate`: `OneEntry` |
| `StampsAreOwn` | with `Separate`: `OwnStamps` |

`Separate` says that machines share neither macs nor sockets, and that a
machine whose time stamps come from its data port sends with its given mac
only; without it `OneEntry` is false (section 6).  `MCNodeRegistry` assumes it
of the run's values.  All forms of `register_node` are summarised by `Changed`
(one mac is mapped to one entry, whose fields change); `Packet` and `Stamp`
say what the new fields may be.  The data of the packet and the entry it lands
in then have a mac or a port in common, hence the same machine.

`TokenStreamProofs`, from `InstructionRingAssumption` and the assumption of
`TokenStream` that the history asked for is twice what the timer remembers,
for any size, growth and history of the ring, any guest and any delivery:

| Theorem | States |
|---|---|
| `RingTypes`, `RingOrder`, `RingHistory` | types, `InOrder` and `HistoryIntact` of the ring alone |
| `StreamImplementsRing` | every step of the stream is a step of the ring or leaves it alone |
| `StreamTypes`, `StreamOrder`, `StreamHistory` | the first three, carried over by the refinement |
| `AccessesAttached` | `Attached`: accesses reach their own instruction |
| `RememberedIntact` | `HeldIntact`: what the timer remembers and got since the ring was last emptied stays |

The invariant of the ring describes the slots between `out` and `in` without
assuming whether they wrap, and a resize as a copy that keeps the order.  The
last two rest on `Meaning` (`StreamMeaning`):

* `Grammar`: of the tokens that `run` has not taken, the written and the
  unwritten ones, those of an instruction are together, in order.  That is what
  `pending` may hold when a prefetch is taken.
* `Position`: at the end of a quantum everything is taken, and an access at the
  head belongs to the newest instruction of the ring if there is a current one.
* `Accesses`: an instruction in the ring has its accesses, or its access is
  the next token.
* `Fakes`: after a fake instruction a real one comes, so two are never dropped
  in a row.
* `Recent`: hence the n-th last that is remembered was handed on at most 2n
  places ago, which is what a history of twice the number is for.

`CacheTimingProofs`, from `CacheTimingAssumption`, for any caches, tags, ways,
latencies, clocks and protocols, with or without races of the bus:

| Theorem | States |
|---|---|
| `Invariance` | `IInv`: types; an update has a line of its own, `Single`, `Home` and `OneLine` |
| `NoWayIsLost` | `NoneLeaked` |
| `FetchedWhereItIs` | a tag is in one way of a set at most, an event has a way of its own set, a way waits for one event |
| `LinesFetchedOnce` | `FetchedOnce` |
| `InvalidationsHitTheirTag` | `HitsItsTag`, under `SkewBelowLatency` |
| `CachesCoherent` | `Coherent`, under `SkewBelowLatency` |
| `WritesAreKept` | `DirtyKept`, under `SkewBelowLatency` |

The bus of `Coherence` enters through the set of answers it may give.  What
an action does to one tag is summarised first (`MissEffect`, `WriteHitEffect`,
`PerformUpdateEffect`, ...), and the invariants are of single tags that saw no
race:

* `Alone`: a cache that fetches a tag has no copy of it and no invalidation on
  its way for it.
* `Order`: the invalidations on their way for a tag come from one call, which
  some clock has passed (`OneCallAt`), point to the line that has the tag,
  and are due before any update that brings the tag to a cache or takes its
  line away (`LaterAt`).  An update is due a latency after a clock, an
  invalidation when a clock has been reached; so this needs that a core is
  never ahead of another by a whole latency.  That is `SkewBelowLatency`;
  without it `HitsItsTag` is false (section 6), and `MCCacheTiming` assumes it
  of the run's values.
* `InCoherence`: `Coherent`, said of the states that the copies will have when
  all that is on its way has been performed (`Becoming`).  A call of the bus
  is answered from the state of now; the invariant says that the two agree.
* `InKeeping`: a line that the memory has an old value of is dirty in a cache
  that no invalidation will take it from, or on its way there (`Keeper`).
  A write to an exclusive copy that is about to be invalidated is silent, so
  such a copy must have a keeper before (`Doomed`).

`CpuTimersProofs`, from `PipelineAssumption` and, for `OrderKept`,
`CpuTimersAssumption`, for any widths, queue limits, latencies and sizes of
blocks, whatever is predicted, and for any programs:

| Theorem | States |
|---|---|
| `Invariance` | `IInv` |
| `PathFollowed` | `OnPath` |
| `AccessesPerformed` | `Performed` |
| `LineFetched` | `FetchedLine` |
| `BlockKept` | `BlockIntact` |
| `TimersImplementPipeline` | `TimersSpec => Spec`: the four above hold of `CpuTimers` too |
| `OrderKept` | `BufferSound` of the timer bandwidth |

`OnPath` is not inductive: it says nothing of the fetch queue behind its first
block.  `IInv` describes two paths.  One is the prediction's: the window, the
blocks of the fetch queue, and where the next prediction begins; `Linked` says
that each part begins where the one before said (or said 0, which is taken for
no prediction).  The other is the program's: the buffer and the last
instruction; `Real` says the same of it, and that addresses follow unless a
control or an interrupt comes between.  `Oldest` says that the two begin
together, and that the block being learnt ends there.  A commit takes the same
number from both: behind it they go on together if the last was predicted
right, and otherwise the prediction begins again at the real one.  `BlockIntact`
needs that the addresses of consecutive instructions add up (`Consecutive`,
by the least place where they would not), as the model of `Trained` takes the
commits of a cycle in one step.  `Line` adds to `FetchedLine` that an access
under way is one for the first block.  `Quiet` says that a cycle begins with
more instructions than it commits, so that the buffer is never emptied.
For the timer bandwidth, `Numbered` says where each instruction is by its
number (the oldest in the reorder buffer, then the one being fetched, the line
and the queue), which a `SetState` in the midst of a cycle must not disturb; and
`ExecutedTo`, that the buffer is executed up to the iterator and no further, so
what a commit takes is behind it.

Model-checked only:

* Liveness (`WaitersResume`, `AllReleased`, `EventuallyTold`, `Delivered`,
  `Stops`, `Drains`, `Returns`): it needs ENABLED.

## 8  What is not modelled

* Mediator: NodeStart and NodeStop messages, which no node sends; `tmin_`,
  `tmax_`, statistics and logging; start-up and shutdown of the reactors.
* Nodes: the `running` flag of the global-time thread after the end; the skew
  of `start` in `NetworkTiming::init`, used only by nodes that start late.
* The delay a timing model computes; slirp and VDE.
* Sampling: the reload of options, fast forward and the injector.  SimNow is
  assumed to answer each `RequestCallbackDelayed`.
* Token stream: the order among several CPUs, the circular queue that the
  emulator fills, SIMPLE_WARMING, the parsers of the devices, the MEMFAKE
  branch, which the repository's timers do not reach.
* Memory: the SIMPLE protocol, write-back L1s, L2s shared by several L1s; in
  simulation, the limits of pending updates and invalidations, the pool of
  events and the reuse of its slots, L1s above the caches, and the latencies.
* Pipeline: BTB, two-level predictor, RAS and predecoding are arbitrary
  answers.  `timer_dep` and the devices are sequential arithmetic.
* The parts with status `not_modelled` in `PROJECT.json`, each with its
  reason.  Most lines of the tree are among them: disksim, slirp, distorm and
  the other vendored libraries, which are called through narrow interfaces
  and have no state that COTSon's own protocols share.
