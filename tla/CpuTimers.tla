------------------------------- MODULE CpuTimers -------------------------------
(***************************************************************************)
(* A CPU has one timer, which its options choose (abaeterno/hw_model/      *)
(* cpu.cpp): timer1, which is the Pipeline, or bandwidth.  The constants   *)
(* of the second have names of their own where the first has the same.     *)
(***************************************************************************)
EXTENDS Pipeline

CONSTANTS
  Code, LineSize, Repeats, LineLats, DLats, Ports, Fetches, ExecuteWidth,
  BufferSize, Idles, MaxIns, MaxCycles, Patience

VARIABLES
  timer,
  b_stage, q, lines_, more_in_line_, insns, non_executed_, icache_waiting, next,
  ports, remaining, cycles, sim_state, given, retired

bandwidth == <<b_stage, q, lines_, more_in_line_, insns, non_executed_,
               icache_waiting, next, ports, remaining, cycles, sim_state, given,
               retired>>

B == INSTANCE Bandwidth WITH
  stage <- b_stage, ILats <- LineLats, DcachePorts <- Ports, FetchWidth <- Fetches

ASSUME CpuTimersAssumption == B!BandwidthAssumption

TimersInit ==
  /\ timer \in {"timer1", "bandwidth"}
  /\ Init /\ B!Init

TimersNext ==
  \/ timer = "timer1" /\ Next /\ UNCHANGED <<timer, bandwidth>>
  \/ timer = "bandwidth" /\ B!Next /\ UNCHANGED <<timer, vars>>

TimersSpec ==
  /\ TimersInit /\ [][TimersNext]_<<timer, vars, bandwidth>>
  /\ WF_vars(Cycle) /\ WF_bandwidth(B!Cycle)

\* Bandwidth keeps the program's order, and the iterator into its buffer.
BufferSound == B!BufferSound

\* Every call of bandwidth returns.
Returns == B!Returns
=============================================================================
