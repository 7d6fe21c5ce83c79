------------------------------ MODULE Sampling ------------------------------
(***************************************************************************)
(* Samples and callbacks inside a node (abaeterno/main/abaeterno.cpp,      *)
(* callme.cpp, sampler/).                                                  *)
(*                                                                         *)
(* A sampler cuts the run into samples: functional, warming, simulation.   *)
(* The end of a sample is a callback on the CallMe wheel, which the        *)
(* network's callback shares; the emulator is asked for the first time on  *)
(* the wheel only.  A cpuid of the guest may change the sampler and break  *)
(* the sample: at once in a functional sample, else when the interleaver   *)
(* hands it on at the end of a quantum, in the midst of endSample perhaps. *)
(*                                                                         *)
(* Everything runs on the emulator's thread.  `work' is its call stack:    *)
(* what endSample and endQuantum have still to do.                         *)
(***************************************************************************)
EXTENDS Naturals, Sequences, SequencesExt, FiniteSets, FiniteSetsExt

CONSTANTS
  Samplers,  \* the samplers that the changer can pick, as records
  NetQ,      \* the network's callback comes after so long
  Late,      \* the emulator's callback comes at most so late
  MaxSamples, MaxNanos, \* max_samples and max_nanos, 0 for none
  Zones,     \* how often the guest changes the sampler; bound of the model
  MaxTime    \* bound of the model

States == {"FUNCTIONAL", "SIMPLE_WARMING", "FULL_WARMING", "SIMULATION"}

ASSUME SamplingAssumption ==
  /\ \A s \in Samplers :
       /\ s.kind \in {"simple", "no_timing", "interval", "smarts", "dynamic"}
       /\ s.functional \subseteq Nat /\ s.warming \in Nat \ {0}
       /\ s.simulation \in Nat \ {0} /\ s.maxfunctional \in Nat
  /\ NetQ \in Nat \ {0} /\ Late \in Nat /\ Zones \in Nat
  /\ MaxSamples \in Nat /\ MaxNanos \in Nat /\ MaxTime \in Nat

VARIABLES
  now,         \* Cotson::nanos()
  sampler,     \* the sampler in use; Selective's samplers[current]
  nfunctional, \* Dynamic::nfunctional
  sim_state,   \* AbAeterno's, and every state observer's
  next_sample, \* 0 for none
  wheel,       \* callbacks by time, those of one time as they were added
  alarms,      \* when the emulator was asked to call back
  calls,       \* callbacks that hey() has taken off the wheel
  work,        \* what the handlers on the stack have still to do
  zone,        \* an instruction that changes the sampler is in the rings
  samples,
  status,      \* "new", "run", "end", "error"
  zones,       \* sampler changes to come
  broken,      \* the sampler was changed
  start, len   \* when the sample began, and the length it was given

clock  == <<wheel, alarms>>
sample == <<sim_state, next_sample, sampler, nfunctional, start, len>>
samplingVars ==
  <<now, clock, sample, calls, work, zone, samples, status, zones, broken>>

Idle == work = <<>> /\ calls = <<>> /\ status = "run"

-----------------------------------------------------------------------------
\* The wheel

Callback(when, who) == [at |-> when, who |-> who]

\* upper_bound: how many callbacks are not later
UpperBound(t) == Max({0} \union {i \in DOMAIN wheel : wheel[i].at <= t})

\* subscribe: the emulator is asked for the first time on the wheel; one
\* that is past wraps round in `when - nanos()'
Subscribed(w) ==
  IF w = <<>> \/ Head(w).at < now THEN alarms ELSE alarms \union {Head(w).at}

\* Mutant: only the first callback on the wheel is subscribed for.
Later_WhenEmpty(when, who) ==
  /\ wheel' = InsertAt(wheel, UpperBound(when) + 1, Callback(when, who))
  /\ alarms' = IF wheel = <<>> THEN Subscribed(wheel') ELSE alarms

Later(when, who) ==
  /\ wheel' = InsertAt(wheel, UpperBound(when) + 1, Callback(when, who))
  /\ alarms' = Subscribed(wheel')

\* hey, when the emulator calls back: takes the callbacks up to now.  The
\* request that it answers may be an old one.
Hey ==
  /\ Idle
  /\ \E a \in alarms :
       /\ a <= now
       /\ calls' = [i \in 1..UpperBound(now) |-> wheel[i].who]
       /\ wheel' = SubSeq(wheel, UpperBound(now) + 1, Len(wheel))
       /\ alarms' = Subscribed(wheel') \ {a}
  /\ UNCHANGED <<now, sample, work, zone, samples, status, zones, broken>>

-----------------------------------------------------------------------------
\* Samplers: what changeState may return, as <<state, duration>>

Functional(s) == {<<"FUNCTIONAL", d>> : d \in s.functional}

Simple(s, st) == {<<"SIMULATION", s.simulation>>}

NoTiming(s, st) == Functional(s)

\* interval, and random and exp_random with more than one length
Interval(s, st) ==
  CASE st = "FUNCTIONAL"   -> {<<"FULL_WARMING", s.warming>>}
    [] st = "FULL_WARMING" -> {<<"SIMULATION", s.simulation>>}
    [] st = "SIMULATION"   -> Functional(s)
    [] OTHER               -> {}

Smarts(s, st) ==
  CASE st = "SIMPLE_WARMING" -> {<<"FULL_WARMING", s.warming>>}
    [] st = "FULL_WARMING"   -> {<<"SIMULATION", s.simulation>>}
    [] st = "SIMULATION"     -> {<<"SIMPLE_WARMING", d>> : d \in s.functional}
    [] OTHER                 -> {}

\* updateAndCheck: so many functional samples, or a metric that has changed
updateAndCheck(s) == IF nfunctional >= s.maxfunctional THEN {TRUE} ELSE BOOLEAN

Dynamic(s, st) ==
  IF st # "FUNCTIONAL" THEN Interval(s, st)
  ELSE UNION {IF resample THEN Interval(s, st) ELSE Functional(s)
              : resample \in updateAndCheck(s)}

changeState(s, st) ==
  CASE s.kind = "simple"    -> Simple(s, st)
    [] s.kind = "no_timing" -> NoTiming(s, st)
    [] s.kind = "interval"  -> Interval(s, st)
    [] s.kind = "smarts"    -> Smarts(s, st)
    [] s.kind = "dynamic"   -> Dynamic(s, st)

\* a sampler on its own begins with its preState; Selective, which the guest
\* may tell to change samplers, with FUNCTIONAL
preState(s) == IF zones > 0 THEN "FUNCTIONAL"
               ELSE IF s.kind = "dynamic" THEN "SIMULATION"
               ELSE "FULL_WARMING"

SamplingInit ==
  /\ now = 0
  /\ zones \in {0, Zones} /\ broken = FALSE
  /\ sampler \in Samplers
  /\ nfunctional = 0
  /\ sim_state = preState(sampler)
  /\ next_sample = 0
  /\ wheel = <<Callback(NetQ, "net")>>
  /\ alarms = {NetQ}
  /\ calls = <<>> /\ work = <<>>
  /\ zone = FALSE
  /\ samples = 0
  /\ status = "new"
  /\ start = 0 /\ len = 0

-----------------------------------------------------------------------------
\* AbAeterno

EndSample == <<"endQuantum", "finish">>

\* Mutant: a simulation sample takes any callback for its end.
Callme_AnyTime(st, d, rest) ==
  IF st # "SIMULATION" \/ next_sample # 0
  THEN /\ next_sample' = 0
       /\ IF d = 0 THEN work' = EndSample \o rest /\ UNCHANGED clock
                   ELSE work' = rest /\ Later(now + d, "sample")
  ELSE /\ next_sample' = now + d
       /\ work' = rest /\ Later(now + d, "sample")

\* callme(d) in state st, with rest on the stack
Callme(st, d, rest) ==
  IF st # "SIMULATION"
  THEN /\ UNCHANGED next_sample
       /\ IF d = 0 THEN work' = EndSample \o rest /\ UNCHANGED clock
                   ELSE work' = rest /\ Later(now + d, "sample")
  ELSE LET end == IF next_sample = 0 THEN now + d ELSE next_sample IN
       IF end = now
       THEN next_sample' = 0 /\ work' = EndSample \o rest /\ UNCHANGED clock
       ELSE next_sample' = end /\ work' = rest /\ Later(end, "sample")

\* startSample: the next state and its length, unless the sampler cannot
\* continue from this state
StartSample(rest) ==
  LET next == changeState(sampler, sim_state) IN
  IF next = {}
  THEN status' = "error" /\ work' = <<>> /\ UNCHANGED <<sample, clock>>
  ELSE \E c \in next :
         /\ sim_state' = c[1]
         /\ nfunctional' = IF sim_state = "SIMULATION" THEN 0
                           ELSE IF sim_state = "FUNCTIONAL"
                           THEN nfunctional + 1 ELSE nfunctional
         /\ start' = now /\ len' = c[2]
         /\ Callme(c[1], c[2], rest)
         /\ status' = "run"
         /\ UNCHANGED sampler

\* start(), for the first time
Start ==
  /\ status = "new"
  /\ StartSample(<<>>)
  /\ UNCHANGED <<now, calls, zone, samples, zones, broken>>

\* selective: the guest names another sampler
Change ==
  /\ zones' = zones - 1 /\ broken' = TRUE
  /\ sampler' \in Samplers

\* endQuantum: what the rings hold is handed on; an instruction that changes
\* the sampler calls break_sample from there, which empties the rings and
\* ends the sample
EndQuantum ==
  /\ work # <<>> /\ Head(work) = "endQuantum"
  /\ zone' = FALSE
  /\ IF zone THEN /\ Change
                  /\ work' = EndSample \o Tail(work)
             ELSE /\ work' = Tail(work)
                  /\ UNCHANGED <<sampler, zones, broken>>
  /\ UNCHANGED <<now, clock, calls, sim_state, next_sample, nfunctional, start,
                 len, samples, status>>

\* check_end
MustEnd(n) == \/ MaxSamples > 0 /\ n >= MaxSamples
              \/ MaxNanos > 0 /\ now >= MaxNanos

\* Mutant: check_end is forgotten.
Finish_NoCheck ==
  /\ work # <<>> /\ Head(work) = "finish"
  /\ samples' = samples + (IF sim_state = "SIMULATION" THEN 1 ELSE 0)
  /\ StartSample(Tail(work))
  /\ UNCHANGED <<now, calls, zone, zones, broken>>

\* the rest of endSample: count, check_end, startSample
Finish ==
  /\ work # <<>> /\ Head(work) = "finish"
  /\ samples' = samples + (IF sim_state = "SIMULATION" THEN 1 ELSE 0)
  /\ IF MustEnd(samples')
     THEN /\ status' = "end" /\ work' = <<>>
          /\ UNCHANGED <<sample, clock>>
     ELSE StartSample(Tail(work))
  /\ UNCHANGED <<now, calls, zone, zones, broken>>

\* one of the callbacks that hey() took
Call ==
  /\ work = <<>> /\ calls # <<>> /\ status = "run"
  /\ calls' = Tail(calls)
  /\ \/ /\ Head(calls) = "sample"
        /\ Callme(sim_state, 0, <<>>)
        /\ UNCHANGED <<sim_state, sampler, nfunctional, start, len>>
     \/ /\ Head(calls) = "net"
        /\ Later(now + NetQ, "net")
        /\ UNCHANGED <<sample, work>>
  /\ UNCHANGED <<now, zone, samples, status, zones, broken>>

-----------------------------------------------------------------------------
\* The emulator

QuantumEnd ==
  /\ Idle
  /\ work' = <<"endQuantum">>
  /\ UNCHANGED <<now, clock, sample, calls, zone, samples, status, zones, broken>>

\* the guest executes the cpuid that changes the sampler
Zone ==
  /\ Idle /\ zones > 0 /\ ~zone
  /\ IF sim_state = "FUNCTIONAL"
     THEN Change /\ work' = EndSample /\ UNCHANGED zone
     ELSE zone' = TRUE /\ UNCHANGED <<sampler, zones, broken, work>>
  /\ UNCHANGED <<now, clock, sim_state, next_sample, nfunctional, start, len,
                 calls, samples, status>>

\* simulated time passes, by no more than Late over the time of the callback
Tick ==
  /\ Idle
  /\ now < MaxTime
  /\ \A a \in alarms : now < a + Late
  /\ now' = now + 1
  /\ UNCHANGED <<clock, sample, calls, work, zone, samples, status, zones, broken>>

SamplingNext == Start \/ Hey \/ Call \/ EndQuantum \/ Finish
                \/ QuantumEnd \/ Zone \/ Tick

SamplingSpec == SamplingInit /\ [][SamplingNext]_samplingVars

\* The emulator runs on, calls back when it was asked to and finishes what it
\* calls.
SamplingFairness ==
  /\ WF_samplingVars(Start) /\ WF_samplingVars(Call)
  /\ WF_samplingVars(EndQuantum) /\ WF_samplingVars(Finish)
  /\ SF_samplingVars(Tick) /\ SF_samplingVars(Hey)

FairSamplingSpec == SamplingSpec /\ SamplingFairness

-----------------------------------------------------------------------------
\* Properties

\* Types; the handlers nest at most once: endSample inside the endQuantum of
\* another endSample.
SamplingTypeOK ==
  /\ now \in 0..MaxTime
  /\ sampler \in Samplers
  /\ nfunctional \in Nat
  /\ sim_state \in States
  /\ next_sample \in Nat
  /\ wheel \in Seq([at : Nat, who : {"sample", "net"}])
  /\ alarms \subseteq Nat
  /\ calls \in Seq({"sample", "net"})
  /\ work \in Seq({"endQuantum", "finish"}) /\ Len(work) <= 3
  /\ zone \in BOOLEAN /\ zones \in 0..Zones /\ broken \in BOOLEAN
  /\ samples \in Nat
  /\ status \in {"new", "run", "end", "error"}
  /\ start \in 0..MaxTime /\ len \in Nat

\* A simulation sample whose time went by without a callback.
Missed == next_sample # 0 /\ next_sample < now

\* "will execute warming, simulation and then functional for their respective
\* interval lengths" (examples/multiple_cpu_interval.in:5): a sample ends when
\* its time is over, in simulation exactly then, even though callbacks may
\* come early, late or twice.  Not so after break_sample, whose sample's
\* callback stays on the wheel.
InTime == Finish => now >= start + len /\ now <= start + len + Late
                    /\ (sim_state = "SIMULATION" => now = start + len)
SampleLength == [][InTime]_samplingVars

\* The same as long as no cpuid has changed the sampler.
UnbrokenLength == [][~broken' => InTime]_samplingVars

\* What a waiting emulator was asked for is the first time on the wheel, so
\* that no callback, the network's or the sample's, waits behind another one.
\* Only the callback of a missed simulation sample breaks that.
Armed ==
  /\ SamplingTypeOK
  /\ Idle => wheel # <<>> /\ ((\E a \in alarms : a <= Head(wheel).at) \/ Missed)

\* A node stops in the end, when max_nanos have passed and the sample is
\* over, unless the callback of a simulation sample came late.
Stops == <>(status \in {"end", "error"} \/ Missed)

=============================================================================
