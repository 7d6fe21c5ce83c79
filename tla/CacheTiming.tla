---------------------------- MODULE CacheTiming ----------------------------
(***************************************************************************)
(* The write-back caches of a bus during simulation (mem_lib/cache_impl.h, *)
(* timewheel.h, storage_many.h and the bus protocols).                     *)
(*                                                                         *)
(* While simulating, a miss asks the bus at once but puts its line into    *)
(* the set only when the data arrives: it reserves a victim and leaves an  *)
(* UPDATE event in the cache's time wheel.  A snooped cache changes its    *)
(* line by an INVALIDATE event.  Events are performed in the order of      *)
(* their times, by the first call that carries a time as late; here they   *)
(* may be performed as soon as such a call can come, and a call is made    *)
(* when those it depends on have been.  Calls carry the clock of their     *)
(* core, but for writes to a line in flight, which ask the bus with the    *)
(* time of its arrival, ahead of all clocks.                               *)
(*                                                                         *)
(* One set of each cache is modelled; Coherence has the protocols and the  *)
(* caches while warming, when events take place at once.                   *)
(***************************************************************************)
EXTENDS Naturals, FiniteSets

CONSTANTS
  Caches, Tags, Protocols,  \* as in Coherence
  NoTag,                    \* the tags (~0, ~1, ...) of lines never used
  Ways,                     \* for each cache, the lines of the set
  Lats,                     \* latencies of a miss
  Skew,                     \* how far the clocks of the cores are apart
  MaxTime,                  \* bound of the model on the clocks
  MaxRaced                  \* bound of the model: no more is looked at when
                            \* more tags than these have seen a race

ASSUME CacheTimingAssumption ==
  /\ NoTag \notin Tags
  /\ \A c \in Caches : Ways[c] # {}
  /\ Lats \subseteq Nat \ {0}
  /\ Skew \in Nat /\ MaxTime \in Nat /\ MaxRaced \in Nat

\* A core that is ahead of another is so by less than a miss takes.
SkewBelowLatency == \A lat \in Lats : Skew < lat

VARIABLES
  protocol,     \* the bus's protocol; it never changes
  clock,        \* each core's time
  line,         \* tag, state and reservation (lru = ~0) of every line
  events,       \* the time wheel of every cache
  max_latency,  \* longest latency of a miss so far
  stale,        \* tags whose last write has not reached the main memory
  raced         \* tags that the bus was asked for while they were in flight
                \* or ahead of time, or whose line was invalidated for another

vars == <<protocol, clock, line, events, max_latency, stale, raced>>

\* The bus's answers are those of Coherence; the state of the lines is given
\* to them as an argument.
Bus == INSTANCE Coherence WITH
  L1Ways <- 1, L2Ways <- 1, l1 <- line, l2 <- line

Future(when, type, tag, st, w) ==
  [when |-> when, type |-> type, tag |-> tag, st |-> st, line |-> w]

Init ==
  /\ protocol \in Protocols
  /\ clock = [c \in Caches |-> 0]
  /\ line = [c \in Caches |-> [w \in Ways[c] |-> [tag |-> NoTag, st |-> "I", res |-> FALSE]]]
  /\ events = [c \in Caches |-> {}]
  /\ max_latency = [c \in Caches |-> 0]
  /\ stale = {} /\ raced = {}

-----------------------------------------------------------------------------
\* Storage and time wheel

Found(c, t) == {w \in Ways[c] : line[c][w].tag = t}
Reserved(c) == {w \in Ways[c] : line[c][w].res}
Invalid(c)  == {w \in Ways[c] : line[c][w].st = "I"}

\* state(): the lines only, not what is on its way
Copies(t) ==
  [c \in Caches |->
     LET held == {line[c][w].st : w \in Found(c, t)} \ {"I"}
     IN IF held = {} THEN "I" ELSE CHOOSE st \in held : TRUE]

\* find_lru: invalidated and unused lines have low values, reserved ones the
\* highest; which of the others is left open
Lru(c) ==
  IF Invalid(c) \ Reserved(c) # {} THEN Invalid(c) \ Reserved(c)
  ELSE IF Reserved(c) # Ways[c] THEN Ways[c] \ Reserved(c) ELSE Ways[c]

\* Mutant: any victim does, also when the tag has an invalid line.
Victims_AnyLine(c, t) == Lru(c)

\* a miss: "if an INVALID line was found for the tag, force to use that one"
Victims(c, t) == IF Found(c, t) # {} THEN Found(c, t) ELSE Lru(c)

\* Mutant: what is on its way is not looked up.
Pending_Never(c, t) == {}

\* has(tag, UPDATE), if it is not too far away
Pending(c, t) ==
  {e \in events[c] : /\ e.type = "UPDATE" /\ e.tag = t
                     /\ e.when <= clock[c] + max_latency[c]}

\* perform_up_to: nothing that was due by time is left
Performed(c, time) == \A e \in events[c] : e.when > time

\* the caches that the bus asks with state()
Answering(c, time) == \A d \in Caches \ {c} : Performed(d, time)

\* Mutant: a snoop takes effect a cycle later.
Told_Later(c, t, cp, to, time) ==
  [d \in Caches |->
     IF d \in Bus!Snooped(cp, c, to)
     THEN {Future(time + 1, "INVALIDATE", t, to[cp[d]], w) : w \in Found(d, t)}
     ELSE {}]

\* the INVALIDATE events of the caches that a call of c with time snoops
Told(c, t, cp, to, time) ==
  [d \in Caches |->
     IF d \in Bus!Snooped(cp, c, to)
     THEN {Future(time, "INVALIDATE", t, to[cp[d]], w) : w \in Found(d, t)}
     ELSE {}]

\* t is on its way to a cache, or to be taken from one by a core that is ahead
InFlight(t) == \E d \in Caches : \E e \in events[d] : e.tag = t

\* A call on the bus: the others are told, and c's own wheel gets new.
Call(c, t, cp, to, time, new) ==
  LET told == Told(c, t, cp, to, time)
  IN /\ Answering(c, time)
     /\ events' = [d \in Caches |->
          events[d] \union told[d] \union (IF d = c THEN new ELSE {})]
     /\ raced' = IF InFlight(t) THEN raced \union {t} ELSE raced

-----------------------------------------------------------------------------
\* Accesses

Tick(c) ==
  /\ clock[c] < MaxTime
  /\ \A d \in Caches : clock[c] + 1 <= clock[d] + Skew
  /\ clock' = [clock EXCEPT ![c] = @ + 1]
  /\ UNCHANGED <<protocol, line, events, max_latency, stale, raced>>

\* a hit makes its line the most recent one, reserved or not
Touch(c, w, st) ==
  line' = [line EXCEPT ![c][w].st = st, ![c][w].res = FALSE]

ReadHit(c, t) ==
  /\ Performed(c, clock[c])
  /\ \E w \in Found(c, t) : line[c][w].st # "I" /\ Touch(c, w, line[c][w].st)
  /\ UNCHANGED <<protocol, clock, events, max_latency, stale, raced>>

\* A miss: the bus is asked, a victim reserved, its replacement scheduled.  A
\* read of a line on its way changes nothing.
Miss(c, t, to, st) ==
  /\ Performed(c, clock[c])
  /\ Copies(t)[c] = "I"
  /\ Pending(c, t) = {}
  /\ \E lat \in Lats, w \in Victims(c, t) :
       /\ Call(c, t, Copies(t), to, clock[c],
               {Future(clock[c] + lat, "UPDATE", t, st, w)})
       /\ line' = [line EXCEPT ![c][w].res = TRUE]
       /\ max_latency' = [max_latency EXCEPT ![c] = IF lat > @ THEN lat ELSE @]
  /\ UNCHANGED <<protocol, clock>>

ReadMiss(c, t) ==
  /\ Miss(c, t, Bus!Demote(protocol), Bus!ReadState(Copies(t), c))
  /\ UNCHANGED stale

WriteMiss(c, t) ==
  /\ Miss(c, t, Bus!ReadXSnoop("I"), Bus!ReadXState(Copies(t), c))
  /\ stale' = stale \union {t}

\* Mutant: a hit needs no word with the others.
WriteHit_Silent(c, t) ==
  /\ Performed(c, clock[c])
  /\ \E w \in Found(c, t) : line[c][w].st # "I" /\ Touch(c, w, "M")
  /\ stale' = stale \union {t}
  /\ UNCHANGED <<protocol, clock, events, max_latency, raced>>

\* a write to a valid line: readx unless it is exclusive
WriteHit(c, t) ==
  /\ Performed(c, clock[c])
  /\ \E w \in Found(c, t) :
       /\ line[c][w].st # "I"
       /\ IF Bus!IsExclusive(line[c][w].st)
          THEN Touch(c, w, "M") /\ UNCHANGED <<events, raced>>
          ELSE /\ Touch(c, w, Bus!ReadXState(Copies(t), c))
               /\ Call(c, t, Copies(t), Bus!ReadXSnoop(line[c][w].st), clock[c], {})
  /\ stale' = stale \union {t}
  /\ UNCHANGED <<protocol, clock, max_latency>>

\* a write to a line on its way: readx at the time of its arrival, and the
\* event gets the new state
WriteHalfMiss(c, t) ==
  /\ Performed(c, clock[c])
  /\ Copies(t)[c] = "I"
  /\ \E e \in Pending(c, t) :
       LET cp == [Copies(t) EXCEPT ![c] = e.st]
           st == Bus!ReadXState(cp, c)
           fs == events[c] \ {e}
       IN /\ IF Bus!IsExclusive(e.st)
             THEN /\ events' = [events EXCEPT ![c] = fs \union {[e EXCEPT !.st = "M"]}]
                  /\ UNCHANGED raced
             ELSE LET told == Told(c, t, cp, Bus!ReadXSnoop(e.st), e.when)
                  IN /\ Answering(c, e.when)
                     /\ events' = [d \in Caches |->
                          IF d = c THEN fs \union {[e EXCEPT !.st = st]}
                          ELSE events[d] \union told[d]]
                     /\ raced' = raced \union {t}
  /\ stale' = stale \union {t}
  /\ UNCHANGED <<protocol, clock, line, max_latency>>

-----------------------------------------------------------------------------
\* Events

\* The times that calls may carry: the clocks, and the arrival of a line in
\* flight that is not exclusive
Reach ==
  {clock[c] : c \in Caches}
    \union {e.when : e \in {f \in UNION {events[c] : c \in Caches} :
                             f.type = "UPDATE" /\ ~Bus!IsExclusive(f.st)}}

\* the next event of c, and due
NextEvent(c, e) ==
  /\ e \in events[c]
  /\ \A f \in events[c] : e.when <= f.when
  /\ \E time \in Reach : e.when <= time

\* A call with this time comes before the clocks get there.
Ahead(time) == \A c \in Caches : clock[c] < time

\* The caches that a writeback of t snoops have performed what concerns t.
UpToDate(c, t, time) ==
  \A d \in Caches \ {c} : \A e \in events[d] :
    e.tag = t \/ e.line \in Found(d, t) => e.when > time

\* the events once e is performed, with a writeback of tag t or without
After(c, e, t, wb) ==
  LET told == Told(c, t, Copies(t), Bus!Kill, e.when)
  IN [d \in Caches |-> IF d = c THEN events[c] \ {e}
                       ELSE IF wb THEN events[d] \union told[d] ELSE events[d]]

\* Mutant: the dirty line that is replaced is forgotten.
PerformUpdate_NoWriteback(c, e) ==
  /\ NextEvent(c, e)
  /\ e.type = "UPDATE"
  /\ events' = [events EXCEPT ![c] = @ \ {e}]
  /\ LET at == IF Found(c, e.tag) # {} THEN Found(c, e.tag) ELSE {e.line}
     IN line' = [line EXCEPT ![c] = [w \in Ways[c] |->
          IF w \in at THEN [tag |-> e.tag, st |-> e.st, res |-> FALSE] ELSE @[w]]]
  /\ UNCHANGED <<protocol, clock, max_latency, stale, raced>>

\* perform_update and allocate: a tag that is in the set keeps its line
PerformUpdate(c, e) ==
  LET old == line[c][e.line]
      wb  == Bus!IsDirty(old.st)
      at  == IF Found(c, e.tag) # {} THEN Found(c, e.tag) ELSE {e.line}
  IN /\ NextEvent(c, e)
     /\ e.type = "UPDATE"
     /\ wb => UpToDate(c, old.tag, e.when)
     /\ events' = After(c, e, old.tag, wb)
     /\ line' = [line EXCEPT ![c] = [w \in Ways[c] |->
          IF w \in at THEN [tag |-> e.tag, st |-> e.st, res |-> FALSE] ELSE @[w]]]
     /\ stale' = IF wb THEN stale \ {old.tag} ELSE stale
     /\ raced' = IF wb /\ Ahead(e.when) THEN raced \union {old.tag} ELSE raced
     /\ UNCHANGED <<protocol, clock, max_latency>>

\* perform_invalidate: whatever the line holds by now
PerformInvalidate(c, e) ==
  LET old == line[c][e.line]
      wb  == Bus!IsDirty(old.st) /\ e.st = "S"
  IN /\ NextEvent(c, e)
     /\ e.type = "INVALIDATE"
     /\ wb => UpToDate(c, old.tag, e.when)
     /\ events' = After(c, e, old.tag, wb)
     /\ line' = [line EXCEPT ![c][e.line].st = e.st,
                             ![c][e.line].res = IF e.st = "I" THEN FALSE ELSE @]
     /\ stale' = IF wb THEN stale \ {old.tag} ELSE stale
     /\ raced' = IF old.tag \in {e.tag, NoTag} /\ ~(wb /\ Ahead(e.when)) THEN raced
                 ELSE raced \union {old.tag}
     /\ UNCHANGED <<protocol, clock, max_latency>>

Perform(c) ==
  \E e \in events[c] : PerformUpdate(c, e) \/ PerformInvalidate(c, e)

Next ==
  /\ Cardinality(raced) <= MaxRaced
  /\ \E c \in Caches :
       \/ Tick(c)
       \/ Perform(c)
       \/ \E t \in Tags : ReadHit(c, t) \/ ReadMiss(c, t) \/ WriteHit(c, t)
                          \/ WriteHalfMiss(c, t) \/ WriteMiss(c, t)

Spec == Init /\ [][Next]_vars

-----------------------------------------------------------------------------
\* Properties

Updates(c) == {e \in events[c] : e.type = "UPDATE"}
Invalidates(c) == {e \in events[c] : e.type = "INVALIDATE"}

\* Types.
TypeOK ==
  /\ protocol \in Protocols
  /\ clock \in [Caches -> Nat] /\ max_latency \in [Caches -> Nat]
  /\ DOMAIN line = Caches /\ DOMAIN events = Caches
  /\ \A c \in Caches :
       /\ line[c] \in
            [Ways[c] -> [tag : Tags \union {NoTag}, st : Bus!States, res : BOOLEAN]]
       /\ events[c] \subseteq
            [when : Nat, type : {"UPDATE", "INVALIDATE"}, tag : Tags,
             st : Bus!States, line : Ways[c]]
  /\ stale \subseteq Tags /\ raced \subseteq Tags

\* A line is fetched once: no second miss on it is sent while it is on its
\* way, and but for races none is on its way that is in the set already.
FetchedOnce ==
  \A c \in Caches : \A e \in Updates(c) :
    /\ \A f \in Updates(c) : f.tag = e.tag => f = e
    /\ e.tag \in raced \/ Copies(e.tag)[c] = "I"

\* A reserved line has an update on its way that will put it to use: the set
\* never loses a way for good.
NoneLeaked ==
  /\ TypeOK
  /\ \A c \in Caches : \A w \in Reserved(c) :
    \E e \in Updates(c) : e.line = w

\* An invalidation holds a pointer to a line and not a tag: the line still has
\* the tag when it is performed, unless the bus sent it for a line in flight.
HitsItsTag ==
  \A c \in Caches : \A e \in Invalidates(c) :
    e.tag \in raced \/ line[c][e.line].tag = e.tag

\* what a line of c becomes by the invalidations on their way
Settled(c, t) ==
  LET es == {e \in Invalidates(c) : e.tag = t}
      last == {e \in es : \A f \in es : f.when <= e.when}
  IN IF es = {} THEN {Copies(t)[c]} ELSE {e.st : e \in last}

\* A line that was never asked for while it was on its way to another cache is
\* as coherent as while warming: an exclusive copy is the only one.
Coherent ==
  \A t \in Tags \ raced : \A c, d \in Caches :
    c # d =>
      \A s \in Settled(c, t), u \in Settled(d, t) :
        /\ Bus!IsExclusive(s) => u = "I"
        /\ s = "O" => u # "O"

\* With MOESI no write is lost, but by such a race.
DirtyKept ==
  protocol = "MOESI" =>
    \A t \in stale \ raced : \E c \in Caches :
      \/ Bus!IsDirty(Copies(t)[c])
      \/ \E e \in Updates(c) : e.tag = t /\ Bus!IsDirty(e.st)

=============================================================================
