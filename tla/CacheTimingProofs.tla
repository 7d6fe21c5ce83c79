--------------------------- MODULE CacheTimingProofs ---------------------------
(***************************************************************************)
(* For any caches, tags, ways, latencies and protocols, races of the bus   *)
(* or not: no way of a set is lost by a miss, and a line is fetched once.  *)
(* With the skew of the clocks below the latency of the bus also: an       *)
(* invalidation finds its tag, no two caches disagree on who owns a line,  *)
(* and no modified copy is dropped without being written back.             *)
(*                                                                         *)
(* perform_update puts the data where its tag is found, and not where room *)
(* was reserved for it, if the two differ; the reservation would stay for  *)
(* good.  They never differ, because a tag is fetched once, is in the set  *)
(* once, and a miss takes the line that has its tag.                       *)
(*                                                                         *)
(* The rest is about the order in which the deferred events of one tag     *)
(* take effect: what an access decides on is the state the tag will have   *)
(* when everything before it has been performed.                           *)
(***************************************************************************)
EXTENDS CacheTiming, TLAPS

Event(c, type) ==
  [when : Nat, type : {type}, tag : Tags, st : Bus!States, line : Ways[c]]

\* perform_up_to and has(): what is on its way is not farther than has() looks
Due ==
  \A c \in Caches : \A e \in Updates(c) : e.when <= clock[c] + max_latency[c]

Single ==
  \A c \in Caches : \A e, f \in Updates(c) : e.tag = f.tag => e = f

\* a tag in flight is in no line but the one it will be put into
Home ==
  \A c \in Caches : \A e \in Updates(c) : Found(c, e.tag) \subseteq {e.line}

OneLine ==
  \A c \in Caches, t \in Tags : \A w, x \in Found(c, t) : w = x

\* a line with data, or one that is invalidated, has been in use
Tagged ==
  \A c \in Caches :
    /\ \A w \in Ways[c] : line[c][w].st # "I" => line[c][w].tag \in Tags
    /\ \A e \in Invalidates(c) : line[c][e.line].tag \in Tags

Leakless ==
  \A c \in Caches : \A w \in Reserved(c) : \E e \in Updates(c) : e.line = w

IInv == TypeOK /\ Due /\ Single /\ Home /\ OneLine /\ Tagged /\ Leakless

-----------------------------------------------------------------------------
\* The bus

LEMMA CopiesType ==
  ASSUME TypeOK, NEW t \in Tags PROVE Copies(t) \in [Caches -> Bus!States]
<1> SUFFICES ASSUME NEW c \in Caches PROVE Copies(t)[c] \in Bus!States
  BY DEF Copies
<1> DEFINE held == {line[c][w].st : w \in Found(c, t)} \ {"I"}
<1>1. held \subseteq Bus!States
  BY DEF TypeOK, Found
<1>2. Copies(t)[c] = IF held = {} THEN "I" ELSE CHOOSE st \in held : TRUE
  BY DEF Copies
<1> QED
  BY <1>1, <1>2 DEF Bus!States

Answers == [Bus!Valid -> Bus!States \union {"-"}]

LEMMA AnswerTypes ==
  /\ Bus!Demote(protocol) \in Answers /\ Bus!Kill \in Answers
  /\ \A s : Bus!ReadXSnoop(s) \in Answers
BY DEF Answers, Bus!Demote, Bus!Kill, Bus!ReadXSnoop, Bus!Leave, Bus!Share,
       Bus!Valid, Bus!States

LEMMA NewStates ==
  ASSUME NEW cp, NEW c
  PROVE  Bus!ReadState(cp, c) \in Bus!States /\ Bus!ReadXState(cp, c) \in Bus!States
BY DEF Bus!ReadState, Bus!ReadXState, Bus!States, Bus!Valid

\* what the bus may leave with a cache
Telling(c) == {e \in Event(c, "INVALIDATE") : line[c][e.line].tag \in Tags}

LEMMA ToldType ==
  ASSUME TypeOK, NEW c \in Caches, NEW t \in Tags,
         NEW cp \in [Caches -> Bus!States], NEW to \in Answers, NEW time \in Nat
  PROVE  \A d \in Caches :
           Told(c, t, cp, to, time)[d] \subseteq Telling(d)
<1> SUFFICES ASSUME NEW d \in Caches, NEW e \in Told(c, t, cp, to, time)[d]
             PROVE  e \in Telling(d)
  OBVIOUS
<1>1. d \in Bus!Snooped(cp, c, to)
      /\ \E w \in Found(d, t) : e = Future(time, "INVALIDATE", t, to[cp[d]], w)
  BY DEF Told
<1>2. to[cp[d]] \in Bus!States
  BY <1>1 DEF Bus!Snooped, Answers, Bus!States
<1> QED
  BY <1>1, <1>2 DEF Future, Event, Found, Telling

\* Invalidations are no updates.
LEMMA Apart ==
  ASSUME NEW c, NEW S, NEW T \in SUBSET Event(c, "INVALIDATE")
  PROVE  {e \in S \union T : e.type = "UPDATE"} = {e \in S : e.type = "UPDATE"}
BY DEF Event

LEMMA WheelTypes ==
  ASSUME TypeOK, NEW c \in Caches
  PROVE  \A e \in events[c] :
           e \in Event(c, "UPDATE") \/ e \in Event(c, "INVALIDATE")
BY DEF TypeOK, Event

-----------------------------------------------------------------------------
\* Steps that send and perform no update

\* What is on its way stays but for its state, no line gets another tag and
\* none is reserved.
LEMMA Moved ==
  ASSUME IInv, TypeOK', Single',
         \A c \in Caches : \A f \in Updates(c)' :
           \E e \in Updates(c) :
             f.when = e.when /\ f.tag = e.tag /\ f.line = e.line,
         \A c \in Caches : \A e \in Updates(c) :
           \E f \in Updates(c)' : f.line = e.line,
         \A c \in Caches : clock[c] <= clock'[c],
         max_latency' = max_latency,
         \A c \in Caches : \A w \in Ways[c] :
           /\ line'[c][w].tag = line[c][w].tag
           /\ line'[c][w].res => line[c][w].res
           /\ line'[c][w].st # "I" => line[c][w].tag \in Tags,
         \A c \in Caches : Invalidates(c)' \subseteq Invalidates(c) \union Telling(c)
  PROVE  IInv'
<1>1. \A c \in Caches, t \in Tags : Found(c, t)' = Found(c, t)
  BY DEF Found
<1>2. \A c \in Caches : Reserved(c)' \subseteq Reserved(c)
  BY DEF Reserved
<1>3. \A c \in Caches : \A e \in Updates(c) : e.tag \in Tags /\ e.when \in Nat
  BY DEF IInv, TypeOK, Updates
<1>4. Due'
  <2> SUFFICES ASSUME NEW c \in Caches, NEW f \in Updates(c)'
               PROVE  f.when <= clock'[c] + max_latency[c]
    BY DEF Due
  <2>1. PICK e \in Updates(c) : f.when = e.when
    OBVIOUS
  <2>2. e.when <= clock[c] + max_latency[c] /\ e.when \in Nat
    BY <1>3 DEF IInv, Due
  <2>3. clock[c] \in Nat /\ clock'[c] \in Nat /\ max_latency[c] \in Nat
    BY DEF IInv, TypeOK
  <2> QED
    BY <2>1, <2>2, <2>3
<1>6. Home'
  <2> SUFFICES ASSUME NEW c \in Caches, NEW f \in Updates(c)'
               PROVE  Found(c, f.tag)' \subseteq {f.line}
    BY DEF Home
  <2>1. PICK e \in Updates(c) : f.tag = e.tag /\ f.line = e.line
    OBVIOUS
  <2>2. Found(c, e.tag) \subseteq {e.line}
    BY DEF IInv, Home
  <2>3. Found(c, f.tag)' = Found(c, e.tag)
    BY <2>1 DEF Found
  <2> QED
    BY <2>1, <2>2, <2>3
<1>7. OneLine'
  BY <1>1 DEF IInv, OneLine
<1>8. Leakless'
  <2> SUFFICES ASSUME NEW c \in Caches, NEW w \in Reserved(c)
               PROVE  \E f \in Updates(c)' : f.line = w
    BY <1>2 DEF Leakless
  <2> QED
    BY DEF IInv, Leakless
<1>9. Tagged'
  <2>1. ASSUME NEW c \in Caches, NEW w \in Ways[c], line'[c][w].st # "I"
        PROVE  line'[c][w].tag \in Tags
    BY <2>1
  <2>2. ASSUME NEW c \in Caches, NEW e \in Invalidates(c)'
        PROVE  line'[c][e.line].tag \in Tags
    <3>1. e \in Invalidates(c) \/ e \in Telling(c)
      BY <2>2
    <3>2. e.line \in Ways[c] /\ line[c][e.line].tag \in Tags
      BY <3>1 DEF IInv, Tagged, TypeOK, Telling, Event, Invalidates
    <3> QED
      BY <3>2
  <2> QED
    BY <2>1, <2>2 DEF Tagged
<1> QED
  BY <1>4, <1>6, <1>7, <1>8, <1>9 DEF IInv

LEMMA Quiet ==
  ASSUME IInv, TypeOK',
         \A c \in Caches : Updates(c)' = Updates(c),
         \A c \in Caches : clock[c] <= clock'[c],
         max_latency' = max_latency,
         \A c \in Caches : \A w \in Ways[c] :
           /\ line'[c][w].tag = line[c][w].tag
           /\ line'[c][w].res => line[c][w].res
           /\ line'[c][w].st # "I" => line[c][w].tag \in Tags,
         \A c \in Caches : Invalidates(c)' \subseteq Invalidates(c) \union Telling(c)
  PROVE  IInv'
<1>1. Single'
  BY DEF IInv, Single
<1> QED
  BY <1>1, Moved

\* A hit changes the state of its line and ends its reservation.
LEMMA TouchLine ==
  ASSUME TypeOK, NEW c \in Caches, NEW w \in Ways[c], NEW st \in Bus!States,
         Tagged, line[c][w].tag \in Tags, Touch(c, w, st)
  PROVE  /\ \A d \in Caches : line'[d] \in
              [Ways[d] -> [tag : Tags \union {NoTag}, st : Bus!States, res : BOOLEAN]]
         /\ \A d \in Caches : \A x \in Ways[d] :
              /\ line'[d][x].tag = line[d][x].tag
              /\ line'[d][x].res => line[d][x].res
              /\ line'[d][x].st # "I" => line[d][x].tag \in Tags
         /\ DOMAIN line' = Caches
<1> DEFINE Line == [tag : Tags \union {NoTag}, st : Bus!States, res : BOOLEAN]
<1>1. DOMAIN line = Caches /\ \A d \in Caches : line[d] \in [Ways[d] -> Line]
  BY DEF TypeOK
<1>2. line[c][w] \in Line
  BY <1>1
<1> DEFINE new == [line[c][w] EXCEPT !.st = st, !.res = FALSE]
<1>3. new \in Line /\ new.tag = line[c][w].tag /\ ~new.res
  BY <1>2
<1> HIDE DEF new, Line
<1>4. /\ DOMAIN line' = Caches
      /\ \A d \in Caches \ {c} : line'[d] = line[d]
      /\ line'[c] = [line[c] EXCEPT ![w] = new]
  BY <1>1 DEF Touch, new
<1>5. line'[c] \in [Ways[c] -> Line]
  BY <1>1, <1>3, <1>4
<1> QED
  <2>1. \A d \in Caches : \A x \in Ways[d] :
          /\ line'[d][x].tag = line[d][x].tag
          /\ line'[d][x].res => line[d][x].res
          /\ line'[d][x].st # "I" => line[d][x].tag \in Tags
    BY <1>1, <1>3, <1>4 DEF Tagged
  <2> QED
    BY <1>1, <1>3, <1>4, <1>5, <2>1 DEF Line

LEMMA TickInv == ASSUME IInv, NEW c \in Caches, Tick(c) PROVE IInv'
<1>1. /\ \A d \in Caches : clock'[d] \in Nat /\ clock[d] <= clock'[d]
      /\ clock' \in [Caches -> Nat]
      /\ UNCHANGED <<protocol, line, events, max_latency, stale, raced>>
  BY DEF Tick, IInv, TypeOK
<1>2. TypeOK'
  BY <1>1 DEF IInv, TypeOK
<1> QED
  BY <1>1, <1>2, Quiet DEF Updates, Invalidates, IInv, Tagged

LEMMA ReadHitInv ==
  ASSUME IInv, NEW c \in Caches, NEW t \in Tags, ReadHit(c, t) PROVE IInv'
<1>1. PICK w \in Ways[c] : line[c][w].tag \in Tags /\ Touch(c, w, line[c][w].st)
  BY DEF ReadHit, Found
<1>2. line[c][w].st \in Bus!States
  BY DEF IInv, TypeOK
<1>3. UNCHANGED <<protocol, clock, events, max_latency, stale, raced>>
  BY DEF ReadHit
<1>4. TypeOK /\ Tagged
  BY DEF IInv
<1>5. TypeOK'
  BY <1>1, <1>2, <1>3, <1>4, TouchLine DEF TypeOK
<1>6. \A d \in Caches : clock[d] <= clock'[d]
  BY <1>3, <1>4 DEF TypeOK
<1> QED
  BY <1>1, <1>2, <1>3, <1>4, <1>5, <1>6, TouchLine, Quiet DEF Updates, Invalidates

Wheels(ev) ==
  /\ DOMAIN ev = Caches
  /\ \A c \in Caches : ev[c] \subseteq Event(c, "UPDATE") \union Event(c, "INVALIDATE")

LEMMA WheelsType ==
  ASSUME NEW ev
  PROVE  Wheels(ev) <=>
    /\ DOMAIN ev = Caches
    /\ \A c \in Caches :
         ev[c] \subseteq
            [when : Nat, type : {"UPDATE", "INVALIDATE"}, tag : Tags,
             st : Bus!States, line : Ways[c]]
BY DEF Wheels, Event

\* Invalidations come and go.
LEMMA TellAll ==
  ASSUME Wheels(events), DOMAIN events' = Caches,
         \A d \in Caches :
           /\ events'[d] \subseteq events[d] \union Telling(d)
           /\ \A e \in events[d] : e.type = "UPDATE" => e \in events'[d]
  PROVE  /\ Wheels(events')
         /\ \A d \in Caches :
              /\ Updates(d)' = Updates(d)
              /\ Invalidates(d)' \subseteq Invalidates(d) \union Telling(d)
<1>1. Wheels(events')
  BY DEF Wheels, Telling
<1>2. ASSUME NEW d \in Caches
      PROVE  /\ Updates(d)' = Updates(d)
             /\ Invalidates(d)' \subseteq Invalidates(d) \union Telling(d)
  BY DEF Updates, Invalidates, Telling, Event
<1> QED
  BY <1>1, <1>2

LEMMA WriteHitInv ==
  ASSUME IInv, NEW c \in Caches, NEW t \in Tags, WriteHit(c, t) PROVE IInv'
<1> DEFINE to(s) == Bus!ReadXSnoop(s)
           told(s) == Told(c, t, Copies(t), to(s), clock[c])
<1>1. TypeOK /\ Tagged /\ Wheels(events) /\ clock[c] \in Nat
  BY WheelsType DEF IInv, TypeOK
<1>2. PICK w \in Ways[c] :
        /\ line[c][w].tag \in Tags
        /\ \/ Touch(c, w, "M") /\ UNCHANGED <<events, raced>>
           \/ /\ Touch(c, w, Bus!ReadXState(Copies(t), c))
              /\ Call(c, t, Copies(t), to(line[c][w].st), clock[c], {})
  BY DEF WriteHit, Found
<1>3. \E st \in Bus!States : Touch(c, w, st)
  <2>1. "M" \in Bus!States /\ Bus!ReadXState(Copies(t), c) \in Bus!States
    BY NewStates DEF Bus!States, Bus!Valid
  <2> QED
    BY <1>2, <2>1
<1>4. /\ Wheels(events')
      /\ \A d \in Caches :
           /\ Updates(d)' = Updates(d)
           /\ Invalidates(d)' \subseteq Invalidates(d) \union Telling(d)
  <2>1. CASE UNCHANGED events
    BY <1>1, <2>1 DEF Updates, Invalidates
  <2>2. CASE Call(c, t, Copies(t), to(line[c][w].st), clock[c], {})
    <3> DEFINE T == told(line[c][w].st)
    <3>1. \A d \in Caches : T[d] \subseteq Telling(d)
      BY <1>1, CopiesType, AnswerTypes, ToldType
    <3>2. events' = [d \in Caches |-> events[d] \union T[d]]
      BY <2>2 DEF Call
    <3>3. DOMAIN events' = Caches
          /\ \A d \in Caches :
               /\ events'[d] \subseteq events[d] \union Telling(d)
               /\ \A e \in events[d] : e.type = "UPDATE" => e \in events'[d]
      BY <3>1, <3>2
    <3> QED
      BY <1>1, <3>3, TellAll
  <2> QED
    BY <1>2, <2>1, <2>2
<1>9. /\ DOMAIN line' = Caches
      /\ \A d \in Caches : line'[d] \in
           [Ways[d] -> [tag : Tags \union {NoTag}, st : Bus!States, res : BOOLEAN]]
      /\ \A d \in Caches : \A x \in Ways[d] :
           /\ line'[d][x].tag = line[d][x].tag
           /\ line'[d][x].res => line[d][x].res
           /\ line'[d][x].st # "I" => line[d][x].tag \in Tags
  BY <1>1, <1>2, <1>3, TouchLine
<1>5. raced' \subseteq Tags
  BY <1>1, <1>2 DEF Call, TypeOK
<1>6. stale' \subseteq Tags /\ UNCHANGED <<protocol, clock, max_latency>>
  BY <1>1 DEF WriteHit, TypeOK
<1>7. TypeOK'
  <2>1. \A d \in Caches :
          events'[d] \subseteq
            [when : Nat, type : {"UPDATE", "INVALIDATE"}, tag : Tags,
             st : Bus!States, line : Ways[d]]
    BY <1>4, WheelsType
  <2>2. DOMAIN events' = Caches
    BY <1>4 DEF Wheels
  <2> QED
    BY <1>1, <1>5, <1>6, <1>9, <2>1, <2>2 DEF TypeOK
<1>8. \A d \in Caches : clock[d] <= clock'[d]
  BY <1>1, <1>6 DEF TypeOK
<1> QED
  BY <1>4, <1>6, <1>7, <1>8, <1>9, Quiet

LEMMA PerformInvalidateInv ==
  ASSUME IInv, NEW c \in Caches, NEW e \in events[c], PerformInvalidate(c, e)
  PROVE  IInv'
<1> DEFINE old == line[c][e.line]
           told == Told(c, old.tag, Copies(old.tag), Bus!Kill, e.when)
           wb == Bus!IsDirty(old.st) /\ e.st = "S"
<1>1. /\ TypeOK /\ Tagged /\ Wheels(events)
      /\ e \in Event(c, "INVALIDATE") /\ e.line \in Ways[c]
      /\ e.st \in Bus!States /\ e.when \in Nat /\ e.type = "INVALIDATE"
  BY WheelsType, WheelTypes DEF IInv, TypeOK, PerformInvalidate, Event
<1>2. old.tag \in Tags
  BY <1>1 DEF Tagged, Invalidates
<1>3. \A d \in Caches : told[d] \subseteq Telling(d)
  BY <1>1, <1>2, CopiesType, AnswerTypes, ToldType
<1>4. events' = [d \in Caches |-> IF d = c THEN events[c] \ {e}
                   ELSE IF wb THEN events[d] \union told[d] ELSE events[d]]
  BY DEF PerformInvalidate, After
<1> HIDE DEF told, wb
<1>5. /\ Wheels(events')
      /\ \A d \in Caches :
           /\ Updates(d)' = Updates(d)
           /\ Invalidates(d)' \subseteq Invalidates(d) \union Telling(d)
  <2>1. DOMAIN events' = Caches
        /\ \A d \in Caches :
             /\ events'[d] \subseteq events[d] \union Telling(d)
             /\ \A f \in events[d] : f.type = "UPDATE" => f \in events'[d]
    BY <1>1, <1>3, <1>4
  <2> QED
    BY <1>1, <2>1, TellAll
<1> DEFINE Line == [tag : Tags \union {NoTag}, st : Bus!States, res : BOOLEAN]
           new == [old EXCEPT !.st = e.st, !.res = IF e.st = "I" THEN FALSE ELSE @]
<1>6. DOMAIN line = Caches /\ (\A d \in Caches : line[d] \in [Ways[d] -> Line])
      /\ old \in Line
  BY <1>1 DEF TypeOK
<1>7. new \in Line /\ new.tag = old.tag /\ (new.res => old.res)
  BY <1>1, <1>6
<1>8. line' = [line EXCEPT ![c] = [line[c] EXCEPT ![e.line] = new]]
  BY <1>1, <1>6 DEF PerformInvalidate
<1> HIDE DEF new, Line
<1>9. /\ DOMAIN line' = Caches
      /\ \A d \in Caches : line'[d] \in [Ways[d] -> Line]
      /\ \A d \in Caches : \A x \in Ways[d] :
           /\ line'[d][x].tag = line[d][x].tag
           /\ line'[d][x].res => line[d][x].res
           /\ line'[d][x].st # "I" => line[d][x].tag \in Tags
  BY <1>1, <1>2, <1>6, <1>7, <1>8 DEF Tagged
<1>10. raced' \subseteq Tags /\ stale' \subseteq Tags
       /\ UNCHANGED <<protocol, clock, max_latency>>
  BY <1>1, <1>2 DEF PerformInvalidate, TypeOK
<1>11. TypeOK'
  <2>1. \A d \in Caches :
          events'[d] \subseteq
            [when : Nat, type : {"UPDATE", "INVALIDATE"}, tag : Tags,
             st : Bus!States, line : Ways[d]]
    BY <1>5, WheelsType
  <2>2. DOMAIN events' = Caches
    BY <1>5 DEF Wheels
  <2> QED
    BY <1>1, <1>9, <1>10, <2>1, <2>2 DEF TypeOK, Line
<1>12. \A d \in Caches : clock[d] <= clock'[d]
  BY <1>1, <1>10 DEF TypeOK
<1> QED
  BY <1>5, <1>9, <1>10, <1>11, <1>12, Quiet

\* A write to a line on its way changes the state that the line will have.
LEMMA WriteHalfMissInv ==
  ASSUME IInv, NEW c \in Caches, NEW t \in Tags, WriteHalfMiss(c, t) PROVE IInv'
<1> DEFINE cp(e) == [Copies(t) EXCEPT ![c] = e.st]
           told(e) == Told(c, t, cp(e), Bus!ReadXSnoop(e.st), e.when)
<1>1. TypeOK /\ Tagged /\ Wheels(events)
  BY WheelsType DEF IInv, TypeOK
<1>2. PICK e \in Pending(c, t), st \in Bus!States :
        \/ events' = [events EXCEPT ![c] = (@ \ {e}) \union {[e EXCEPT !.st = st]}]
        \/ events' = [d \in Caches |->
             IF d = c THEN (events[c] \ {e}) \union {[e EXCEPT !.st = st]}
             ELSE events[d] \union told(e)[d]]
  <2>1. "M" \in Bus!States /\ \A x : Bus!ReadXState(x, c) \in Bus!States
    BY NewStates DEF Bus!States, Bus!Valid
  <2> QED
    BY <1>1, <2>1 DEF WriteHalfMiss, TypeOK
<1>3. /\ e \in events[c] /\ e \in Event(c, "UPDATE") /\ e.tag = t
      /\ e.type = "UPDATE" /\ e.st \in Bus!States /\ e.when \in Nat
  BY <1>1, WheelTypes DEF Pending, Event
<1>4. \A d \in Caches : told(e)[d] \subseteq Telling(d)
  <2>1. cp(e) \in [Caches -> Bus!States]
    BY <1>1, <1>3, CopiesType
  <2> QED
    BY <1>1, <1>3, <2>1, AnswerTypes, ToldType
<1> DEFINE new == [e EXCEPT !.st = st]
<1>5. /\ new \in Event(c, "UPDATE") /\ new.when = e.when /\ new.tag = e.tag
      /\ new.line = e.line /\ new.type = "UPDATE"
  BY <1>3 DEF Event
<1>6. /\ DOMAIN events' = Caches
      /\ events'[c] = (events[c] \ {e}) \union {new}
      /\ \A d \in Caches \ {c} :
           events[d] \subseteq events'[d] /\ events'[d] \subseteq events[d] \union Telling(d)
  BY <1>1, <1>2, <1>4 DEF TypeOK
<1> HIDE DEF told, cp, new
<1>7. /\ Updates(c)' = (Updates(c) \ {e}) \union {new}
      /\ Invalidates(c)' = Invalidates(c)
  BY <1>3, <1>5, <1>6 DEF Updates, Invalidates
<1>8. \A d \in Caches \ {c} :
        /\ Updates(d)' = Updates(d)
        /\ Invalidates(d)' \subseteq Invalidates(d) \union Telling(d)
  BY <1>6 DEF Updates, Invalidates, Telling, Event
<1>9. Wheels(events')
  BY <1>1, <1>5, <1>6 DEF Wheels, Telling
<1>10. UNCHANGED <<protocol, clock, line, max_latency>>
       /\ raced' \subseteq Tags /\ stale' \subseteq Tags
  BY <1>1 DEF WriteHalfMiss, TypeOK
<1>11. TypeOK'
  <2>1. \A d \in Caches :
          events'[d] \subseteq
            [when : Nat, type : {"UPDATE", "INVALIDATE"}, tag : Tags,
             st : Bus!States, line : Ways[d]]
    BY <1>9, WheelsType
  <2> QED
    BY <1>1, <1>6, <1>10, <2>1 DEF TypeOK
<1>12. Single'
  <2>1. e \in Updates(c)
    BY <1>3 DEF Updates
  <2> QED
    BY <1>5, <1>7, <1>8, <2>1 DEF IInv, Single
<1>13. \A d \in Caches : clock[d] <= clock'[d]
  BY <1>1, <1>10 DEF TypeOK
<1>14. /\ \A d \in Caches : \A f \in Updates(d)' : \E g \in Updates(d) :
            f.when = g.when /\ f.tag = g.tag /\ f.line = g.line
       /\ \A d \in Caches : \A g \in Updates(d) :
            \E f \in Updates(d)' : f.line = g.line
  <2>1. e \in Updates(c)
    BY <1>3 DEF Updates
  <2> QED
    BY <1>5, <1>7, <1>8, <2>1
<1>15. \A d \in Caches : Invalidates(d)' \subseteq Invalidates(d) \union Telling(d)
  BY <1>7, <1>8
<1>16. \A d \in Caches : \A w \in Ways[d] :
         line[d][w].st # "I" => line[d][w].tag \in Tags
  BY <1>1 DEF Tagged
<1> QED
  BY <1>10, <1>11, <1>12, <1>13, <1>14, <1>15, <1>16, Moved

-----------------------------------------------------------------------------
\* Misses and their updates

\* The victim of a miss is a line of the set, and the one with the tag if there
\* is one.
LEMMA VictimLine ==
  ASSUME OneLine, NEW c \in Caches, NEW t \in Tags, NEW w \in Victims(c, t)
  PROVE  w \in Ways[c] /\ Found(c, t) \subseteq {w}
<1>1. Victims(c, t) \subseteq Ways[c]
  BY DEF Victims, Lru, Found, Invalid
<1>2. Found(c, t) \subseteq {w}
  BY DEF Victims, OneLine
<1> QED
  BY <1>1, <1>2

\* A miss sends an update to the line it reserves.
LEMMA MissInv ==
  ASSUME IInv, NEW c \in Caches, NEW t \in Tags, NEW to \in Answers,
         NEW st \in Bus!States, Miss(c, t, to, st), stale' \subseteq Tags
  PROVE  IInv'
<1>1. TypeOK /\ Tagged /\ OneLine /\ Wheels(events) /\ clock[c] \in Nat
  BY WheelsType DEF IInv, TypeOK
<1>2. PICK lat \in Lats, w \in Victims(c, t) :
        /\ Call(c, t, Copies(t), to, clock[c],
                {Future(clock[c] + lat, "UPDATE", t, st, w)})
        /\ line' = [line EXCEPT ![c][w].res = TRUE]
        /\ max_latency' = [max_latency EXCEPT ![c] = IF lat > @ THEN lat ELSE @]
  BY DEF Miss
<1> DEFINE new == Future(clock[c] + lat, "UPDATE", t, st, w)
           told == Told(c, t, Copies(t), to, clock[c])
<1>3. w \in Ways[c] /\ Found(c, t) \subseteq {w}
  BY <1>1, VictimLine
<1>4. /\ new \in Event(c, "UPDATE") /\ new.when = clock[c] + lat /\ new.tag = t
      /\ new.line = w /\ new.type = "UPDATE"
  BY <1>1, <1>3, CacheTimingAssumption DEF Future, Event
<1>5. \A d \in Caches : told[d] \subseteq Telling(d)
  BY <1>1, CopiesType, ToldType
<1>6. /\ events' = [d \in Caches |->
           events[d] \union told[d] \union (IF d = c THEN {new} ELSE {})]
      /\ raced' \subseteq Tags
  BY <1>1, <1>2 DEF Call, TypeOK
<1>7. \A e \in Updates(c) : e.tag # t
  <2>1. Pending(c, t) = {}
    BY DEF Miss
  <2> QED
    BY <2>1 DEF Pending, Updates, IInv, Due
<1> HIDE DEF told, new
<1>8. /\ Updates(c)' = Updates(c) \union {new}
      /\ \A d \in Caches \ {c} : Updates(d)' = Updates(d)
      /\ \A d \in Caches : Invalidates(d)' \subseteq Invalidates(d) \union Telling(d)
  BY <1>4, <1>5, <1>6 DEF Updates, Invalidates, Telling, Event
<1>9. Wheels(events')
  BY <1>1, <1>4, <1>5, <1>6 DEF Wheels, Telling
<1>10. lat \in Nat /\ max_latency' \in [Caches -> Nat]
       /\ lat <= max_latency'[c]
       /\ \A d \in Caches : max_latency[d] <= max_latency'[d]
  BY <1>1, <1>2, CacheTimingAssumption DEF TypeOK
<1>11. UNCHANGED <<protocol, clock>>
  BY DEF Miss
<1> DEFINE Line == [tag : Tags \union {NoTag}, st : Bus!States, res : BOOLEAN]
           put == [line[c][w] EXCEPT !.res = TRUE]
<1>23. DOMAIN line = Caches /\ \A d \in Caches : line[d] \in [Ways[d] -> Line]
  BY <1>1 DEF TypeOK
<1>24. line[c][w] \in Line
  BY <1>3, <1>23
<1>12. DOMAIN line = Caches /\ (\A d \in Caches : line[d] \in [Ways[d] -> Line])
       /\ put \in Line /\ put.tag = line[c][w].tag /\ put.st = line[c][w].st
  BY <1>23, <1>24
<1>13. line' = [line EXCEPT ![c] = [line[c] EXCEPT ![w] = put]]
  BY <1>2, <1>3, <1>12
<1> HIDE DEF Line, put
<1>14. /\ DOMAIN line' = Caches
       /\ \A d \in Caches : line'[d] \in [Ways[d] -> Line]
       /\ \A d \in Caches : \A x \in Ways[d] :
            /\ line'[d][x].tag = line[d][x].tag
            /\ line'[d][x].st = line[d][x].st
            /\ line'[d][x].res => line[d][x].res \/ (d = c /\ x = w)
  BY <1>3, <1>12, <1>13
<1>15. TypeOK'
  <2>1. \A d \in Caches :
          events'[d] \subseteq
            [when : Nat, type : {"UPDATE", "INVALIDATE"}, tag : Tags,
             st : Bus!States, line : Ways[d]]
    BY <1>9, WheelsType
  <2> QED
    BY <1>1, <1>6, <1>10, <1>11, <1>14, <2>1 DEF TypeOK, Line
<1>16. \A d \in Caches, x \in Tags : Found(d, x)' = Found(d, x)
  BY <1>14 DEF Found
<1>17. Due'
  <2> SUFFICES ASSUME NEW d \in Caches, NEW f \in Updates(d)'
               PROVE  f.when <= clock[d] + max_latency'[d]
    BY <1>11 DEF Due
  <2>1. CASE f \in Updates(d)
    <3>1. f.when \in Nat /\ f.when <= clock[d] + max_latency[d]
      BY <2>1 DEF IInv, Due, TypeOK, Updates
    <3>2. clock[d] \in Nat /\ max_latency[d] \in Nat /\ max_latency'[d] \in Nat
      BY <1>1, <1>10 DEF TypeOK
    <3> QED
      BY <3>1, <3>2, <1>10
  <2>2. CASE d = c /\ f = new
    BY <2>2, <1>1, <1>4, <1>10
  <2> QED
    BY <2>1, <2>2, <1>8
<1>18. Single'
  BY <1>4, <1>7, <1>8 DEF IInv, Single
<1>19. Home'
  <2> SUFFICES ASSUME NEW d \in Caches, NEW f \in Updates(d)'
               PROVE  Found(d, f.tag)' \subseteq {f.line}
    BY DEF Home
  <2>1. Found(d, f.tag)' = Found(d, f.tag)
    BY <1>14 DEF Found
  <2>2. CASE f \in Updates(d)
    BY <2>1, <2>2 DEF IInv, Home
  <2>3. CASE d = c /\ f = new
    BY <2>1, <2>3, <1>3, <1>4
  <2> QED
    BY <2>2, <2>3, <1>8
<1>20. OneLine'
  BY <1>1, <1>16 DEF OneLine
<1>21. Tagged'
  <2>1. ASSUME NEW d \in Caches, NEW e \in Invalidates(d)'
        PROVE  e.line \in Ways[d] /\ line[d][e.line].tag \in Tags
    BY <2>1, <1>1, <1>8 DEF Tagged, TypeOK, Telling, Event, Invalidates
  <2> QED
    BY <2>1, <1>1, <1>14 DEF Tagged
<1>22. Leakless'
  <2> SUFFICES ASSUME NEW d \in Caches, NEW x \in Reserved(d)'
               PROVE  \E f \in Updates(d)' : f.line = x
    BY DEF Leakless
  <2>1. CASE d = c /\ x = w
    BY <2>1, <1>4, <1>8
  <2>2. CASE x \in Reserved(d)
    BY <2>2, <1>8 DEF IInv, Leakless
  <2> QED
    BY <2>1, <2>2, <1>14 DEF Reserved
<1> QED
  BY <1>15, <1>17, <1>18, <1>19, <1>20, <1>21, <1>22 DEF IInv

\* An update goes to the line that was reserved for it.
LEMMA PerformUpdateInv ==
  ASSUME IInv, NEW c \in Caches, NEW e \in events[c], PerformUpdate(c, e)
  PROVE  IInv'
<1> DEFINE old == line[c][e.line]
           told == Told(c, old.tag, Copies(old.tag), Bus!Kill, e.when)
           wb == Bus!IsDirty(old.st)
           at == IF Found(c, e.tag) # {} THEN Found(c, e.tag) ELSE {e.line}
           new == [tag |-> e.tag, st |-> e.st, res |-> FALSE]
           Line == [tag : Tags \union {NoTag}, st : Bus!States, res : BOOLEAN]
<1>1. /\ TypeOK /\ Tagged /\ OneLine /\ Wheels(events)
      /\ e \in Event(c, "UPDATE") /\ e.line \in Ways[c] /\ e.tag \in Tags
      /\ e.st \in Bus!States /\ e.when \in Nat /\ e.type = "UPDATE"
      /\ e \in Updates(c)
  BY WheelsType, WheelTypes DEF IInv, TypeOK, PerformUpdate, Event, Updates
<1>2. at = {e.line} /\ Found(c, e.tag) \subseteq {e.line}
  BY <1>1 DEF IInv, Home
<1>3. wb => old.tag \in Tags
  BY <1>1 DEF Tagged, Bus!IsDirty
<1>4. wb => \A d \in Caches : told[d] \subseteq Telling(d)
  BY <1>1, <1>3, CopiesType, AnswerTypes, ToldType
<1>5. events' = [d \in Caches |-> IF d = c THEN events[c] \ {e}
                   ELSE IF wb THEN events[d] \union told[d] ELSE events[d]]
  BY DEF PerformUpdate, After
<1>6. line' = [line EXCEPT ![c] = [w \in Ways[c] |->
          IF w \in at THEN new ELSE line[c][w]]]
  BY DEF PerformUpdate
<1>7. new \in Line
  BY <1>1
<1>8. new.tag = e.tag /\ new.st = e.st /\ ~new.res
  OBVIOUS
<1>9. DOMAIN line = Caches /\ (\A d \in Caches : line[d] \in [Ways[d] -> Line])
  BY <1>1 DEF TypeOK
<1>10. raced' \subseteq Tags /\ stale' \subseteq Tags
       /\ UNCHANGED <<protocol, clock, max_latency>>
  BY <1>1, <1>3 DEF PerformUpdate, TypeOK
<1> HIDE DEF told, wb, at, new, Line
<1>11. /\ DOMAIN line' = Caches
       /\ \A d \in Caches \ {c} : line'[d] = line[d]
       /\ line'[c] \in [Ways[c] -> Line]
       /\ line'[c][e.line] = new
       /\ \A w \in Ways[c] \ {e.line} : line'[c][w] = line[c][w]
  BY <1>1, <1>2, <1>6, <1>7, <1>9
<1>12. /\ DOMAIN events' = Caches
       /\ events'[c] = events[c] \ {e}
       /\ \A d \in Caches \ {c} :
            events[d] \subseteq events'[d] /\ events'[d] \subseteq events[d] \union Telling(d)
  BY <1>4, <1>5
<1>13. /\ Updates(c)' = Updates(c) \ {e}
       /\ \A d \in Caches \ {c} : Updates(d)' = Updates(d)
       /\ \A d \in Caches : Invalidates(d)' \subseteq Invalidates(d) \union Telling(d)
  BY <1>12 DEF Updates, Invalidates, Telling, Event
<1>14. Wheels(events')
  BY <1>1, <1>12 DEF Wheels, Telling
<1>15. TypeOK'
  <2>1. \A d \in Caches :
          events'[d] \subseteq
            [when : Nat, type : {"UPDATE", "INVALIDATE"}, tag : Tags,
             st : Bus!States, line : Ways[d]]
    BY <1>14, WheelsType
  <2>2. \A d \in Caches : line'[d] \in [Ways[d] -> Line]
    BY <1>9, <1>11
  <2> QED
    BY <1>1, <1>10, <1>11, <1>12, <2>1, <2>2 DEF TypeOK, Line
<1>16. /\ \A x \in Tags \ {e.tag} : Found(c, x)' \subseteq Found(c, x)
       /\ Found(c, e.tag)' = {e.line}
       /\ \A d \in Caches \ {c}, x \in Tags : Found(d, x)' = Found(d, x)
  BY <1>1, <1>2, <1>8, <1>11 DEF Found
<1>17. Due' /\ Single'
  BY <1>10, <1>13 DEF IInv, Due, Single
<1>18. Home'
  <2> SUFFICES ASSUME NEW d \in Caches, NEW f \in Updates(d)'
               PROVE  Found(d, f.tag)' \subseteq {f.line}
    BY DEF Home
  <2>1. f \in Updates(d) /\ f.tag \in Tags /\ (d = c => f # e)
    BY <1>1, <1>13 DEF TypeOK, Updates
  <2>2. d = c => f.tag # e.tag
    BY <1>1, <2>1 DEF IInv, Single
  <2>3. Found(d, f.tag) \subseteq {f.line}
    BY <2>1 DEF IInv, Home
  <2> QED
    BY <1>16, <2>1, <2>2, <2>3
<1>19. OneLine'
  BY <1>1, <1>16 DEF OneLine
<1>20. Tagged'
  <2>1. ASSUME NEW d \in Caches, NEW f \in Invalidates(d)'
        PROVE  f.line \in Ways[d] /\ line[d][f.line].tag \in Tags
    BY <2>1, <1>1, <1>13 DEF Tagged, TypeOK, Telling, Event, Invalidates
  <2> QED
    BY <2>1, <1>1, <1>8, <1>11 DEF Tagged
<1>21. Leakless'
  <2> SUFFICES ASSUME NEW d \in Caches, NEW w \in Reserved(d)'
               PROVE  \E f \in Updates(d)' : f.line = w
    BY DEF Leakless
  <2>1. w \in Reserved(d) /\ (d = c => w # e.line)
    BY <1>8, <1>11 DEF Reserved
  <2>2. PICK f \in Updates(d) : f.line = w
    BY <2>1 DEF IInv, Leakless
  <2> QED
    BY <2>1, <2>2, <1>13
<1> QED
  BY <1>15, <1>17, <1>18, <1>19, <1>20, <1>21 DEF IInv

-----------------------------------------------------------------------------
\* The invariant is inductive.

LEMMA InitInv == Init => IInv
<1> SUFFICES ASSUME Init PROVE IInv
  OBVIOUS
<1> USE CacheTimingAssumption DEF Init
<1>1. TypeOK
  BY DEF TypeOK, Bus!States
<1>2. Due /\ Single /\ Home
  BY DEF Due, Single, Home, Updates
<1>3. OneLine /\ Tagged /\ Leakless
  BY DEF OneLine, Tagged, Leakless, Found, Reserved, Updates, Invalidates
<1> QED
  BY <1>1, <1>2, <1>3 DEF IInv

LEMMA StepInv == ASSUME IInv, [Next]_vars PROVE IInv'
<1>1. ASSUME NEW c \in Caches, NEW t \in Tags, ReadMiss(c, t) PROVE IInv'
  <2>1. Bus!Demote(protocol) \in Answers
        /\ Bus!ReadState(Copies(t), c) \in Bus!States
    BY AnswerTypes, NewStates
  <2>2. stale' \subseteq Tags
    BY <1>1 DEF ReadMiss, IInv, TypeOK
  <2> QED
    BY <1>1, <2>1, <2>2, MissInv DEF ReadMiss
<1>2. ASSUME NEW c \in Caches, NEW t \in Tags, WriteMiss(c, t) PROVE IInv'
  <2>1. Bus!ReadXSnoop("I") \in Answers
        /\ Bus!ReadXState(Copies(t), c) \in Bus!States
    BY AnswerTypes, NewStates
  <2>2. stale' \subseteq Tags
    BY <1>2 DEF WriteMiss, IInv, TypeOK
  <2> QED
    BY <1>2, <2>1, <2>2, MissInv DEF WriteMiss
<1>3. CASE UNCHANGED vars
  BY <1>3 DEF vars, IInv, TypeOK, Due, Single, Home, OneLine, Tagged, Leakless,
              Updates, Invalidates, Found, Reserved
<1> QED
  BY <1>1, <1>2, <1>3, TickInv, ReadHitInv, WriteHitInv, WriteHalfMissInv,
     PerformUpdateInv, PerformInvalidateInv DEF Next, Perform

THEOREM Invariance == Spec => []IInv
BY InitInv, StepInv, PTL DEF Spec

\* reserve and perform_update (cache_impl.h, storage_many.h): for any caches,
\* ways, latencies and protocols each reserved line has its update on its way,
\* also after the races that the model's bound stops at.
THEOREM NoWayIsLost == Spec => []NoneLeaked
<1>1. IInv => NoneLeaked
  BY DEF IInv, Leakless, NoneLeaked
<1> QED
  BY <1>1, Invariance, PTL

\* A tag is fetched once and is in the set once, and where it will be put is
\* the line that has it, if one has.
THEOREM FetchedWhereItIs == Spec => [](Single /\ Home /\ OneLine)
BY Invariance, PTL DEF IInv

-----------------------------------------------------------------------------
\* What concerns one tag

Fetches(c, t) == {e \in Updates(c) : e.tag = t}
Snoops(c, t)  == {f \in Invalidates(c) : f.tag = t}

\* the updates that will replace the line of t
Evictions(c, t) == {e \in Updates(c) : e.line \in Found(c, t)}

OnItsWay(c, t) == Fetches(c, t) \union Snoops(c, t)

LEMMA StateOf ==
  ASSUME NEW W, NEW ln, NEW t,
         \A w, x \in W : ln[w].tag = t /\ ln[x].tag = t => w = x
  PROVE  LET held == {ln[w].st : w \in {x \in W : ln[x].tag = t}} \ {"I"}
             s == IF held = {} THEN "I" ELSE CHOOSE st \in held : TRUE
         IN /\ \A w \in W : ln[w].tag = t => s = ln[w].st
            /\ (\A w \in W : ln[w].tag # t) => s = "I"
<1> DEFINE held == {ln[w].st : w \in {x \in W : ln[x].tag = t}} \ {"I"}
           s == IF held = {} THEN "I" ELSE CHOOSE st \in held : TRUE
<1>1. ASSUME NEW w \in W, ln[w].tag = t PROVE s = ln[w].st
  <2>1. held = {ln[w].st} \ {"I"}
    BY <1>1
  <2>2. CASE ln[w].st = "I"
    BY <2>1, <2>2
  <2>3. CASE ln[w].st # "I"
    <3>1. held = {ln[w].st}
      BY <2>1, <2>3
    <3> HIDE DEF held
    <3> QED
      BY <3>1
  <2> QED
    BY <2>2, <2>3
<1>2. ASSUME \A w \in W : ln[w].tag # t PROVE s = "I"
  BY <1>2
<1> QED
  BY <1>1, <1>2

\* With one line to a tag, the state of a tag is that of its line.
LEMMA CopyOf ==
  ASSUME OneLine, NEW t \in Tags, NEW c \in Caches
  PROVE  /\ \A w \in Found(c, t) : Copies(t)[c] = line[c][w].st
         /\ Found(c, t) = {} => Copies(t)[c] = "I"
<1>1. \A w, x \in Ways[c] : line[c][w].tag = t /\ line[c][x].tag = t => w = x
  BY DEF OneLine, Found
<1> QED
  BY <1>1, StateOf DEF Copies, Found

LEMMA CopyNext ==
  ASSUME OneLine', NEW t \in Tags, NEW c \in Caches
  PROVE  /\ \A w \in Found(c, t)' : Copies(t)'[c] = line'[c][w].st
         /\ Found(c, t)' = {} => Copies(t)'[c] = "I"
<1>1. \A w, x \in Ways[c] : line'[c][w].tag = t /\ line'[c][x].tag = t => w = x
  BY DEF OneLine, Found
<1> QED
  BY <1>1, StateOf DEF Copies, Found

LEMMA SameLines ==
  ASSUME OneLine, OneLine', NEW t \in Tags, NEW c \in Caches,
         \A w \in Ways[c] :
           /\ line'[c][w].tag = t <=> line[c][w].tag = t
           /\ line[c][w].tag = t => line'[c][w].st = line[c][w].st
  PROVE  Found(c, t)' = Found(c, t) /\ Copies(t)'[c] = Copies(t)[c]
<1>1. Found(c, t)' = Found(c, t)
  BY DEF Found
<1> QED
  BY <1>1, CopyOf, CopyNext DEF Found

\* An invalidation that a call leaves is for the line that holds its tag.
LEMMA ToldIs ==
  ASSUME NEW c, NEW t, NEW cp, NEW to, NEW time, NEW d \in Caches
  PROVE  /\ \A f \in Told(c, t, cp, to, time)[d] :
              /\ f.when = time /\ f.type = "INVALIDATE" /\ f.tag = t
              /\ f.st = to[cp[d]] /\ f.line \in Found(d, t)
              /\ d \in Bus!Snooped(cp, c, to)
         /\ d \in Bus!Snooped(cp, c, to) /\ Found(d, t) # {}
              => Told(c, t, cp, to, time)[d] # {}
<1>1. Told(c, t, cp, to, time)[d] =
        IF d \in Bus!Snooped(cp, c, to)
        THEN {Future(time, "INVALIDATE", t, to[cp[d]], w) : w \in Found(d, t)}
        ELSE {}
  BY DEF Told
<1>2. ASSUME NEW f \in Told(c, t, cp, to, time)[d]
      PROVE  /\ f.when = time /\ f.type = "INVALIDATE" /\ f.tag = t
             /\ f.st = to[cp[d]] /\ f.line \in Found(d, t)
             /\ d \in Bus!Snooped(cp, c, to)
  <2>1. PICK w \in Found(d, t) : f = Future(time, "INVALIDATE", t, to[cp[d]], w)
    BY <1>1, <1>2
  <2> QED
    BY <1>1, <1>2, <2>1 DEF Future
<1>3. d \in Bus!Snooped(cp, c, to) /\ Found(d, t) # {}
        => Told(c, t, cp, to, time)[d] # {}
  BY <1>1
<1> QED
  BY <1>2, <1>3

-----------------------------------------------------------------------------
\* What the steps do to what concerns a tag

Untouched(t) ==
  \A d \in Caches :
    /\ Found(d, t)' = Found(d, t) /\ Copies(t)'[d] = Copies(t)[d]
    /\ Fetches(d, t)' = Fetches(d, t) /\ Snoops(d, t)' = Snoops(d, t)

\* A call of c on t: nothing was on its way, or the tag has seen a race, and
\* the others are told what to become.
Called(c, t, to) ==
  /\ Performed(c, clock[c]) /\ Answering(c, clock[c])
  /\ t \notin raced' => \A d \in Caches : OnItsWay(d, t) = {}
  /\ \A d \in Caches :
       /\ Found(d, t)' = Found(d, t)
       /\ Snoops(d, t)' =
            Snoops(d, t) \union Told(c, t, Copies(t), to, clock[c])[d]
       /\ d # c => Fetches(d, t)' = Fetches(d, t) /\ Copies(t)'[d] = Copies(t)[d]

\* the call of a miss: its update comes later, with the new state
Missed(c, t, to, st, new) ==
  /\ Called(c, t, to)
  /\ Copies(t)[c] = "I" /\ Copies(t)'[c] = "I"
  /\ Fetches(c, t)' = Fetches(c, t) \union {new}
  /\ new.st = st /\ new.tag = t
  /\ \E lat \in Lats : new.when = clock[c] + lat
  /\ \A x \in Tags, d \in Caches :
       Evictions(d, x)' \subseteq
         Evictions(d, x) \union (IF d = c THEN {new} ELSE {})

LEMMA MissEffect ==
  ASSUME IInv, IInv', NEW c \in Caches, NEW t \in Tags, NEW to \in Answers,
         NEW st \in Bus!States, Miss(c, t, to, st)
  PROVE  /\ \E new : Missed(c, t, to, st, new)
         /\ \A x \in Tags \ {t} : Untouched(x)
         /\ UNCHANGED <<protocol, clock>> /\ raced \subseteq raced'
<1>1. TypeOK /\ OneLine /\ OneLine' /\ clock[c] \in Nat
  BY DEF IInv, TypeOK
<1>2. PICK lat \in Lats, w \in Victims(c, t) :
        /\ Call(c, t, Copies(t), to, clock[c],
                {Future(clock[c] + lat, "UPDATE", t, st, w)})
        /\ line' = [line EXCEPT ![c][w].res = TRUE]
  BY DEF Miss
<1> DEFINE new == Future(clock[c] + lat, "UPDATE", t, st, w)
           told == Told(c, t, Copies(t), to, clock[c])
<1>3. w \in Ways[c] /\ Found(c, t) \subseteq {w}
  BY <1>1, VictimLine
<1>4. /\ new.when = clock[c] + lat /\ new.tag = t /\ new.st = st
      /\ new.line = w /\ new.type = "UPDATE"
  BY DEF Future
<1>5. \A d \in Caches : \A f \in told[d] : f.type = "INVALIDATE" /\ f.tag = t
  BY ToldIs
<1>6. /\ Answering(c, clock[c]) /\ Performed(c, clock[c])
      /\ events' = [d \in Caches |->
           events[d] \union told[d] \union (IF d = c THEN {new} ELSE {})]
      /\ raced' = IF InFlight(t) THEN raced \union {t} ELSE raced
      /\ Copies(t)[c] = "I"
  BY <1>2 DEF Call, Miss
<1> HIDE DEF told, new
<1>7. \A d \in Caches :
        /\ Updates(d)' = Updates(d) \union (IF d = c THEN {new} ELSE {})
        /\ Invalidates(d)' = Invalidates(d) \union told[d]
  BY <1>4, <1>5, <1>6 DEF Updates, Invalidates
<1>8. \A x \in Tags, d \in Caches : Found(d, x)' = Found(d, x) /\ Copies(x)'[d] = Copies(x)[d]
  <2>1. DOMAIN line = Caches
        /\ \A d \in Caches : line[d] \in
             [Ways[d] -> [tag : Tags \union {NoTag}, st : Bus!States, res : BOOLEAN]]
    BY <1>1 DEF TypeOK
  <2>2. \A d \in Caches : \A v \in Ways[d] :
          line'[d][v].tag = line[d][v].tag /\ line'[d][v].st = line[d][v].st
    <3>1. line' = [line EXCEPT ![c] = [line[c] EXCEPT ![w] = [line[c][w] EXCEPT !.res = TRUE]]]
      BY <1>2, <1>3, <2>1
    <3> DEFINE put == [line[c][w] EXCEPT !.res = TRUE]
    <3>2. put.tag = line[c][w].tag /\ put.st = line[c][w].st
      BY <1>3, <2>1
    <3> HIDE DEF put
    <3>3. \A d \in Caches \ {c} : line'[d] = line[d]
      BY <2>1, <3>1
    <3>4. line'[c] = [line[c] EXCEPT ![w] = put]
      BY <2>1, <3>1 DEF put
    <3> QED
      BY <1>3, <2>1, <3>2, <3>3, <3>4
  <2> QED
    BY <1>1, <2>2, SameLines
<1>14. \A x \in Tags \ {t}, d \in Caches :
        Fetches(d, x)' = Fetches(d, x) /\ Snoops(d, x)' = Snoops(d, x)
  BY <1>4, <1>5, <1>7 DEF Fetches, Snoops
<1>9. \A d \in Caches :
        /\ d # c => Fetches(d, t)' = Fetches(d, t)
        /\ Snoops(d, t)' = Snoops(d, t) \union told[d]
  BY <1>4, <1>5, <1>7 DEF Fetches, Snoops
<1>15. Fetches(c, t)' = Fetches(c, t) \union {new}
  BY <1>4, <1>7 DEF Fetches
<1>16. \A x \in Tags, d \in Caches :
        Evictions(d, x)' \subseteq Evictions(d, x) \union (IF d = c THEN {new} ELSE {})
  BY <1>7, <1>8 DEF Evictions
<1>10. t \notin raced' => \A d \in Caches : OnItsWay(d, t) = {}
  BY <1>6 DEF InFlight, OnItsWay, Fetches, Snoops, Updates, Invalidates
<1>11. Called(c, t, to)
  <2>1. \A d \in Caches :
          /\ Found(d, t)' = Found(d, t)
          /\ Snoops(d, t)' = Snoops(d, t) \union told[d]
          /\ d # c => Fetches(d, t)' = Fetches(d, t) /\ Copies(t)'[d] = Copies(t)[d]
    BY <1>8, <1>9
  <2> QED
    BY <1>6, <1>10, <2>1 DEF Called, told
<1>12. Missed(c, t, to, st, new)
  <2>1. Copies(t)'[c] = "I" /\ Fetches(c, t)' = Fetches(c, t) \union {new}
    BY <1>6, <1>8, <1>15
  <2> QED
    BY <1>4, <1>6, <1>11, <1>16, <2>1 DEF Missed
<1>13. \A x \in Tags \ {t} : Untouched(x)
  BY <1>8, <1>14 DEF Untouched
<1> QED
  BY <1>6, <1>12, <1>13 DEF Miss

\* A hit gives its line a state and changes no other line.
LEMMA TouchEffect ==
  ASSUME TypeOK, OneLine, OneLine', NEW c \in Caches, NEW t \in Tags,
         NEW w \in Found(c, t), NEW st, Touch(c, w, st)
  PROVE  /\ \A x \in Tags, d \in Caches :
              /\ Found(d, x)' = Found(d, x)
              /\ d # c \/ x # t => Copies(x)'[d] = Copies(x)[d]
         /\ Copies(t)[c] = line[c][w].st /\ Copies(t)'[c] = st
<1>1. DOMAIN line = Caches /\ w \in Ways[c] /\ line[c][w].tag = t
      /\ \A d \in Caches : line[d] \in
           [Ways[d] -> [tag : Tags \union {NoTag}, st : Bus!States, res : BOOLEAN]]
  BY DEF TypeOK, Found
<1> DEFINE new == [line[c][w] EXCEPT !.st = st, !.res = FALSE]
<1>2. new.tag = t /\ new.st = st
  BY <1>1
<1>3. line' = [line EXCEPT ![c] = [line[c] EXCEPT ![w] = new]]
  BY <1>1 DEF Touch
<1> HIDE DEF new
<1>4. /\ \A d \in Caches \ {c} : line'[d] = line[d]
      /\ line'[c] = [line[c] EXCEPT ![w] = new]
  BY <1>1, <1>3
<1>5. \A d \in Caches : \A v \in Ways[d] :
        /\ line'[d][v].tag = line[d][v].tag
        /\ line[d][v].tag # t \/ d # c => line'[d][v].st = line[d][v].st
  <2> SUFFICES ASSUME NEW d \in Caches, NEW v \in Ways[d]
               PROVE  /\ line'[d][v].tag = line[d][v].tag
                      /\ line[d][v].tag # t \/ d # c => line'[d][v].st = line[d][v].st
    OBVIOUS
  <2>1. CASE d # c
    BY <1>4, <2>1
  <2>2. CASE d = c /\ v = w
    BY <1>1, <1>2, <1>4, <2>2
  <2>3. CASE d = c /\ v # w
    BY <1>1, <1>4, <2>3
  <2> QED
    BY <2>1, <2>2, <2>3
<1>6. \A x \in Tags, d \in Caches :
        /\ Found(d, x)' = Found(d, x)
        /\ d # c \/ x # t => Copies(x)'[d] = Copies(x)[d]
  <2> SUFFICES ASSUME NEW x \in Tags, NEW d \in Caches
               PROVE  /\ Found(d, x)' = Found(d, x)
                      /\ d # c \/ x # t => Copies(x)'[d] = Copies(x)[d]
    OBVIOUS
  <2>1. Found(d, x)' = Found(d, x)
    BY <1>5 DEF Found
  <2>2. ASSUME d # c \/ x # t PROVE Copies(x)'[d] = Copies(x)[d]
    BY <1>5, <2>2, SameLines
  <2> QED
    BY <2>1, <2>2
<1>7. w \in Found(c, t)' /\ line'[c][w].st = st
  BY <1>1, <1>2, <1>4, <1>6
<1> QED
  BY <1>6, <1>7, CopyOf, CopyNext

LEMMA WriteHitEffect ==
  ASSUME IInv, IInv', NEW c \in Caches, NEW t \in Tags, WriteHit(c, t)
  PROVE  /\ \/ /\ Bus!IsExclusive(Copies(t)[c]) /\ Copies(t)'[c] = "M"
               /\ \A d \in Caches :
                    /\ d # c => Copies(t)'[d] = Copies(t)[d]
                    /\ Found(d, t)' = Found(d, t)
                    /\ Fetches(d, t)' = Fetches(d, t) /\ Snoops(d, t)' = Snoops(d, t)
            \/ /\ Copies(t)[c] # "I" /\ ~Bus!IsExclusive(Copies(t)[c])
               /\ Called(c, t, Bus!ReadXSnoop(Copies(t)[c]))
               /\ Copies(t)'[c] = Bus!ReadXState(Copies(t), c)
               /\ Fetches(c, t)' = Fetches(c, t)
         /\ \A d \in Caches, x \in Tags : Evictions(d, x)' = Evictions(d, x)
         /\ \A x \in Tags \ {t} : Untouched(x)
         /\ UNCHANGED <<protocol, clock>> /\ raced \subseteq raced'
         /\ stale' = stale \union {t}
<1>1. TypeOK /\ OneLine /\ OneLine' /\ Performed(c, clock[c])
      /\ UNCHANGED <<protocol, clock>> /\ stale' = stale \union {t}
  BY DEF IInv, WriteHit
<1>2. PICK w \in Found(c, t) :
       /\ line[c][w].st # "I"
       /\ IF Bus!IsExclusive(line[c][w].st)
          THEN Touch(c, w, "M") /\ UNCHANGED <<events, raced>>
          ELSE /\ Touch(c, w, Bus!ReadXState(Copies(t), c))
               /\ Call(c, t, Copies(t), Bus!ReadXSnoop(line[c][w].st), clock[c], {})
  BY DEF WriteHit
<1>3. PICK st : Touch(c, w, st)
  BY <1>2
<1>4. /\ \A x \in Tags, d \in Caches :
           /\ Found(d, x)' = Found(d, x)
           /\ d # c \/ x # t => Copies(x)'[d] = Copies(x)[d]
      /\ Copies(t)[c] = line[c][w].st
  BY <1>1, <1>3, TouchEffect
<1>5. CASE Bus!IsExclusive(line[c][w].st)
  <2>1. Touch(c, w, "M") /\ UNCHANGED <<events, raced>>
    BY <1>2, <1>5
  <2>2. Copies(t)'[c] = "M"
    BY <1>1, <2>1, TouchEffect
  <2>3. \A d \in Caches, x \in Tags :
          /\ Fetches(d, x)' = Fetches(d, x) /\ Snoops(d, x)' = Snoops(d, x)
          /\ Evictions(d, x)' = Evictions(d, x)
    BY <1>4, <2>1 DEF Fetches, Snoops, Evictions, Updates, Invalidates
  <2> QED
    BY <1>1, <1>4, <1>5, <2>1, <2>2, <2>3 DEF Untouched
<1>6. CASE ~Bus!IsExclusive(line[c][w].st)
  <2> DEFINE told == Told(c, t, Copies(t), Bus!ReadXSnoop(line[c][w].st), clock[c])
  <2>1. /\ Touch(c, w, Bus!ReadXState(Copies(t), c))
        /\ Call(c, t, Copies(t), Bus!ReadXSnoop(line[c][w].st), clock[c], {})
    BY <1>2, <1>6
  <2>2. Copies(t)'[c] = Bus!ReadXState(Copies(t), c)
    BY <1>1, <2>1, TouchEffect
  <2>3. /\ Answering(c, clock[c])
        /\ events' = [d \in Caches |-> events[d] \union told[d] \union
                        (IF d = c THEN {} ELSE {})]
        /\ raced' = IF InFlight(t) THEN raced \union {t} ELSE raced
    BY <2>1 DEF Call
  <2>4. \A d \in Caches : \A f \in told[d] : f.type = "INVALIDATE" /\ f.tag = t
    BY ToldIs
  <2>5. told = Told(c, t, Copies(t), Bus!ReadXSnoop(Copies(t)[c]), clock[c])
    BY <1>4
  <2> HIDE DEF told
  <2>6. \A d \in Caches :
          Updates(d)' = Updates(d) /\ Invalidates(d)' = Invalidates(d) \union told[d]
    BY <2>3, <2>4 DEF Updates, Invalidates
  <2>7. \A d \in Caches, x \in Tags :
          /\ Fetches(d, x)' = Fetches(d, x)
          /\ x # t => Snoops(d, x)' = Snoops(d, x)
          /\ x = t => Snoops(d, x)' = Snoops(d, x) \union told[d]
          /\ Evictions(d, x)' = Evictions(d, x)
    BY <1>4, <2>4, <2>6 DEF Fetches, Snoops, Evictions
  <2>8. t \notin raced' => \A d \in Caches : OnItsWay(d, t) = {}
    BY <2>3 DEF InFlight, OnItsWay, Fetches, Snoops, Updates, Invalidates
  <2>9. Called(c, t, Bus!ReadXSnoop(Copies(t)[c]))
    <3>1. \A d \in Caches :
            /\ Found(d, t)' = Found(d, t)
            /\ Snoops(d, t)' = Snoops(d, t) \union told[d]
            /\ d # c => Fetches(d, t)' = Fetches(d, t) /\ Copies(t)'[d] = Copies(t)[d]
      BY <1>4, <2>7
    <3> QED
      BY <1>1, <2>3, <2>5, <2>8, <3>1 DEF Called
  <2> QED
    BY <1>1, <1>2, <1>4, <1>6, <2>2, <2>3, <2>7, <2>9 DEF Untouched
<1> QED
  BY <1>5, <1>6

LEMMA WriteHalfMissEffect ==
  ASSUME IInv, IInv', NEW c \in Caches, NEW t \in Tags, WriteHalfMiss(c, t)
  PROVE  /\ \A d \in Caches, x \in Tags :
              /\ Found(d, x)' = Found(d, x) /\ Copies(x)'[d] = Copies(x)[d]
              /\ \A u \in Evictions(d, x)' : \E v \in Evictions(d, x) : u.when = v.when
         /\ \A x \in Tags \ {t} : Untouched(x)
         /\ t \notin raced' =>
              \E e \in Fetches(c, t) :
                /\ Bus!IsExclusive(e.st)
                /\ \E new : /\ Fetches(c, t)' = {new}
                            /\ new.st = "M" /\ new.when = e.when
                /\ \A d \in Caches : Snoops(d, t)' = Snoops(d, t)
                /\ \A d \in Caches \ {c} : Fetches(d, t)' = Fetches(d, t)
         /\ UNCHANGED <<protocol, clock>> /\ raced \subseteq raced'
         /\ stale' = stale \union {t}
<1> DEFINE cp(e) == [Copies(t) EXCEPT ![c] = e.st]
           told(e) == Told(c, t, cp(e), Bus!ReadXSnoop(e.st), e.when)
<1>1. TypeOK /\ Wheels(events) /\ DOMAIN events = Caches
      /\ UNCHANGED <<protocol, clock, line>> /\ stale' = stale \union {t}
  BY WheelsType DEF IInv, TypeOK, WriteHalfMiss
<1>2. PICK e \in Pending(c, t), st \in Bus!States :
        \/ /\ Bus!IsExclusive(e.st) /\ st = "M" /\ UNCHANGED raced
           /\ events' = [events EXCEPT ![c] = (@ \ {e}) \union {[e EXCEPT !.st = st]}]
        \/ /\ events' = [d \in Caches |->
                IF d = c THEN (events[c] \ {e}) \union {[e EXCEPT !.st = st]}
                ELSE events[d] \union told(e)[d]]
           /\ raced' = raced \union {t}
  <2>1. "M" \in Bus!States /\ \A x : Bus!ReadXState(x, c) \in Bus!States
    BY NewStates DEF Bus!States, Bus!Valid
  <2> QED
    BY <1>1, <2>1 DEF WriteHalfMiss
<1> DEFINE new == [e EXCEPT !.st = st]
<1>3. /\ e \in events[c] /\ e.tag = t /\ e.type = "UPDATE"
      /\ e \in Event(c, "UPDATE")
      /\ e \in Updates(c) /\ e \in Fetches(c, t)
  BY <1>1, WheelTypes DEF Pending, Updates, Fetches, Event
<1>4. /\ new.when = e.when /\ new.tag = t /\ new.line = e.line
      /\ new.type = "UPDATE" /\ new.st = st
  BY <1>3 DEF Event
<1>5. \A d \in Caches : \A f \in told(e)[d] : f.type = "INVALIDATE" /\ f.tag = t
  BY ToldIs
<1>6. /\ events'[c] = (events[c] \ {e}) \union {new}
      /\ \A d \in Caches \ {c} :
           \/ events'[d] = events[d]
           \/ events'[d] = events[d] \union told(e)[d] /\ t \in raced'
  BY <1>1, <1>2
<1>16. t \notin raced' => /\ Bus!IsExclusive(e.st) /\ st = "M"
                          /\ \A d \in Caches \ {c} : events'[d] = events[d]
  BY <1>1, <1>2
<1>17. raced \subseteq raced'
  BY <1>2
<1> HIDE DEF told, cp, new
<1>7. /\ Updates(c)' = (Updates(c) \ {e}) \union {new}
      /\ Invalidates(c)' = Invalidates(c)
      /\ \A d \in Caches \ {c} : Updates(d)' = Updates(d)
  BY <1>3, <1>4, <1>5, <1>6 DEF Updates, Invalidates
<1>8. \A d \in Caches, x \in Tags : Found(d, x)' = Found(d, x) /\ Copies(x)'[d] = Copies(x)[d]
  BY <1>1 DEF Found, Copies
<1>9. \A d \in Caches, x \in Tags :
        \A u \in Evictions(d, x)' : \E v \in Evictions(d, x) : u.when = v.when
  BY <1>3, <1>4, <1>7, <1>8 DEF Evictions
<1>10. \A x \in Tags \ {t} : Untouched(x)
  <2>1. \A x \in Tags \ {t}, d \in Caches : Fetches(d, x)' = Fetches(d, x)
    BY <1>3, <1>4, <1>7 DEF Fetches
  <2>2. \A x \in Tags \ {t}, d \in Caches : Snoops(d, x)' = Snoops(d, x)
    BY <1>5, <1>6, <1>7 DEF Snoops, Invalidates
  <2> QED
    BY <1>8, <2>1, <2>2 DEF Untouched
<1>11. Fetches(c, t) = {e}
  BY <1>3 DEF Fetches, IInv, Single
<1>12. Fetches(c, t)' = {new}
  BY <1>4, <1>7, <1>11 DEF Fetches
<1>13. ASSUME t \notin raced'
       PROVE  /\ Bus!IsExclusive(e.st)
              /\ \A d \in Caches : Snoops(d, t)' = Snoops(d, t)
              /\ \A d \in Caches \ {c} : Fetches(d, t)' = Fetches(d, t)
              /\ new.st = "M"
  <2>1. \A d \in Caches \ {c} : events'[d] = events[d]
    BY <1>13, <1>16
  <2>2. \A d \in Caches : Snoops(d, t)' = Snoops(d, t)
    BY <1>7, <2>1 DEF Snoops, Invalidates
  <2> QED
    BY <1>4, <1>13, <1>16, <1>7, <2>2 DEF Fetches
<1> QED
  BY <1>1, <1>3, <1>4, <1>8, <1>9, <1>10, <1>12, <1>13, <1>17

\* The tag of an update that is performed: it is in its line now.
Arrived(c, e) ==
  /\ Fetches(c, e.tag)' = {} /\ Found(c, e.tag)' = {e.line}
  /\ Copies(e.tag)'[c] = e.st
  /\ \A d \in Caches : Snoops(d, e.tag)' = Snoops(d, e.tag)
  /\ \A d \in Caches \ {c} :
       /\ Copies(e.tag)'[d] = Copies(e.tag)[d] /\ Found(d, e.tag)' = Found(d, e.tag)
       /\ Fetches(d, e.tag)' = Fetches(d, e.tag)

\* The tag that it replaces: c has it no more, the others are told if c was to
\* write it back.
Replaced(c, e, t) ==
  /\ Copies(t)[c] = line[c][e.line].st /\ Found(c, t) = {e.line}
  /\ Copies(t)'[c] = "I" /\ Found(c, t)' = {}
  /\ \A d \in Caches : Fetches(d, t)' = Fetches(d, t)
  /\ \A d \in Caches \ {c} : Found(d, t)' = Found(d, t) /\ Copies(t)'[d] = Copies(t)[d]
  /\ Snoops(c, t)' = Snoops(c, t)
  /\ IF Bus!IsDirty(Copies(t)[c])
     THEN /\ UpToDate(c, t, e.when)
          /\ \A d \in Caches \ {c} : Snoops(d, t)' =
               Snoops(d, t) \union Told(c, t, Copies(t), Bus!Kill, e.when)[d]
          /\ stale' = stale \ {t}
          /\ t \notin raced' => ~Ahead(e.when)
     ELSE \A d \in Caches : Snoops(d, t)' = Snoops(d, t)

LEMMA PerformUpdateEffect ==
  ASSUME IInv, IInv', NEW c \in Caches, NEW e \in events[c], PerformUpdate(c, e)
  PROVE  /\ e \in Updates(c) /\ e.tag \in Tags /\ e \in Fetches(c, e.tag)
         /\ \A u \in events[c] : e.when <= u.when
         /\ \A x \in Tags \ {e.tag} :
              IF x = line[c][e.line].tag THEN Replaced(c, e, x) ELSE Untouched(x)
         /\ Copies(e.tag)[c] = "I" => Arrived(c, e)
         /\ \A x \in Tags, d \in Caches :
              /\ d # c => Evictions(d, x)' = Evictions(d, x)
              /\ x # e.tag => Evictions(c, x)' \subseteq Evictions(c, x)
              /\ Evictions(c, x)' \subseteq events[c]
         /\ UNCHANGED <<protocol, clock>> /\ raced \subseteq raced'
         /\ stale' \in {stale, stale \ {line[c][e.line].tag}}
         /\ \A x \in Tags : x \in stale' => x \in stale
<1> DEFINE old == line[c][e.line]
           told == Told(c, old.tag, Copies(old.tag), Bus!Kill, e.when)
           wb == Bus!IsDirty(old.st)
           at == IF Found(c, e.tag) # {} THEN Found(c, e.tag) ELSE {e.line}
           new == [tag |-> e.tag, st |-> e.st, res |-> FALSE]
<1>1. /\ TypeOK /\ Tagged /\ OneLine /\ OneLine'
      /\ e.line \in Ways[c] /\ e.tag \in Tags
      /\ e.type = "UPDATE" /\ e \in Updates(c) /\ e \in Fetches(c, e.tag)
  <2>1. e \in Event(c, "UPDATE")
    BY WheelTypes DEF IInv, PerformUpdate, Event
  <2> QED
    BY <2>1 DEF IInv, Event, Updates, Fetches
<1>2. at = {e.line} /\ Found(c, e.tag) \subseteq {e.line}
  BY <1>1 DEF IInv, Home
<1>3. /\ events' = [d \in Caches |-> IF d = c THEN events[c] \ {e}
                     ELSE IF wb THEN events[d] \union told[d] ELSE events[d]]
      /\ line' = [line EXCEPT ![c] = [w \in Ways[c] |->
            IF w \in at THEN new ELSE line[c][w]]]
      /\ \A u \in events[c] : e.when <= u.when
      /\ wb => UpToDate(c, old.tag, e.when)
      /\ stale' = IF wb THEN stale \ {old.tag} ELSE stale
      /\ raced' = IF wb /\ Ahead(e.when) THEN raced \union {old.tag} ELSE raced
      /\ UNCHANGED <<protocol, clock>>
  BY DEF PerformUpdate, After, NextEvent
<1>4. new.tag = e.tag /\ new.st = e.st
  OBVIOUS
<1>5. \A d \in Caches : \A f \in told[d] : f.type = "INVALIDATE" /\ f.tag = old.tag
  BY ToldIs
<1>6. DOMAIN line = Caches
  BY <1>1 DEF TypeOK
<1> HIDE DEF told, at, new
<1>7. /\ \A d \in Caches \ {c} : line'[d] = line[d]
      /\ line'[c][e.line] = new
      /\ \A w \in Ways[c] \ {e.line} : line'[c][w] = line[c][w]
  BY <1>1, <1>2, <1>3, <1>6
<1>8. /\ Updates(c)' = Updates(c) \ {e} /\ Invalidates(c)' = Invalidates(c)
      /\ \A d \in Caches \ {c} :
           /\ Updates(d)' = Updates(d)
           /\ wb => Invalidates(d)' = Invalidates(d) \union told[d]
           /\ ~wb => Invalidates(d)' = Invalidates(d)
  BY <1>1, <1>3, <1>5 DEF Updates, Invalidates
<1>9. \A x \in Tags, d \in Caches :
        d # c \/ (x # e.tag /\ x # old.tag) =>
          Found(d, x)' = Found(d, x) /\ Copies(x)'[d] = Copies(x)[d]
  <2> SUFFICES ASSUME NEW x \in Tags, NEW d \in Caches,
                      d # c \/ (x # e.tag /\ x # old.tag)
               PROVE  Found(d, x)' = Found(d, x) /\ Copies(x)'[d] = Copies(x)[d]
    OBVIOUS
  <2>1. \A w \in Ways[d] :
          /\ line'[d][w].tag = x <=> line[d][w].tag = x
          /\ line[d][w].tag = x => line'[d][w].st = line[d][w].st
    BY <1>1, <1>4, <1>7
  <2> QED
    BY <1>1, <2>1, SameLines
<1>10. Found(c, e.tag)' = {e.line} /\ Copies(e.tag)'[c] = e.st
  <2>1. Found(c, e.tag)' = {e.line}
    BY <1>1, <1>2, <1>4, <1>7 DEF Found
  <2> QED
    BY <1>1, <1>4, <1>7, <2>1, CopyNext
<1>11. \A d \in Caches, x \in Tags :
         /\ x # e.tag \/ d # c => Fetches(d, x)' = Fetches(d, x)
         /\ x # old.tag \/ d = c \/ ~wb => Snoops(d, x)' = Snoops(d, x)
  BY <1>1, <1>5, <1>8 DEF Fetches, Snoops
<1>12. Fetches(c, e.tag)' = {}
  BY <1>1, <1>8 DEF Fetches, IInv, Single
<1>13. \A x \in Tags, d \in Caches :
         /\ d # c => Evictions(d, x)' = Evictions(d, x)
         /\ x # e.tag => Evictions(c, x)' \subseteq Evictions(c, x)
         /\ Evictions(c, x)' \subseteq events[c]
  <2>1. \A x \in Tags : x # e.tag => Found(c, x)' \subseteq Found(c, x)
    BY <1>4, <1>7 DEF Found
  <2> QED
    BY <1>8, <1>9, <2>1 DEF Evictions, Updates
<1>14. \A x \in Tags \ {e.tag, old.tag} : Untouched(x)
  BY <1>9, <1>11 DEF Untouched
<1>15. ASSUME Copies(e.tag)[c] = "I" PROVE Arrived(c, e)
  <2>1. old.tag = e.tag => ~wb
    BY <1>1, <1>15, CopyOf DEF Found, Bus!IsDirty
  <2>2. \A d \in Caches : Snoops(d, e.tag)' = Snoops(d, e.tag)
    BY <1>1, <1>11, <2>1
  <2> QED
    BY <1>1, <1>9, <1>10, <1>11, <1>12, <2>2 DEF Arrived
<1>16. ASSUME NEW t \in Tags \ {e.tag}, t = old.tag PROVE Replaced(c, e, t)
  <2>1. Found(c, t) = {e.line} /\ Copies(t)[c] = old.st
    BY <1>1, <1>16, CopyOf DEF Found, OneLine
  <2>2. Found(c, t)' = {}
    <3>1. \A w \in Ways[c] : line'[c][w].tag # t
      BY <1>4, <1>7, <1>16, <2>1 DEF Found
    <3> QED
      BY <3>1 DEF Found
  <2>3. Copies(t)'[c] = "I"
    BY <1>1, <1>16, <2>2, CopyNext
  <2>4. wb => \A d \in Caches \ {c} : Snoops(d, t)' = Snoops(d, t) \union told[d]
    BY <1>5, <1>8, <1>16 DEF Snoops
  <2>5. \A d \in Caches : Fetches(d, t)' = Fetches(d, t)
    BY <1>11, <1>16
  <2>6. \A d \in Caches \ {c} : Found(d, t)' = Found(d, t) /\ Copies(t)'[d] = Copies(t)[d]
    BY <1>9, <1>16
  <2>7. Snoops(c, t)' = Snoops(c, t) /\ (~wb => \A d \in Caches : Snoops(d, t)' = Snoops(d, t))
    BY <1>11, <1>16
  <2>8. wb => /\ UpToDate(c, t, e.when) /\ stale' = stale \ {t}
              /\ t \notin raced' => ~Ahead(e.when)
    BY <1>3, <1>16
  <2> QED
    BY <1>16, <2>1, <2>2, <2>3, <2>4, <2>5, <2>6, <2>7, <2>8 DEF Replaced, told
<1> QED
  BY <1>1, <1>3, <1>13, <1>14, <1>15, <1>16

\* The tag of an invalidation that is performed on the line that has it.
Settles(c, f) ==
  /\ Copies(f.tag)'[c] = f.st
  /\ Snoops(c, f.tag)' = Snoops(c, f.tag) \ {f}
  /\ \A d \in Caches :
       Found(d, f.tag)' = Found(d, f.tag) /\ Fetches(d, f.tag)' = Fetches(d, f.tag)
  /\ \A d \in Caches \ {c} : Copies(f.tag)'[d] = Copies(f.tag)[d]
  /\ IF Bus!IsDirty(Copies(f.tag)[c]) /\ f.st = "S"
     THEN /\ UpToDate(c, f.tag, f.when)
          /\ \A d \in Caches \ {c} : Snoops(d, f.tag)' =
               Snoops(d, f.tag) \union Told(c, f.tag, Copies(f.tag), Bus!Kill, f.when)[d]
          /\ stale' = stale \ {f.tag}
          /\ f.tag \notin raced' => ~Ahead(f.when)
     ELSE \A d \in Caches \ {c} : Snoops(d, f.tag)' = Snoops(d, f.tag)

\* The tag of one that is performed on a line that has another by now.
Misses(c, f) ==
  /\ Snoops(c, f.tag)' = Snoops(c, f.tag) \ {f}
  /\ \A d \in Caches \ {c} : Snoops(d, f.tag)' = Snoops(d, f.tag)
  /\ \A d \in Caches :
       /\ Found(d, f.tag)' = Found(d, f.tag) /\ Fetches(d, f.tag)' = Fetches(d, f.tag)
       /\ Copies(f.tag)'[d] = Copies(f.tag)[d]

LEMMA PerformInvalidateEffect ==
  ASSUME IInv, IInv', NEW c \in Caches, NEW f \in events[c], PerformInvalidate(c, f)
  PROVE  /\ f \in Invalidates(c) /\ f.tag \in Tags /\ f \in Snoops(c, f.tag)
         /\ f.line \in Ways[c]
         /\ \A u \in events[c] : f.when <= u.when
         /\ IF line[c][f.line].tag = f.tag THEN Settles(c, f)
            ELSE Misses(c, f) /\ line[c][f.line].tag \in raced'
         /\ \A x \in Tags \ {f.tag} : Untouched(x) \/ x = line[c][f.line].tag
         /\ \A x \in Tags, d \in Caches : Evictions(d, x)' = Evictions(d, x)
         /\ UNCHANGED <<protocol, clock>> /\ raced \subseteq raced'
         /\ \A x \in Tags : x \in stale' => x \in stale
<1> DEFINE old == line[c][f.line]
           told == Told(c, old.tag, Copies(old.tag), Bus!Kill, f.when)
           wb == Bus!IsDirty(old.st) /\ f.st = "S"
           new == [old EXCEPT !.st = f.st, !.res = IF f.st = "I" THEN FALSE ELSE @]
<1>1. /\ TypeOK /\ Tagged /\ OneLine /\ OneLine'
      /\ f.line \in Ways[c] /\ f.tag \in Tags
      /\ f.type = "INVALIDATE" /\ f \in Invalidates(c) /\ f \in Snoops(c, f.tag)
  <2>1. f \in Event(c, "INVALIDATE")
    BY WheelTypes DEF IInv, PerformInvalidate, Event
  <2> QED
    BY <2>1 DEF IInv, Event, Invalidates, Snoops
<1>2. old.tag \in Tags
  BY <1>1 DEF Tagged
<1>3. /\ events' = [d \in Caches |-> IF d = c THEN events[c] \ {f}
                     ELSE IF wb THEN events[d] \union told[d] ELSE events[d]]
      /\ \A u \in events[c] : f.when <= u.when
      /\ wb => UpToDate(c, old.tag, f.when)
      /\ stale' = IF wb THEN stale \ {old.tag} ELSE stale
      /\ raced' = IF old.tag \in {f.tag, NoTag} /\ ~(wb /\ Ahead(f.when)) THEN raced
                  ELSE raced \union {old.tag}
      /\ UNCHANGED <<protocol, clock>>
  BY DEF PerformInvalidate, After, NextEvent
<1>4. DOMAIN line = Caches /\ \A d \in Caches : line[d] \in
        [Ways[d] -> [tag : Tags \union {NoTag}, st : Bus!States, res : BOOLEAN]]
  BY <1>1 DEF TypeOK
<1>5. new.tag = old.tag /\ new.st = f.st
  BY <1>1, <1>4
<1>6. line' = [line EXCEPT ![c] = [line[c] EXCEPT ![f.line] = new]]
  BY <1>1, <1>4 DEF PerformInvalidate
<1> HIDE DEF new
<1>7. \A d \in Caches : \A w \in Ways[d] :
        /\ line'[d][w].tag = line[d][w].tag
        /\ line[d][w].tag # old.tag \/ d # c => line'[d][w].st = line[d][w].st
  <2> SUFFICES ASSUME NEW d \in Caches, NEW w \in Ways[d]
               PROVE  /\ line'[d][w].tag = line[d][w].tag
                      /\ line[d][w].tag # old.tag \/ d # c
                           => line'[d][w].st = line[d][w].st
    OBVIOUS
  <2>1. CASE d # c
    BY <1>4, <1>6, <2>1
  <2>2. CASE d = c /\ w = f.line
    BY <1>1, <1>4, <1>5, <1>6, <2>2
  <2>3. CASE d = c /\ w # f.line
    BY <1>1, <1>4, <1>6, <2>3
  <2> QED
    BY <2>1, <2>2, <2>3
<1>8. \A x \in Tags, d \in Caches :
        /\ Found(d, x)' = Found(d, x)
        /\ x # old.tag \/ d # c => Copies(x)'[d] = Copies(x)[d]
  <2> SUFFICES ASSUME NEW x \in Tags, NEW d \in Caches
               PROVE  /\ Found(d, x)' = Found(d, x)
                      /\ x # old.tag \/ d # c => Copies(x)'[d] = Copies(x)[d]
    OBVIOUS
  <2>1. Found(d, x)' = Found(d, x)
    BY <1>7 DEF Found
  <2>2. ASSUME x # old.tag \/ d # c PROVE Copies(x)'[d] = Copies(x)[d]
    BY <1>1, <1>7, <2>2, SameLines
  <2> QED
    BY <2>1, <2>2
<1>9. ASSUME NEW t \in Tags, t = old.tag
      PROVE  Copies(t)[c] = old.st /\ Copies(t)'[c] = f.st
  <2>1. f.line \in Found(c, t) /\ f.line \in Found(c, t)'
    BY <1>1, <1>8, <1>9 DEF Found
  <2>2. line'[c][f.line].st = f.st
    BY <1>1, <1>4, <1>5, <1>6
  <2> QED
    BY <1>1, <2>1, <2>2, CopyOf, CopyNext
<1>10. \A d \in Caches : \A g \in told[d] : g.type = "INVALIDATE" /\ g.tag = old.tag
  BY ToldIs
<1> HIDE DEF told
<1>11. /\ \A d \in Caches : Updates(d)' = Updates(d)
       /\ Invalidates(c)' = Invalidates(c) \ {f}
       /\ \A d \in Caches \ {c} :
            /\ wb => Invalidates(d)' = Invalidates(d) \union told[d]
            /\ ~wb => Invalidates(d)' = Invalidates(d)
  BY <1>1, <1>3, <1>10 DEF Updates, Invalidates
<1>12. \A d \in Caches, x \in Tags :
         /\ Fetches(d, x)' = Fetches(d, x)
         /\ Evictions(d, x)' = Evictions(d, x)
  BY <1>8, <1>11 DEF Fetches, Evictions
<1>13. \A d \in Caches, x \in Tags :
         /\ d # c /\ (x # old.tag \/ ~wb) => Snoops(d, x)' = Snoops(d, x)
         /\ d # c /\ x = old.tag /\ wb => Snoops(d, x)' = Snoops(d, x) \union told[d]
         /\ x # f.tag => Snoops(c, x)' = Snoops(c, x)
  BY <1>1, <1>10, <1>11 DEF Snoops
<1>14. Snoops(c, f.tag)' = Snoops(c, f.tag) \ {f}
  BY <1>1, <1>11 DEF Snoops
<1>15. ASSUME old.tag = f.tag PROVE Settles(c, f)
  <2>1. ~wb => \A d \in Caches \ {c} : Snoops(d, f.tag)' = Snoops(d, f.tag)
    BY <1>1, <1>13
  <2>2. wb => /\ UpToDate(c, f.tag, f.when) /\ stale' = stale \ {f.tag}
              /\ f.tag \notin raced' => ~Ahead(f.when)
    BY <1>3, <1>15
  <2>3. wb => \A d \in Caches \ {c} : Snoops(d, f.tag)' = Snoops(d, f.tag) \union told[d]
    BY <1>1, <1>13, <1>15
  <2>4. \A d \in Caches \ {c} : Copies(f.tag)'[d] = Copies(f.tag)[d]
    BY <1>1, <1>8
  <2>5. \A d \in Caches :
          Found(d, f.tag)' = Found(d, f.tag) /\ Fetches(d, f.tag)' = Fetches(d, f.tag)
    BY <1>1, <1>8, <1>12
  <2> QED
    BY <1>1, <1>9, <1>14, <1>15, <2>1, <2>2, <2>3, <2>4, <2>5 DEF Settles, told
<1>16. ASSUME old.tag # f.tag PROVE Misses(c, f) /\ old.tag \in raced'
  <2>1. \A d \in Caches \ {c} : Snoops(d, f.tag)' = Snoops(d, f.tag)
    BY <1>1, <1>13, <1>16
  <2>2. \A d \in Caches :
          /\ Found(d, f.tag)' = Found(d, f.tag) /\ Fetches(d, f.tag)' = Fetches(d, f.tag)
          /\ Copies(f.tag)'[d] = Copies(f.tag)[d]
    BY <1>1, <1>8, <1>12, <1>16
  <2>3. old.tag \in raced'
    BY <1>2, <1>3, <1>16, CacheTimingAssumption
  <2> QED
    BY <1>14, <2>1, <2>2, <2>3 DEF Misses
<1>17. \A x \in Tags \ {f.tag} : Untouched(x) \/ x = old.tag
  BY <1>8, <1>12, <1>13 DEF Untouched
<1> QED
  BY <1>1, <1>3, <1>12, <1>15, <1>16, <1>17

-----------------------------------------------------------------------------
\* A line is fetched once

\* What is on its way to a cache is not in its set, nor is it told to change.
AloneAt(t) ==
  \A c \in Caches : \A e \in Fetches(c, t) :
    Copies(t)[c] = "I" /\ Snoops(c, t) = {}

Alone == \A t \in Tags \ raced : AloneAt(t)

LEMMA AloneUntouched ==
  ASSUME NEW t, AloneAt(t), Untouched(t) PROVE AloneAt(t)'
BY DEF AloneAt, Untouched

\* Only a cache with a copy is told anything, and never the one that asks.
LEMMA ToldOthers ==
  ASSUME NEW c \in Caches, NEW t \in Tags, NEW cp, NEW to, NEW time, NEW d \in Caches,
         Told(c, t, cp, to, time)[d] # {}
  PROVE  d # c /\ cp[d] # "I"
BY ToldIs DEF Bus!Snooped

LEMMA AloneMiss ==
  ASSUME IInv, IInv', Alone, NEW c \in Caches, NEW t \in Tags, NEW to \in Answers,
         NEW st \in Bus!States, Miss(c, t, to, st)
  PROVE  Alone'
<1> SUFFICES ASSUME NEW x \in Tags \ raced' PROVE AloneAt(x)'
  BY DEF Alone
<1>1. /\ \E new : Missed(c, t, to, st, new)
      /\ \A y \in Tags \ {t} : Untouched(y)
      /\ AloneAt(x)
  BY MissEffect DEF Alone
<1>2. CASE x = t
  <2>1. Called(c, t, to) /\ Copies(t)'[c] = "I"
    BY <1>1 DEF Missed
  <2>2. \A d \in Caches : Fetches(d, t) = {} /\ Snoops(d, t) = {}
    BY <1>2, <2>1 DEF Called, OnItsWay
  <2>3. Snoops(c, t)' = {}
    BY <2>1, <2>2, ToldOthers DEF Called
  <2>4. \A d \in Caches \ {c} : Fetches(d, t)' = {}
    BY <2>1, <2>2 DEF Called
  <2> QED
    BY <1>2, <2>1, <2>3, <2>4 DEF AloneAt
<1> QED
  BY <1>1, <1>2, AloneUntouched

LEMMA AloneWriteHit ==
  ASSUME IInv, IInv', Alone, NEW c \in Caches, NEW t \in Tags, WriteHit(c, t)
  PROVE  Alone'
<1> SUFFICES ASSUME NEW x \in Tags \ raced' PROVE AloneAt(x)'
  BY DEF Alone
<1>1. AloneAt(x) /\ \A y \in Tags \ {t} : Untouched(y)
  BY WriteHitEffect DEF Alone
<1>2. CASE x = t
  <2>1. CASE /\ Bus!IsExclusive(Copies(t)[c])
             /\ \A d \in Caches :
                  /\ d # c => Copies(t)'[d] = Copies(t)[d]
                  /\ Fetches(d, t)' = Fetches(d, t) /\ Snoops(d, t)' = Snoops(d, t)
    <3>1. Fetches(c, t) = {}
      BY <1>1, <1>2, <2>1 DEF AloneAt, Bus!IsExclusive
    <3> QED
      BY <1>1, <1>2, <2>1, <3>1 DEF AloneAt
  <2>2. CASE /\ Called(c, t, Bus!ReadXSnoop(Copies(t)[c]))
             /\ Fetches(c, t)' = Fetches(c, t)
    <3>1. \A d \in Caches : Fetches(d, t)' = {}
      BY <1>2, <2>2 DEF Called, OnItsWay
    <3> QED
      BY <1>2, <3>1 DEF AloneAt
  <2> QED
    BY <2>1, <2>2, WriteHitEffect
<1> QED
  BY <1>1, <1>2, AloneUntouched

LEMMA AloneWriteHalfMiss ==
  ASSUME IInv, IInv', Alone, NEW c \in Caches, NEW t \in Tags, WriteHalfMiss(c, t)
  PROVE  Alone'
<1> SUFFICES ASSUME NEW x \in Tags \ raced' PROVE AloneAt(x)'
  BY DEF Alone
<1>1. AloneAt(x) /\ \A y \in Tags \ {t} : Untouched(y)
  BY WriteHalfMissEffect DEF Alone
<1>2. CASE x = t
  <2>1. \E e \in Fetches(c, t) :
          /\ \A d \in Caches : Snoops(d, t)' = Snoops(d, t)
          /\ \A d \in Caches \ {c} : Fetches(d, t)' = Fetches(d, t)
    BY <1>2, WriteHalfMissEffect
  <2>2. \A d \in Caches : Copies(t)'[d] = Copies(t)[d]
    BY WriteHalfMissEffect
  <2>3. Copies(t)[c] = "I" /\ Snoops(c, t) = {}
    BY <1>1, <1>2, <2>1 DEF AloneAt
  <2> QED
    BY <1>1, <1>2, <2>1, <2>2, <2>3 DEF AloneAt
<1> QED
  BY <1>1, <1>2, AloneUntouched

LEMMA AlonePerformUpdate ==
  ASSUME IInv, IInv', Alone, NEW c \in Caches, NEW e \in events[c], PerformUpdate(c, e)
  PROVE  Alone'
<1> SUFFICES ASSUME NEW x \in Tags \ raced' PROVE AloneAt(x)'
  BY DEF Alone
<1>1. AloneAt(x) /\ e \in Fetches(c, e.tag)
  BY PerformUpdateEffect DEF Alone
<1>2. CASE x = e.tag
  <2>1. Arrived(c, e)
    BY <1>1, <1>2, PerformUpdateEffect DEF AloneAt
  <2> QED
    BY <1>1, <1>2, <2>1 DEF AloneAt, Arrived
<1>3. CASE x # e.tag /\ x = line[c][e.line].tag
  <2>1. Replaced(c, e, x)
    BY <1>3, PerformUpdateEffect
  <2> SUFFICES ASSUME NEW d \in Caches, NEW u \in Fetches(d, x)'
               PROVE  Copies(x)'[d] = "I" /\ Snoops(d, x)' = {}
    BY DEF AloneAt
  <2>2. Copies(x)[d] = "I" /\ Snoops(d, x) = {}
    BY <1>1, <2>1 DEF Replaced, AloneAt
  <2>3. Copies(x)'[d] = "I"
    BY <2>1, <2>2 DEF Replaced
  <2>4. Snoops(d, x)' = {}
    BY <2>1, <2>2, ToldOthers DEF Replaced
  <2> QED
    BY <2>3, <2>4
<1> QED
  BY <1>1, <1>2, <1>3, AloneUntouched, PerformUpdateEffect

LEMMA AlonePerformInvalidate ==
  ASSUME IInv, IInv', Alone, NEW c \in Caches, NEW f \in events[c],
         PerformInvalidate(c, f)
  PROVE  Alone'
<1> SUFFICES ASSUME NEW x \in Tags \ raced' PROVE AloneAt(x)'
  BY DEF Alone
<1>1. AloneAt(x) /\ f \in Snoops(c, f.tag)
  BY PerformInvalidateEffect DEF Alone
<1>2. CASE x = f.tag /\ line[c][f.line].tag = f.tag
  <2>1. Settles(c, f)
    BY <1>2, PerformInvalidateEffect
  <2> SUFFICES ASSUME NEW d \in Caches, NEW u \in Fetches(d, x)'
               PROVE  Copies(x)'[d] = "I" /\ Snoops(d, x)' = {}
    BY DEF AloneAt
  <2>2. Copies(x)[d] = "I" /\ Snoops(d, x) = {} /\ d # c
    BY <1>1, <1>2, <2>1 DEF Settles, AloneAt
  <2>3. Copies(x)'[d] = "I"
    BY <1>2, <2>1, <2>2 DEF Settles
  <2>4. Snoops(d, x)' = {}
    BY <1>2, <2>1, <2>2, ToldOthers DEF Settles
  <2> QED
    BY <2>3, <2>4
<1>3. CASE x = f.tag /\ line[c][f.line].tag # f.tag
  <2>1. Misses(c, f)
    BY <1>3, PerformInvalidateEffect
  <2> QED
    BY <1>1, <1>3, <2>1 DEF AloneAt, Misses
<1>4. x # f.tag => Untouched(x)
  BY PerformInvalidateEffect
<1> QED
  BY <1>1, <1>2, <1>3, <1>4, AloneUntouched

\* Time passes, or a hit reads.
LEMMA IdleEffect ==
  ASSUME IInv, IInv', NEW c \in Caches,
         \/ Tick(c) \/ (\E t \in Tags : ReadHit(c, t)) \/ UNCHANGED vars
  PROVE  /\ \A x \in Tags : Untouched(x)
         /\ \A x \in Tags, d \in Caches : Evictions(d, x)' = Evictions(d, x)
         /\ UNCHANGED <<protocol, raced, stale>>
         /\ \A d \in Caches : clock[d] <= clock'[d]
<1>1. TypeOK /\ OneLine /\ OneLine' /\ UNCHANGED <<protocol, raced, stale, events>>
  BY DEF IInv, Tick, ReadHit, vars
<1>2. \A d \in Caches : clock[d] \in Nat /\ clock[d] <= clock'[d]
  BY DEF IInv, TypeOK, Tick, ReadHit, vars
<1>3. \A x \in Tags, d \in Caches :
        Found(d, x)' = Found(d, x) /\ Copies(x)'[d] = Copies(x)[d]
  <2>1. CASE UNCHANGED line
    BY <2>1 DEF Found, Copies
  <2>2. ASSUME NEW t \in Tags, ReadHit(c, t)
        PROVE  \A x \in Tags, d \in Caches :
                 Found(d, x)' = Found(d, x) /\ Copies(x)'[d] = Copies(x)[d]
    <3>1. PICK w \in Found(c, t) : Touch(c, w, line[c][w].st)
      BY <2>2 DEF ReadHit
    <3> QED
      BY <1>1, <3>1, TouchEffect
  <2> QED
    BY <2>1, <2>2 DEF Tick, vars
<1> QED
  BY <1>1, <1>2, <1>3 DEF Untouched, Fetches, Snoops, Evictions, Updates, Invalidates

LEMMA AloneStep ==
  ASSUME IInv, Alone, [Next]_vars PROVE Alone'
<1>0. IInv'
  BY StepInv
<1>1. ASSUME NEW c \in Caches, NEW t \in Tags, ReadMiss(c, t) PROVE Alone'
  <2>1. Bus!Demote(protocol) \in Answers
        /\ Bus!ReadState(Copies(t), c) \in Bus!States
    BY AnswerTypes, NewStates
  <2> QED
    BY <1>0, <1>1, <2>1, AloneMiss DEF ReadMiss
<1>2. ASSUME NEW c \in Caches, NEW t \in Tags, WriteMiss(c, t) PROVE Alone'
  <2>1. Bus!ReadXSnoop("I") \in Answers
        /\ Bus!ReadXState(Copies(t), c) \in Bus!States
    BY AnswerTypes, NewStates
  <2> QED
    BY <1>0, <1>2, <2>1, AloneMiss DEF WriteMiss
<1>3. ASSUME NEW c \in Caches,
             \/ Tick(c) \/ (\E t \in Tags : ReadHit(c, t)) \/ UNCHANGED vars
      PROVE  Alone'
  BY <1>0, <1>3, IdleEffect, AloneUntouched DEF Alone
<1>4. CASE UNCHANGED vars
  BY <1>4 DEF vars, Alone, AloneAt, Fetches, Snoops, Updates, Invalidates, Copies, Found
<1> QED
  BY <1>0, <1>1, <1>2, <1>3, <1>4, AloneWriteHit, AloneWriteHalfMiss, AlonePerformUpdate,
     AlonePerformInvalidate DEF Next, Perform

LEMMA AloneAlways == Spec => []Alone
<1>1. Init => Alone
  BY DEF Init, Alone, AloneAt, Fetches, Updates
<1>2. IInv /\ Alone /\ [Next]_vars => Alone'
  BY AloneStep
<1> QED
  BY <1>1, <1>2, Invariance, PTL DEF Spec

\* has(tag, UPDATE) and the order of a miss's steps (cache_impl.h): for any
\* caches, latencies, protocols and skew of the clocks a line on its way is not
\* asked for again, and but for races it is not in the set yet.
THEOREM LinesFetchedOnce == Spec => []FetchedOnce
<1>1. IInv /\ Alone => FetchedOnce
  <2> SUFFICES ASSUME IInv, Alone, NEW c \in Caches, NEW e \in Updates(c)
               PROVE  /\ \A f \in Updates(c) : f.tag = e.tag => f = e
                      /\ e.tag \in raced \/ Copies(e.tag)[c] = "I"
    BY DEF FetchedOnce
  <2>1. e.tag \in Tags /\ e \in Fetches(c, e.tag)
    BY DEF IInv, TypeOK, Updates, Fetches
  <2> QED
    BY <2>1 DEF IInv, Single, Alone, AloneAt
<1> QED
  BY <1>1, Invariance, AloneAlways, PTL

-----------------------------------------------------------------------------
\* The order of what is on its way

Skewed == \A c, d \in Caches : clock[d] <= clock[c] + Skew

\* Before a line that holds the tag is replaced, and before the tag arrives in
\* another cache, every invalidation on its way for the tag is due.
LaterAt(t) ==
  \A c, d \in Caches :
    \A f \in Snoops(c, t), e \in Fetches(d, t) \union Evictions(d, t) :
      f.when <= e.when /\ (c = d => f.when < e.when)

\* The invalidations for the tag come from one call, which some clock has
\* passed, and each is for the line that has the tag.
OneCallAt(t) ==
  \A c, d \in Caches : \A f \in Snoops(c, t), g \in Snoops(d, t) :
    f.when = g.when /\ (c = d => f = g)

OrderAt(t) ==
  /\ \A c \in Caches : \A f \in Snoops(c, t) :
       f.line \in Found(c, t) /\ \E d \in Caches : f.when <= clock[d]
  /\ OneCallAt(t)
  /\ LaterAt(t)

Order == Skewed /\ \A t \in Tags \ raced : OrderAt(t)

LEMMA EventTypes ==
  ASSUME TypeOK, NEW c \in Caches, NEW t
  PROVE  /\ \A e \in events[c] : e.when \in Nat
         /\ Fetches(c, t) \subseteq events[c] /\ Snoops(c, t) \subseteq events[c]
         /\ Evictions(c, t) \subseteq events[c]
BY DEF TypeOK, Fetches, Snoops, Evictions, Updates, Invalidates

\* No invalidation is new, and no line is replaced earlier.
LEMMA OrderKept ==
  ASSUME TypeOK, NEW t, OrderAt(t),
         \A d \in Caches : Snoops(d, t)' \subseteq Snoops(d, t),
         \A d \in Caches : \A f \in Snoops(d, t)' : f.line \in Found(d, t)',
         \A d \in Caches : \A u \in Fetches(d, t)' \union Evictions(d, t)' :
           \/ \E v \in Fetches(d, t) \union Evictions(d, t) : u.when = v.when
           \/ \A x \in Caches : \A f \in Snoops(x, t)' :
                f.when <= u.when /\ (x = d => f.when < u.when),
         \A d \in Caches : clock[d] <= clock'[d] /\ clock'[d] \in Nat
  PROVE  OrderAt(t)'
<1>1. \A c \in Caches : \A f \in Snoops(c, t)' : \E d \in Caches : f.when <= clock'[d]
  <2> SUFFICES ASSUME NEW c \in Caches, NEW f \in Snoops(c, t)'
               PROVE  \E d \in Caches : f.when <= clock'[d]
    OBVIOUS
  <2>1. f \in Snoops(c, t) /\ f.when \in Nat
    BY EventTypes
  <2>2. PICK d \in Caches : f.when <= clock[d]
    BY <2>1 DEF OrderAt
  <2>3. clock[d] \in Nat
    BY DEF TypeOK
  <2> QED
    BY <2>1, <2>2, <2>3
<1>2. OneCallAt(t)'
  BY DEF OrderAt, OneCallAt
<1>3. LaterAt(t)'
  <2> SUFFICES ASSUME NEW c \in Caches, NEW d \in Caches, NEW f \in Snoops(c, t)',
                      NEW u \in Fetches(d, t)' \union Evictions(d, t)'
               PROVE  f.when <= u.when /\ (c = d => f.when < u.when)
    BY DEF LaterAt
  <2>1. CASE \E v \in Fetches(d, t) \union Evictions(d, t) : u.when = v.when
    BY <2>1 DEF OrderAt, LaterAt
  <2>2. CASE \A x \in Caches : \A g \in Snoops(x, t)' :
               g.when <= u.when /\ (x = d => g.when < u.when)
    BY <2>2
  <2> QED
    BY <2>1, <2>2
<1> QED
  BY <1>1, <1>2, <1>3 DEF OrderAt

\* All the invalidations are those that a call of c with this time has left.
LEMMA OrderTold ==
  ASSUME OneLine, NEW t \in Tags, NEW c \in Caches, NEW cp, NEW to, NEW time,
         Snoops(c, t)' = {},
         \A d \in Caches \ {c} :
           /\ Found(d, t)' = Found(d, t)
           /\ Snoops(d, t)' = Told(c, t, cp, to, time)[d]
           /\ \A u \in Fetches(d, t)' \union Evictions(d, t)' : u.when > time,
         \A u \in Fetches(c, t)' \union Evictions(c, t)' : u.when >= time,
         time \in Nat,
         \A d \in Caches : \A u \in Fetches(d, t)' \union Evictions(d, t)' : u.when \in Nat,
         \E d \in Caches : time <= clock'[d]
  PROVE  OrderAt(t)'
<1>1. \A d \in Caches : \A f \in Snoops(d, t)' :
        /\ f.line \in Found(d, t)' /\ f.when = time /\ d # c
        /\ f.line \in Found(d, t) /\ f = Future(time, "INVALIDATE", t, to[cp[d]], f.line)
  <2> SUFFICES ASSUME NEW d \in Caches \ {c}, NEW f \in Told(c, t, cp, to, time)[d]
               PROVE  /\ f.line \in Found(d, t)' /\ f.when = time
                      /\ f.line \in Found(d, t)
                      /\ f = Future(time, "INVALIDATE", t, to[cp[d]], f.line)
    OBVIOUS
  <2>1. \E w \in Found(d, t) : f = Future(time, "INVALIDATE", t, to[cp[d]], w)
    BY ToldIs DEF Told
  <2>2. f = Future(time, "INVALIDATE", t, to[cp[d]], f.line)
    BY <2>1 DEF Future
  <2> QED
    BY <2>2, ToldIs
<1>2. OneCallAt(t)'
  <2> SUFFICES ASSUME NEW d \in Caches, NEW x \in Caches,
                      NEW f \in Snoops(d, t)', NEW g \in Snoops(x, t)'
               PROVE  f.when = g.when /\ (d = x => f = g)
    BY DEF OneCallAt
  <2>1. f.when = time /\ g.when = time
    BY <1>1
  <2>2. d = x => f.line = g.line
    BY <1>1 DEF OneLine
  <2>3. d = x => f = g
    BY <1>1, <2>2
  <2> QED
    BY <2>1, <2>3
<1>3. LaterAt(t)'
  <2> SUFFICES ASSUME NEW x \in Caches, NEW d \in Caches, NEW f \in Snoops(x, t)',
                      NEW u \in Fetches(d, t)' \union Evictions(d, t)'
               PROVE  f.when <= u.when /\ (x = d => f.when < u.when)
    BY DEF LaterAt
  <2>1. f.when = time /\ x # c /\ u.when \in Nat
    BY <1>1
  <2> QED
    BY <2>1
<1> QED
  BY <1>1, <1>2, <1>3 DEF OrderAt

\* Nothing else is due for c, nor for the others by the time of its call.
LEMMA OrderCalled ==
  ASSUME IInv, IInv', NEW c \in Caches, NEW t \in Tags \ raced', NEW to,
         Called(c, t, to), UNCHANGED clock,
         \A d \in Caches : \A u \in Evictions(d, t)' :
           u \in events[d] \/ (d = c /\ u.when > clock[c]),
         \A u \in Fetches(c, t)' : u.when > clock[c]
  PROVE  OrderAt(t)'
<1>1. TypeOK /\ TypeOK' /\ OneLine /\ clock[c] \in Nat
  BY DEF IInv, TypeOK
<1>2. \A d \in Caches : Fetches(d, t) = {} /\ Snoops(d, t) = {}
  BY DEF Called, OnItsWay
<1>3. \A d \in Caches : Snoops(d, t)' = Told(c, t, Copies(t), to, clock[c])[d]
  BY <1>2 DEF Called
<1>4. Snoops(c, t)' = {}
  BY <1>3, ToldOthers
<1>5. \A d \in Caches : \A u \in Fetches(d, t)' \union Evictions(d, t)' :
        u.when > clock[c]
  <2>1. \A d \in Caches : \A u \in events[d] : u.when > clock[c]
    BY DEF Called, Answering, Performed
  <2>2. \A d \in Caches \ {c} : Fetches(d, t)' = {}
    BY <1>2 DEF Called
  <2> QED
    BY <2>1, <2>2
<1>6. \A d \in Caches : \A u \in Fetches(d, t)' \union Evictions(d, t)' :
        u.when \in Nat
  BY <1>1 DEF TypeOK, Fetches, Evictions, Updates
<1>7. \A d \in Caches \ {c} :
        /\ Found(d, t)' = Found(d, t)
        /\ \A u \in Fetches(d, t)' \union Evictions(d, t)' : u.when > clock[c]
  BY <1>5 DEF Called
<1>8. \A u \in Fetches(c, t)' \union Evictions(c, t)' : u.when >= clock[c]
  BY <1>1, <1>5, <1>6
<1>9. \E d \in Caches : clock[c] <= clock'[d]
  BY <1>1
<1> QED
  BY <1>1, <1>3, <1>4, <1>6, <1>7, <1>8, <1>9, OrderTold

\* Nothing is on its way for the others, and they are told that c writes back.
LEMMA OrderWrittenBack ==
  ASSUME IInv, IInv', NEW c \in Caches, NEW t \in Tags \ raced', NEW time \in Nat,
         UpToDate(c, t, time), ~Ahead(time), UNCHANGED clock,
         \A u \in events[c] : time <= u.when,
         \A d \in Caches : Snoops(d, t)' = IF d = c THEN {} ELSE
           Told(c, t, Copies(t), Bus!Kill, time)[d],
         \A d \in Caches \ {c} :
           /\ Found(d, t)' = Found(d, t) /\ Fetches(d, t)' = Fetches(d, t)
           /\ Evictions(d, t)' = Evictions(d, t),
         Fetches(c, t)' \subseteq events[c], Evictions(c, t)' \subseteq events[c]
  PROVE  OrderAt(t)'
<1>1. TypeOK /\ TypeOK' /\ OneLine
  BY DEF IInv
<1>2. \A d \in Caches \ {c} :
        \A u \in Fetches(d, t)' \union Evictions(d, t)' : u.when > time
  <2> SUFFICES ASSUME NEW d \in Caches \ {c},
                      NEW u \in Fetches(d, t) \union Evictions(d, t)
               PROVE  u.when > time
    OBVIOUS
  <2>1. u \in events[d] /\ (u.tag = t \/ u.line \in Found(d, t))
    BY DEF Fetches, Evictions, Updates
  <2> QED
    BY <2>1 DEF UpToDate
<1>3. \A d \in Caches : \A u \in Fetches(d, t)' \union Evictions(d, t)' : u.when \in Nat
  BY <1>1 DEF TypeOK, Fetches, Evictions, Updates
<1>4. \A u \in Fetches(c, t)' \union Evictions(c, t)' : u.when >= time
  <2>1. \A u \in Fetches(c, t)' \union Evictions(c, t)' : time <= u.when
    OBVIOUS
  <2> QED
    BY <1>3, <2>1
<1>5. \E d \in Caches : time <= clock'[d]
  <2>1. PICK d \in Caches : ~(clock[d] < time)
    BY DEF Ahead
  <2> QED
    BY <1>1, <2>1 DEF TypeOK
<1> QED
  BY <1>1, <1>2, <1>3, <1>4, <1>5, OrderTold

LEMMA OrderUntouched ==
  ASSUME IInv, IInv', NEW t, OrderAt(t), Untouched(t),
         \A d \in Caches : \A u \in Evictions(d, t)' :
           \/ \E v \in Evictions(d, t) : u.when = v.when
           \/ \A x \in Caches : \A f \in Snoops(x, t) : f.when < u.when,
         \A d \in Caches : clock[d] <= clock'[d] /\ clock'[d] \in Nat
  PROVE  OrderAt(t)'
<1>1. TypeOK
  BY DEF IInv
<1>2. \A d \in Caches : \A f \in Snoops(d, t)' : f.line \in Found(d, t)'
  BY DEF OrderAt, Untouched
<1>3. \A d \in Caches : Snoops(d, t)' = Snoops(d, t) /\ Fetches(d, t)' = Fetches(d, t)
  BY DEF Untouched
<1>4. \A d \in Caches : \A u \in Fetches(d, t)' \union Evictions(d, t)' :
        \/ \E v \in Fetches(d, t) \union Evictions(d, t) : u.when = v.when
        \/ \A x \in Caches : \A f \in Snoops(x, t)' :
             f.when <= u.when /\ (x = d => f.when < u.when)
  <2> SUFFICES ASSUME NEW d \in Caches, NEW u \in Fetches(d, t)' \union Evictions(d, t)',
                      \A v \in Fetches(d, t) \union Evictions(d, t) : u.when # v.when
               PROVE  \A x \in Caches : \A f \in Snoops(x, t)' :
                        f.when <= u.when /\ (x = d => f.when < u.when)
    OBVIOUS
  <2>1. \A x \in Caches : \A f \in Snoops(x, t) : f.when < u.when
    BY <1>3
  <2>2. \A x \in Caches : \A f \in Snoops(x, t) : f.when < u.when => f.when <= u.when
    <3>1. u.when \in Nat
      BY DEF IInv, TypeOK, Fetches, Evictions, Updates
    <3>2. \A x \in Caches : \A f \in Snoops(x, t) : f.when \in Nat
      BY <1>1, EventTypes
    <3> QED
      BY <3>1, <3>2
  <2> QED
    BY <1>3, <2>1, <2>2
<1> QED
  BY <1>1, <1>2, <1>3, <1>4, OrderKept

LEMMA ClocksStay ==
  ASSUME TypeOK, UNCHANGED clock
  PROVE  \A d \in Caches : clock[d] <= clock'[d] /\ clock'[d] \in Nat
BY DEF TypeOK

LEMMA OrderIdle ==
  ASSUME IInv, IInv', Order, NEW c \in Caches,
         \/ Tick(c) \/ (\E t \in Tags : ReadHit(c, t)) \/ UNCHANGED vars
  PROVE  Order'
<1>1. TypeOK /\ TypeOK'
  BY DEF IInv
<1>2. Skewed'
  <2>1. CASE UNCHANGED clock
    BY <2>1 DEF Skewed, Order
  <2>2. CASE Tick(c)
    <3>1. /\ \A d \in Caches : clock[d] \in Nat
          /\ \A d \in Caches : clock[c] + 1 <= clock[d] + Skew
          /\ \A d \in Caches : clock'[d] = IF d = c THEN clock[c] + 1 ELSE clock[d]
      BY <1>1, <2>2 DEF Tick, TypeOK
    <3> SUFFICES ASSUME NEW d \in Caches, NEW x \in Caches
                 PROVE  clock'[x] <= clock'[d] + Skew
      BY DEF Skewed
    <3>2. clock[x] <= clock[d] + Skew /\ Skew \in Nat
      BY CacheTimingAssumption DEF Order, Skewed
    <3> QED
      BY <3>1, <3>2
  <2> QED
    BY <2>1, <2>2 DEF ReadHit, vars
<1>3. \A d \in Caches : clock[d] <= clock'[d] /\ clock'[d] \in Nat
  BY <1>1, IdleEffect DEF TypeOK
<1>4. \A t \in Tags \ raced' : OrderAt(t)'
  BY <1>3, IdleEffect, OrderUntouched DEF Order
<1> QED
  BY <1>2, <1>4 DEF Order

LEMMA OrderMiss ==
  ASSUME IInv, IInv', Order, SkewBelowLatency, NEW c \in Caches, NEW t \in Tags,
         NEW to \in Answers, NEW st \in Bus!States, Miss(c, t, to, st)
  PROVE  Order'
<1>1. PICK new : Missed(c, t, to, st, new)
  BY MissEffect
<1>2. /\ \A x \in Tags \ {t} : Untouched(x)
      /\ UNCHANGED <<protocol, clock>> /\ raced \subseteq raced'
      /\ TypeOK /\ TypeOK'
  BY MissEffect DEF IInv
<1>3. PICK lat \in Lats : new.when = clock[c] + lat
  BY <1>1 DEF Missed
<1>4. lat \in Nat /\ lat > 0 /\ Skew < lat /\ Skew \in Nat /\ clock[c] \in Nat
  BY <1>2, CacheTimingAssumption DEF SkewBelowLatency, TypeOK
<1>5. Skewed'
  BY <1>2 DEF Order, Skewed
<1>6. ASSUME NEW x \in Tags \ raced', x # t PROVE OrderAt(x)'
  <2>1. OrderAt(x) /\ Untouched(x)
    BY <1>2, <1>6 DEF Order
  <2>2. \A d \in Caches : \A f \in Snoops(d, x) : f.when < new.when
    <3> SUFFICES ASSUME NEW d \in Caches, NEW f \in Snoops(d, x)
                 PROVE  f.when < new.when
      OBVIOUS
    <3>1. PICK y \in Caches : f.when <= clock[y]
      BY <2>1 DEF OrderAt
    <3>2. clock[y] <= clock[c] + Skew /\ clock[y] \in Nat
      BY <1>2 DEF Order, Skewed, TypeOK
    <3>3. f.when \in Nat
      BY <1>2, EventTypes
    <3> QED
      BY <1>3, <1>4, <3>1, <3>2, <3>3
  <2>3. \A d \in Caches : \A u \in Evictions(d, x)' :
          \/ \E v \in Evictions(d, x) : u.when = v.when
          \/ \A y \in Caches : \A f \in Snoops(y, x) : f.when < u.when
    <3>1. \A d \in Caches :
            Evictions(d, x)' \subseteq Evictions(d, x) \union (IF d = c THEN {new} ELSE {})
      BY <1>1 DEF Missed
    <3> QED
      BY <2>2, <3>1
  <2> QED
    BY <1>2, <2>1, <2>3, ClocksStay, OrderUntouched
<1>7. ASSUME t \notin raced' PROVE OrderAt(t)'
  <2>1. Called(c, t, to) /\ Fetches(c, t) = {} /\ new.when > clock[c]
    BY <1>1, <1>3, <1>4, <1>7 DEF Missed, Called, OnItsWay
  <2>2. \A d \in Caches : \A u \in Evictions(d, t)' :
          u \in events[d] \/ (d = c /\ u.when > clock[c])
    <3>1. \A d \in Caches :
            Evictions(d, t)' \subseteq Evictions(d, t) \union (IF d = c THEN {new} ELSE {})
      BY <1>1 DEF Missed
    <3> QED
      BY <1>2, <2>1, <3>1, EventTypes
  <2>3. \A u \in Fetches(c, t)' : u.when > clock[c]
    BY <1>1, <2>1 DEF Missed
  <2> QED
    BY <1>2, <1>7, <2>1, <2>2, <2>3, OrderCalled
<1> QED
  BY <1>5, <1>6, <1>7 DEF Order

LEMMA OrderWriteHit ==
  ASSUME IInv, IInv', Order, NEW c \in Caches, NEW t \in Tags, WriteHit(c, t)
  PROVE  Order'
<1>1. /\ \A x \in Tags \ {t} : Untouched(x)
      /\ \A d \in Caches, x \in Tags : Evictions(d, x)' = Evictions(d, x)
      /\ UNCHANGED <<protocol, clock>> /\ raced \subseteq raced'
      /\ TypeOK /\ TypeOK'
  BY WriteHitEffect DEF IInv
<1>2. \A d \in Caches : clock[d] <= clock'[d] /\ clock'[d] \in Nat
  BY <1>1, ClocksStay
<1>3. ASSUME NEW x \in Tags \ raced', x # t PROVE OrderAt(x)'
  BY <1>1, <1>2, <1>3, OrderUntouched DEF Order
<1>4. ASSUME t \notin raced' PROVE OrderAt(t)'
  <2>1. CASE \A d \in Caches :
               /\ Found(d, t)' = Found(d, t)
               /\ Fetches(d, t)' = Fetches(d, t) /\ Snoops(d, t)' = Snoops(d, t)
    <3>1. OrderAt(t)
      BY <1>1, <1>4 DEF Order
    <3>2. \A d \in Caches : \A f \in Snoops(d, t)' : f.line \in Found(d, t)'
      BY <2>1, <3>1 DEF OrderAt
    <3> QED
      BY <1>1, <1>2, <2>1, <3>1, <3>2, OrderKept
  <2>2. CASE /\ Called(c, t, Bus!ReadXSnoop(Copies(t)[c]))
             /\ Fetches(c, t)' = Fetches(c, t)
    <3>1. Fetches(c, t)' = {}
      BY <1>4, <2>2 DEF Called, OnItsWay
    <3>2. \A d \in Caches : Evictions(d, t)' \subseteq events[d]
      BY <1>1, EventTypes
    <3> QED
      BY <1>1, <1>4, <2>2, <3>1, <3>2, OrderCalled
  <2> QED
    BY <2>1, <2>2, WriteHitEffect
<1>5. Skewed'
  BY <1>1 DEF Order, Skewed
<1> QED
  BY <1>3, <1>4, <1>5 DEF Order

LEMMA OrderWriteHalfMiss ==
  ASSUME IInv, IInv', Order, NEW c \in Caches, NEW t \in Tags, WriteHalfMiss(c, t)
  PROVE  Order'
<1>1. /\ \A x \in Tags \ {t} : Untouched(x)
      /\ \A d \in Caches, x \in Tags :
              /\ Found(d, x)' = Found(d, x)
              /\ \A u \in Evictions(d, x)' : \E v \in Evictions(d, x) : u.when = v.when
      /\ UNCHANGED <<protocol, clock>> /\ raced \subseteq raced'
      /\ TypeOK /\ TypeOK'
  BY WriteHalfMissEffect DEF IInv
<1>2. \A d \in Caches : clock[d] <= clock'[d] /\ clock'[d] \in Nat
  BY <1>1, ClocksStay
<1>3. ASSUME NEW x \in Tags \ raced', x # t PROVE OrderAt(x)'
  BY <1>1, <1>2, <1>3, OrderUntouched DEF Order
<1>4. ASSUME t \notin raced' PROVE OrderAt(t)'
  <2>1. OrderAt(t)
    BY <1>1, <1>4 DEF Order
  <2>2. PICK e \in Fetches(c, t) :
          /\ \E new : Fetches(c, t)' = {new} /\ new.when = e.when
          /\ \A d \in Caches : Snoops(d, t)' = Snoops(d, t)
          /\ \A d \in Caches \ {c} : Fetches(d, t)' = Fetches(d, t)
    BY <1>4, WriteHalfMissEffect
  <2>3. \A d \in Caches : \A f \in Snoops(d, t)' : f.line \in Found(d, t)'
    BY <1>1, <2>1, <2>2 DEF OrderAt
  <2>4. \A d \in Caches : \A u \in Fetches(d, t)' \union Evictions(d, t)' :
          \E v \in Fetches(d, t) \union Evictions(d, t) : u.when = v.when
    BY <1>1, <2>2
  <2> QED
    BY <1>1, <1>2, <2>1, <2>2, <2>3, <2>4, OrderKept
<1>5. Skewed'
  BY <1>1 DEF Order, Skewed
<1> QED
  BY <1>3, <1>4, <1>5 DEF Order

LEMMA OrderPerformUpdate ==
  ASSUME IInv, IInv', Alone, Order, NEW c \in Caches, NEW e \in events[c],
         PerformUpdate(c, e)
  PROVE  Order'
<1>1. /\ UNCHANGED <<protocol, clock>> /\ raced \subseteq raced'
      /\ e \in Fetches(c, e.tag) /\ e \in Updates(c) /\ e.tag \in Tags
      /\ \A u \in events[c] : e.when <= u.when
      /\ TypeOK /\ TypeOK'
  BY PerformUpdateEffect DEF IInv
<1>2. \A x \in Tags, d \in Caches :
        /\ d # c => Evictions(d, x)' = Evictions(d, x)
        /\ x # e.tag => Evictions(c, x)' \subseteq Evictions(c, x)
        /\ Evictions(c, x)' \subseteq events[c]
  BY PerformUpdateEffect
<1>3. \A d \in Caches : clock[d] <= clock'[d] /\ clock'[d] \in Nat
  BY <1>1, ClocksStay
<1>4. Skewed'
  BY <1>1 DEF Order, Skewed
<1> SUFFICES ASSUME NEW x \in Tags \ raced' PROVE OrderAt(x)'
  BY <1>4 DEF Order
<1>5. OrderAt(x) /\ AloneAt(x)
  BY <1>1 DEF Order, Alone
<1>6. CASE x = e.tag
  <2>1. Arrived(c, e)
    BY <1>1, <1>5, <1>6, PerformUpdateEffect DEF AloneAt
  <2>2. Snoops(c, x)' = {} /\ Fetches(c, x)' = {}
    BY <1>1, <1>5, <1>6, <2>1 DEF AloneAt, Arrived
  <2>3. \A d \in Caches : \A f \in Snoops(d, x)' : f.line \in Found(d, x)'
    BY <1>5, <1>6, <2>1, <2>2 DEF Arrived, OrderAt
  <2>4. \A d \in Caches : \A f \in Snoops(d, x) : f.when <= e.when
    BY <1>1, <1>5, <1>6 DEF OrderAt, LaterAt
  <2>5. \A d \in Caches : \A u \in Fetches(d, x)' \union Evictions(d, x)' :
          \/ \E v \in Fetches(d, x) \union Evictions(d, x) : u.when = v.when
          \/ \A y \in Caches : \A f \in Snoops(y, x)' :
               f.when <= u.when /\ (y = d => f.when < u.when)
    <3> SUFFICES ASSUME NEW d \in Caches, NEW u \in Fetches(d, x)' \union Evictions(d, x)'
                 PROVE  \/ \E v \in Fetches(d, x) \union Evictions(d, x) : u.when = v.when
                        \/ \A y \in Caches : \A f \in Snoops(y, x)' :
                             f.when <= u.when /\ (y = d => f.when < u.when)
      OBVIOUS
    <3>1. CASE d # c
      BY <1>2, <1>6, <2>1, <3>1 DEF Arrived
    <3>2. CASE d = c
      <4>1. u \in events[c] /\ u.when \in Nat /\ e.when <= u.when /\ e.when \in Nat
        BY <1>1, <1>2, <2>2, <3>2, EventTypes
      <4>2. \A y \in Caches : \A f \in Snoops(y, x)' : f.when <= u.when
        <5> SUFFICES ASSUME NEW y \in Caches, NEW f \in Snoops(y, x)
                     PROVE  f.when <= u.when
          BY <1>6, <2>1 DEF Arrived
        <5>1. f.when \in Nat /\ f.when <= e.when
          BY <1>1, <2>4, EventTypes
        <5> QED
          BY <4>1, <5>1
      <4> QED
        BY <2>2, <3>2, <4>2
    <3> QED
      BY <3>1, <3>2
  <2>6. \A d \in Caches : Snoops(d, x)' \subseteq Snoops(d, x)
    BY <1>6, <2>1 DEF Arrived
  <2> QED
    BY <1>1, <1>3, <1>5, <2>3, <2>5, <2>6, OrderKept
<1>7. CASE x # e.tag /\ x = line[c][e.line].tag
  <2>1. Replaced(c, e, x)
    BY <1>7, PerformUpdateEffect
  <2>2. e \in Evictions(c, x) /\ e.when \in Nat
    BY <1>1, <2>1, EventTypes DEF Evictions, Replaced
  <2>3. Snoops(c, x) = {}
    <3> SUFFICES ASSUME NEW f \in Snoops(c, x) PROVE FALSE
      OBVIOUS
    <3>1. f.when < e.when
      BY <1>5, <2>2 DEF OrderAt, LaterAt
    <3>2. e.when <= f.when /\ f.when \in Nat
      BY <1>1, EventTypes
    <3> QED
      BY <2>2, <3>1, <3>2
  <2>4. CASE ~Bus!IsDirty(Copies(x)[c])
    <3>1. \A d \in Caches : Snoops(d, x)' = Snoops(d, x) /\ Fetches(d, x)' = Fetches(d, x)
      BY <2>1, <2>4 DEF Replaced
    <3>2. \A d \in Caches : \A f \in Snoops(d, x)' : f.line \in Found(d, x)'
      BY <1>5, <2>1, <2>3, <3>1 DEF Replaced, OrderAt
    <3>3. \A d \in Caches : Evictions(d, x)' \subseteq Evictions(d, x)
      BY <1>2, <1>7
    <3> QED
      BY <1>1, <1>3, <1>5, <3>1, <3>2, <3>3, OrderKept
  <2>5. CASE Bus!IsDirty(Copies(x)[c])
    <3>1. /\ UpToDate(c, x, e.when) /\ ~Ahead(e.when)
          /\ \A d \in Caches \ {c} : Snoops(d, x)' =
               Snoops(d, x) \union Told(c, x, Copies(x), Bus!Kill, e.when)[d]
          /\ Snoops(c, x)' = Snoops(c, x)
          /\ \A d \in Caches : Fetches(d, x)' = Fetches(d, x)
          /\ \A d \in Caches \ {c} : Found(d, x)' = Found(d, x)
      BY <2>1, <2>5 DEF Replaced
    <3>2. \A d \in Caches \ {c} : Snoops(d, x) = {}
      <4> SUFFICES ASSUME NEW d \in Caches \ {c}, NEW f \in Snoops(d, x) PROVE FALSE
        OBVIOUS
      <4>1. f.when <= e.when
        BY <1>5, <2>2 DEF OrderAt, LaterAt
      <4>2. f.when > e.when
        BY <3>1 DEF UpToDate, Snoops, Invalidates
      <4>3. f.when \in Nat
        BY <1>1, EventTypes
      <4> QED
        BY <2>2, <4>1, <4>2, <4>3
    <3>3. Fetches(c, x)' \subseteq events[c] /\ Evictions(c, x)' \subseteq events[c]
      BY <1>1, <1>2, <3>1, EventTypes
    <3>4. \A d \in Caches : Snoops(d, x)' = IF d = c THEN {} ELSE
            Told(c, x, Copies(x), Bus!Kill, e.when)[d]
      BY <2>3, <3>1, <3>2
    <3>5. \A d \in Caches \ {c} :
            /\ Found(d, x)' = Found(d, x) /\ Fetches(d, x)' = Fetches(d, x)
            /\ Evictions(d, x)' = Evictions(d, x)
      BY <1>2, <3>1
    <3> QED
      BY <1>1, <2>2, <3>1, <3>3, <3>4, <3>5, OrderWrittenBack
  <2> QED
    BY <2>4, <2>5
<1>8. CASE x # e.tag /\ x # line[c][e.line].tag
  <2>1. Untouched(x)
    BY <1>8, PerformUpdateEffect
  <2>2. \A d \in Caches : Evictions(d, x)' \subseteq Evictions(d, x)
    BY <1>2, <1>8
  <2> QED
    BY <1>1, <1>3, <1>5, <2>1, <2>2, OrderUntouched
<1> QED
  BY <1>6, <1>7, <1>8

\* In order, an invalidation hits its tag, and is the only one on its way for
\* it when it writes the line back.
LEMMA SettlesAlone ==
  ASSUME IInv, IInv', Alone, Order, NEW c \in Caches, NEW f \in events[c],
         PerformInvalidate(c, f), f.tag \notin raced'
  PROVE  /\ Settles(c, f) /\ OnItsWay(c, f.tag) = {f} /\ OnItsWay(c, f.tag)' = {}
         /\ Bus!IsDirty(Copies(f.tag)[c]) /\ f.st = "S" =>
              \A d \in Caches \ {c} : Snoops(d, f.tag) = {}
<1>1. /\ raced \subseteq raced' /\ f \in Snoops(c, f.tag) /\ f.tag \in Tags
      /\ f.line \in Ways[c] /\ TypeOK
  BY PerformInvalidateEffect DEF IInv
<1>2. OrderAt(f.tag) /\ AloneAt(f.tag)
  BY <1>1 DEF Order, Alone
<1>3. line[c][f.line].tag = f.tag
  BY <1>1, <1>2 DEF OrderAt, Found
<1>4. Settles(c, f)
  BY <1>3, PerformInvalidateEffect
<1>5. Snoops(c, f.tag) = {f} /\ Fetches(c, f.tag) = {}
  BY <1>1, <1>2 DEF OrderAt, OneCallAt, AloneAt
<1>6. OnItsWay(c, f.tag) = {f} /\ OnItsWay(c, f.tag)' = {}
  BY <1>4, <1>5 DEF OnItsWay, Settles
<1>7. ASSUME Bus!IsDirty(Copies(f.tag)[c]), f.st = "S",
             NEW d \in Caches \ {c}, NEW g \in Snoops(d, f.tag)
      PROVE  FALSE
  <2>1. g.when = f.when /\ f.when \in Nat
    BY <1>1, <1>2 , EventTypes DEF OrderAt, OneCallAt
  <2>2. g.when > f.when
    BY <1>4, <1>7 DEF Settles, UpToDate, Snoops, Invalidates
  <2> QED
    BY <2>1, <2>2
<1> QED
  BY <1>4, <1>6, <1>7

LEMMA OrderPerformInvalidate ==
  ASSUME IInv, IInv', Alone, Order, NEW c \in Caches, NEW f \in events[c],
         PerformInvalidate(c, f)
  PROVE  Order'
<1>1. /\ UNCHANGED <<protocol, clock>> /\ raced \subseteq raced'
      /\ f \in Snoops(c, f.tag) /\ f.tag \in Tags /\ f.when \in Nat
      /\ \A u \in events[c] : f.when <= u.when
      /\ \A x \in Tags, d \in Caches : Evictions(d, x)' = Evictions(d, x)
      /\ TypeOK /\ TypeOK'
  BY PerformInvalidateEffect, EventTypes DEF IInv
<1>2. \A d \in Caches : clock[d] <= clock'[d] /\ clock'[d] \in Nat
  BY <1>1, ClocksStay
<1>3. Skewed'
  BY <1>1 DEF Order, Skewed
<1> SUFFICES ASSUME NEW x \in Tags \ raced' PROVE OrderAt(x)'
  BY <1>3 DEF Order
<1>4. OrderAt(x)
  BY <1>1 DEF Order
<1>5. CASE x = f.tag
  <2>1. /\ Settles(c, f) /\ OnItsWay(c, x)' = {}
        /\ Bus!IsDirty(Copies(x)[c]) /\ f.st = "S" =>
              \A d \in Caches \ {c} : Snoops(d, x) = {}
    BY <1>5, SettlesAlone
  <2>2. Snoops(c, x)' = {} /\ \A d \in Caches :
          Found(d, x)' = Found(d, x) /\ Fetches(d, x)' = Fetches(d, x)
    BY <1>5, <2>1 DEF OnItsWay, Settles
  <2>3. CASE ~(Bus!IsDirty(Copies(x)[c]) /\ f.st = "S")
    <3>1. \A d \in Caches : Snoops(d, x)' \subseteq Snoops(d, x)
      BY <1>5, <2>1, <2>2, <2>3 DEF Settles
    <3>2. \A d \in Caches : \A g \in Snoops(d, x)' : g.line \in Found(d, x)'
      BY <1>4, <2>2, <3>1 DEF OrderAt
    <3> QED
      BY <1>1, <1>2, <1>4, <2>2, <3>1, <3>2, OrderKept
  <2>4. CASE Bus!IsDirty(Copies(x)[c]) /\ f.st = "S"
    <3>1. /\ UpToDate(c, x, f.when) /\ ~Ahead(f.when)
          /\ \A d \in Caches \ {c} : Snoops(d, x)' =
               Snoops(d, x) \union Told(c, x, Copies(x), Bus!Kill, f.when)[d]
      BY <1>5, <2>1, <2>4 DEF Settles
    <3>2. \A d \in Caches : Snoops(d, x)' = IF d = c THEN {} ELSE
            Told(c, x, Copies(x), Bus!Kill, f.when)[d]
      BY <2>1, <2>2, <2>4, <3>1
    <3>3. Fetches(c, x)' \subseteq events[c] /\ Evictions(c, x)' \subseteq events[c]
      BY <1>1, <2>2, EventTypes
    <3> QED
      BY <1>1, <2>2, <3>1, <3>2, <3>3, OrderWrittenBack
  <2> QED
    BY <2>3, <2>4
<1>6. CASE x # f.tag
  <2>1. Untouched(x)
    <3>1. x = line[c][f.line].tag => x = f.tag
      <4>1. line[c][f.line].tag # f.tag => line[c][f.line].tag \in raced'
        BY PerformInvalidateEffect
      <4> QED
        BY <4>1
    <3> QED
      BY <1>6, <3>1, PerformInvalidateEffect
  <2> QED
    BY <1>1, <1>2, <1>4, <2>1, OrderUntouched
<1> QED
  BY <1>5, <1>6

LEMMA OrderStep ==
  ASSUME IInv, Alone, Order, SkewBelowLatency, [Next]_vars PROVE Order'
<1>0. IInv'
  BY StepInv
<1>1. ASSUME NEW c \in Caches, NEW t \in Tags, ReadMiss(c, t) PROVE Order'
  <2>1. Bus!Demote(protocol) \in Answers
        /\ Bus!ReadState(Copies(t), c) \in Bus!States
    BY AnswerTypes, NewStates
  <2> QED
    BY <1>0, <1>1, <2>1, OrderMiss DEF ReadMiss
<1>2. ASSUME NEW c \in Caches, NEW t \in Tags, WriteMiss(c, t) PROVE Order'
  <2>1. Bus!ReadXSnoop("I") \in Answers
        /\ Bus!ReadXState(Copies(t), c) \in Bus!States
    BY AnswerTypes, NewStates
  <2> QED
    BY <1>0, <1>2, <2>1, OrderMiss DEF WriteMiss
<1>3. ASSUME NEW c \in Caches,
             \/ Tick(c) \/ (\E t \in Tags : ReadHit(c, t)) \/ UNCHANGED vars
      PROVE  Order'
  BY <1>0, <1>3, OrderIdle
<1>4. CASE UNCHANGED vars
  BY <1>4 DEF vars, Order, Skewed, OrderAt, OneCallAt, LaterAt, Fetches, Snoops,
              Evictions, Updates, Invalidates, Found
<1> QED
  BY <1>0, <1>1, <1>2, <1>3, <1>4, OrderWriteHit, OrderWriteHalfMiss, OrderPerformUpdate,
     OrderPerformInvalidate DEF Next, Perform

LEMMA OrderAlways == ASSUME SkewBelowLatency PROVE Spec => []Order
<1>1. Init => Order
  <2> SUFFICES ASSUME Init PROVE Order
    OBVIOUS
  <2>1. Skewed
    BY CacheTimingAssumption DEF Init, Skewed
  <2>2. \A t \in Tags : OrderAt(t)
    BY DEF Init, OrderAt, OneCallAt, LaterAt, Snoops, Invalidates
  <2> QED
    BY <2>1, <2>2 DEF Order
<1>2. IInv /\ Alone /\ Order /\ [Next]_vars => Order'
  BY OrderStep
<1> QED
  BY <1>1, <1>2, Invariance, AloneAlways, PTL DEF Spec

\* perform_invalidate (cache_impl.h) changes whatever its pointer leads to.  It
\* leads to the line with the tag that the bus invalidated, for any caches,
\* ways, protocols and latencies, if no core is ahead by the latency of a miss
\* and the bus was not asked for the line in a race.
THEOREM InvalidationsHitTheirTag ==
  ASSUME SkewBelowLatency PROVE Spec => []HitsItsTag
<1>1. IInv /\ Order => HitsItsTag
  <2> SUFFICES ASSUME IInv, Order, NEW c \in Caches, NEW f \in Invalidates(c),
                      f.tag \notin raced
               PROVE  line[c][f.line].tag = f.tag
    BY DEF HitsItsTag
  <2>1. f.tag \in Tags /\ f \in Snoops(c, f.tag)
    BY DEF IInv, TypeOK, Invalidates, Snoops
  <2> QED
    BY <2>1 DEF Order, OrderAt, Found
<1> QED
  BY <1>1, Invariance, OrderAlways, PTL

-----------------------------------------------------------------------------
\* Coherence

\* what the copy of c will be once everything on its way has been performed
Becoming(c, t) ==
  IF OnItsWay(c, t) = {} THEN {Copies(t)[c]} ELSE {e.st : e \in OnItsWay(c, t)}

\* two copies of a line that may be in two caches
Fits(s, u) == (Bus!IsExclusive(s) => u = "I") /\ (s = "O" => u # "O")

CoherentAt(t) ==
  \A c, d \in Caches : c # d =>
    \A s \in Becoming(c, t), u \in Becoming(d, t) : Fits(s, u)

InCoherence == \A t \in Tags \ raced : CoherentAt(t)

Fitting(cp) == \A c, d \in Caches : c # d => Fits(cp[c], cp[d])

\* the copies after a call of c that gives it state st
Answered(cp, c, to, st) ==
  [d \in Caches |-> IF d = c THEN st
                    ELSE IF d \in Bus!Snooped(cp, c, to) THEN to[cp[d]] ELSE cp[d]]

USE DEF Bus!States, Bus!Valid

LEMMA ReadFits ==
  ASSUME NEW cp \in [Caches -> Bus!States], NEW c \in Caches, Fitting(cp)
  PROVE  Fitting(Answered(cp, c, Bus!Demote(protocol), Bus!ReadState(cp, c)))
<1> DEFINE to == Bus!Demote(protocol)
           new == Answered(cp, c, to, Bus!ReadState(cp, c))
<1>1. \A d \in Caches \ {c} :
        /\ cp[d] = "I" => new[d] = "I"
        /\ cp[d] # "I" => new[d] \in {"S", "O"}
        /\ new[d] = "O" => cp[d] \in {"M", "O"}
  <2> SUFFICES ASSUME NEW d \in Caches \ {c}
               PROVE  /\ cp[d] = "I" => new[d] = "I"
                      /\ cp[d] # "I" => new[d] \in {"S", "O"}
                      /\ new[d] = "O" => cp[d] \in {"M", "O"}
    OBVIOUS
  <2>1. cp[d] \in Bus!States
    OBVIOUS
  <2> QED
    BY <2>1 DEF Answered, Bus!Snooped, Bus!Demote
<1>2. new[c] \in {"S", "E"}
      /\ (new[c] = "E" => \A d \in Caches \ {c} : cp[d] = "I")
  BY DEF Answered, Bus!ReadState
<1> HIDE DEF new, to
<1>3. Fitting(new)
  <2> SUFFICES ASSUME NEW d \in Caches, NEW x \in Caches, d # x
               PROVE  Fits(new[d], new[x])
    BY DEF Fitting
  <2>1. CASE d = c
    BY <1>1, <1>2, <2>1 DEF Fits, Bus!IsExclusive
  <2>2. CASE x = c
    BY <1>1, <1>2, <2>2 DEF Fits, Bus!IsExclusive
  <2>3. CASE d # c /\ x # c
    BY <1>1, <2>3 DEF Fits, Bus!IsExclusive, Fitting
  <2> QED
    BY <2>1, <2>2, <2>3
<1> QED
  BY <1>3 DEF new, to

LEMMA WriteFits ==
  ASSUME NEW cp \in [Caches -> Bus!States], NEW c \in Caches, Fitting(cp),
         ~Bus!IsExclusive(cp[c])
  PROVE  Fitting(Answered(cp, c, Bus!ReadXSnoop(cp[c]), Bus!ReadXState(cp, c)))
<1> DEFINE to == Bus!ReadXSnoop(cp[c])
           st == Bus!ReadXState(cp, c)
           new == Answered(cp, c, to, st)
<1>1. CASE to = Bus!Kill
  <2>1. \A d \in Caches \ {c} : new[d] = "I"
    <3> SUFFICES ASSUME NEW d \in Caches \ {c} PROVE new[d] = "I"
      OBVIOUS
    <3>1. cp[d] \in Bus!States
      OBVIOUS
    <3> QED
      BY <1>1, <3>1 DEF Answered, Bus!Snooped, Bus!Kill
  <2> HIDE DEF new
  <2>2. Fitting(new)
    BY <2>1 DEF Fitting, Fits, Bus!IsExclusive
  <2> QED
    BY <2>2 DEF new
<1>2. CASE to = Bus!Share /\ protocol = "FUTUREBUS" /\ cp[c] # "I"
  <2>1. \A d \in Caches \ {c} :
          /\ cp[d] \in {"O", "S", "I"}
          /\ new[d] = IF cp[d] = "I" THEN "I" ELSE "S"
          /\ cp[d] # "I" => d \in Bus!Snooped(cp, c, to)
    <3> SUFFICES ASSUME NEW d \in Caches \ {c}
                 PROVE  /\ cp[d] \in {"O", "S", "I"}
                        /\ new[d] = IF cp[d] = "I" THEN "I" ELSE "S"
                        /\ cp[d] # "I" => d \in Bus!Snooped(cp, c, to)
      OBVIOUS
    <3>1. cp[d] \in Bus!States /\ ~Bus!IsExclusive(cp[d])
      BY <1>2 DEF Fitting, Fits
    <3>2. cp[d] \in {"O", "S", "I"}
      BY <3>1 DEF Bus!IsExclusive
    <3> QED
      BY <1>2, <3>2 DEF Answered, Bus!Snooped, Bus!Share
  <2>2. new[c] = IF Bus!Snooped(cp, c, to) # {} THEN "O" ELSE "M"
    BY <1>2 DEF Answered, Bus!ReadXState
  <2> HIDE DEF new, st, to
  <2>3. Fitting(new)
    <3> SUFFICES ASSUME NEW d \in Caches, NEW x \in Caches, d # x
                 PROVE  Fits(new[d], new[x])
      BY DEF Fitting
    <3>1. CASE d = c
      BY <2>1, <2>2, <3>1 DEF Fits, Bus!IsExclusive
    <3>2. CASE d # c
      BY <2>1, <2>2, <3>2 DEF Fits, Bus!IsExclusive
    <3> QED
      BY <3>1, <3>2
  <2> QED
    BY <2>3 DEF new, st, to
<1>3. to = Bus!Kill \/ (to = Bus!Share /\ protocol = "FUTUREBUS" /\ cp[c] # "I")
  BY DEF Bus!ReadXSnoop
<1> QED
  BY <1>1, <1>2, <1>3

\* Copies that only come to nothing, or to what they were to become.
LEMMA CoherentShrink ==
  ASSUME NEW t, CoherentAt(t),
         \A d \in Caches : Becoming(d, t)' \subseteq Becoming(d, t) \union {"I"}
  PROVE  CoherentAt(t)'
<1> SUFFICES ASSUME NEW c \in Caches, NEW d \in Caches, c # d,
                    NEW s \in Becoming(c, t)', NEW u \in Becoming(d, t)'
             PROVE  Fits(s, u)
  BY DEF CoherentAt
<1>1. (s \in Becoming(c, t) \/ s = "I") /\ (u \in Becoming(d, t) \/ u = "I")
  OBVIOUS
<1> QED
  BY <1>1 DEF CoherentAt, Fits, Bus!IsExclusive

\* An exclusive copy is modified.
LEMMA CoherentModify ==
  ASSUME NEW t, CoherentAt(t), NEW c \in Caches, NEW s \in Becoming(c, t),
         Bus!IsExclusive(s), Becoming(c, t)' \subseteq {"M"},
         \A d \in Caches \ {c} : Becoming(d, t)' = Becoming(d, t)
  PROVE  CoherentAt(t)'
<1>1. \A d \in Caches \ {c} : Becoming(d, t) \subseteq {"I"}
  BY DEF CoherentAt, Fits
<1> SUFFICES ASSUME NEW x \in Caches, NEW d \in Caches, x # d,
                    NEW v \in Becoming(x, t)', NEW u \in Becoming(d, t)'
             PROVE  Fits(v, u)
  BY DEF CoherentAt
<1>2. CASE x = c
  BY <1>1, <1>2 DEF Fits
<1>3. CASE x # c
  BY <1>1, <1>3 DEF Fits, Bus!IsExclusive
<1> QED
  BY <1>2, <1>3

\* Others are told to invalidate their copies.
LEMMA BecomingNothing ==
  ASSUME NEW t, NEW c \in Caches, NEW time, NEW d \in Caches, TypeOK, t \in Tags,
         Fetches(d, t)' = Fetches(d, t), Copies(t)'[d] = Copies(t)[d],
         \/ Snoops(d, t)' = Snoops(d, t)
         \/ Snoops(d, t)' = Snoops(d, t) \union Told(c, t, Copies(t), Bus!Kill, time)[d]
  PROVE  Becoming(d, t)' \subseteq Becoming(d, t) \union {"I"}
<1>1. CASE Snoops(d, t)' = Snoops(d, t)
  BY <1>1 DEF Becoming, OnItsWay
<1>2. CASE Snoops(d, t)' = Snoops(d, t) \union Told(c, t, Copies(t), Bus!Kill, time)[d]
  <2> DEFINE T == Told(c, t, Copies(t), Bus!Kill, time)[d]
  <2>1. \A f \in T : f.st = "I"
    <3> SUFFICES ASSUME NEW f \in T PROVE f.st = "I"
      OBVIOUS
    <3>1. f.st = Bus!Kill[Copies(t)[d]] /\ Copies(t)[d] # "I" /\ Copies(t)[d] \in Bus!States
      BY ToldIs, CopiesType DEF Bus!Snooped
    <3> QED
      BY <3>1 DEF Bus!Kill
  <2> HIDE DEF T
  <2>2. OnItsWay(d, t)' = OnItsWay(d, t) \union T
    BY <1>2 DEF OnItsWay, T
  <2>3. CASE T = {}
    BY <2>2, <2>3 DEF Becoming
  <2>4. CASE T # {}
    <3>1. OnItsWay(d, t)' # {}
      BY <2>2, <2>4
    <3>2. Becoming(d, t)' = {e.st : e \in OnItsWay(d, t) \union T}
      BY <2>2, <3>1 DEF Becoming
    <3>3. \A e \in OnItsWay(d, t) : e.st \in Becoming(d, t)
      BY DEF Becoming
    <3> QED
      BY <2>1, <3>2, <3>3
  <2> QED
    BY <2>3, <2>4
<1> QED
  BY <1>1, <1>2

\* What a call leaves is what the protocol says.
LEMMA CoherentCalled ==
  ASSUME IInv, IInv', NEW c \in Caches, NEW t \in Tags \ raced', NEW to, NEW st,
         Called(c, t, to), Becoming(c, t)' = {st},
         Fitting(Answered(Copies(t), c, to, st))
  PROVE  CoherentAt(t)'
<1> DEFINE new == Answered(Copies(t), c, to, st)
<1>1. \A d \in Caches : Fetches(d, t) = {} /\ Snoops(d, t) = {}
  BY DEF Called, OnItsWay
<1>2. ASSUME NEW d \in Caches \ {c} PROVE Becoming(d, t)' \subseteq {new[d]}
  <2> DEFINE T == Told(c, t, Copies(t), to, clock[c])[d]
  <2>1. OnItsWay(d, t)' = T /\ Copies(t)'[d] = Copies(t)[d]
    BY <1>1 DEF Called, OnItsWay
  <2>2. CASE d \in Bus!Snooped(Copies(t), c, to)
    <3>1. Found(d, t) # {}
      BY <2>2, CopyOf DEF IInv, Bus!Snooped
    <3>2. T # {} /\ \A f \in T : f.st = to[Copies(t)[d]]
      BY <2>2, <3>1, ToldIs
    <3>3. new[d] = to[Copies(t)[d]]
      BY <2>2 DEF Answered
    <3> HIDE DEF T, new
    <3> QED
      BY <2>1, <3>2, <3>3 DEF Becoming
  <2>3. CASE d \notin Bus!Snooped(Copies(t), c, to)
    <3>1. T = {}
      BY <2>3, ToldIs
    <3>2. new[d] = Copies(t)[d]
      BY <2>3 DEF Answered
    <3> HIDE DEF T, new
    <3> QED
      BY <2>1, <3>1, <3>2 DEF Becoming
  <2> QED
    BY <2>2, <2>3
<1>3. Becoming(c, t)' = {new[c]}
  BY DEF Answered
<1> HIDE DEF new
<1>4. \A x, d \in Caches : x # d => Fits(new[x], new[d])
  BY DEF Fitting, new
<1> QED
  BY <1>2, <1>3, <1>4 DEF CoherentAt

\* Nothing on its way: the copies are as the protocol left them.
LEMMA QuietFits ==
  ASSUME NEW t, CoherentAt(t), \A d \in Caches : OnItsWay(d, t) = {}
  PROVE  Fitting(Copies(t))
BY DEF CoherentAt, Becoming, Fitting

LEMMA CoherentUntouched ==
  ASSUME NEW t, CoherentAt(t), Untouched(t) PROVE CoherentAt(t)'
<1>1. \A d \in Caches : OnItsWay(d, t)' = OnItsWay(d, t)
  BY DEF Untouched, OnItsWay
<1>2. \A d \in Caches : Becoming(d, t)' = Becoming(d, t)
  BY <1>1 DEF Untouched, Becoming
<1> QED
  BY <1>2, CoherentShrink

LEMMA CoherentMiss ==
  ASSUME IInv, IInv', InCoherence, NEW c \in Caches, NEW t \in Tags, NEW to \in Answers,
         NEW st \in Bus!States, Miss(c, t, to, st),
         Fitting(Copies(t)) /\ Copies(t)[c] = "I" =>
           Fitting(Answered(Copies(t), c, to, st))
  PROVE  InCoherence'
<1> SUFFICES ASSUME NEW x \in Tags \ raced' PROVE CoherentAt(x)'
  BY DEF InCoherence
<1>1. PICK new : Missed(c, t, to, st, new)
  BY MissEffect
<1>2. CoherentAt(x) /\ \A y \in Tags \ {t} : Untouched(y)
  BY MissEffect DEF InCoherence
<1>3. CASE x = t
  <2>1. /\ Called(c, t, to) /\ Copies(t)[c] = "I" /\ new.st = st
        /\ Fetches(c, t)' = Fetches(c, t) \union {new}
    BY <1>1 DEF Missed
  <2>2. \A d \in Caches : OnItsWay(d, t) = {}
    BY <1>3, <2>1 DEF Called
  <2>3. Fitting(Copies(t))
    BY <1>2, <1>3, <2>2, QuietFits
  <2>4. OnItsWay(c, t)' = {new}
    <3>1. Snoops(c, t)' = {}
      BY <2>1, <2>2, ToldOthers DEF Called, OnItsWay
    <3> QED
      BY <2>1, <2>2, <3>1 DEF OnItsWay
  <2>5. Becoming(c, t)' = {st}
    BY <2>1, <2>4 DEF Becoming
  <2> QED
    BY <1>3, <2>1, <2>3, <2>5, CoherentCalled
<1> QED
  BY <1>2, <1>3, CoherentUntouched

LEMMA CoherentWriteHit ==
  ASSUME IInv, IInv', InCoherence, NEW c \in Caches, NEW t \in Tags, WriteHit(c, t)
  PROVE  InCoherence'
<1> SUFFICES ASSUME NEW x \in Tags \ raced' PROVE CoherentAt(x)'
  BY DEF InCoherence
<1>1. CoherentAt(x) /\ \A y \in Tags \ {t} : Untouched(y)
  BY WriteHitEffect DEF InCoherence
<1>2. CASE x = t
  <2>1. CASE /\ Bus!IsExclusive(Copies(t)[c]) /\ Copies(t)'[c] = "M"
             /\ \A d \in Caches :
                  /\ d # c => Copies(t)'[d] = Copies(t)[d]
                  /\ Fetches(d, t)' = Fetches(d, t) /\ Snoops(d, t)' = Snoops(d, t)
    <3>1. \A d \in Caches : OnItsWay(d, t)' = OnItsWay(d, t)
      BY <2>1 DEF OnItsWay
    <3>2. \A d \in Caches \ {c} : Becoming(d, t)' = Becoming(d, t)
      BY <2>1, <3>1 DEF Becoming
    <3>3. CASE OnItsWay(c, t) = {}
      <4>1. Becoming(c, t) = {Copies(t)[c]} /\ Becoming(c, t)' = {"M"}
        BY <2>1, <3>1, <3>3 DEF Becoming
      <4> QED
        BY <1>1, <1>2, <2>1, <3>2, <4>1, CoherentModify
    <3>4. CASE OnItsWay(c, t) # {}
      <4>1. Becoming(c, t)' = Becoming(c, t)
        BY <3>1, <3>4 DEF Becoming
      <4> QED
        BY <1>1, <1>2, <3>2, <4>1, CoherentShrink
    <3> QED
      BY <3>3, <3>4
  <2>2. CASE /\ ~Bus!IsExclusive(Copies(t)[c])
             /\ Called(c, t, Bus!ReadXSnoop(Copies(t)[c]))
             /\ Copies(t)'[c] = Bus!ReadXState(Copies(t), c)
             /\ Fetches(c, t)' = Fetches(c, t)
    <3>1. \A d \in Caches : OnItsWay(d, t) = {}
      BY <1>2, <2>2 DEF Called
    <3>2. OnItsWay(c, t)' = {}
      <4>1. Snoops(c, t)' = {}
        BY <2>2, <3>1, ToldOthers DEF Called, OnItsWay
      <4> QED
        BY <2>2, <3>1, <4>1 DEF OnItsWay
    <3>3. Becoming(c, t)' = {Bus!ReadXState(Copies(t), c)}
      BY <2>2, <3>2 DEF Becoming
    <3>4. Fitting(Copies(t))
      BY <1>1, <1>2, <3>1, QuietFits
    <3>5. Copies(t) \in [Caches -> Bus!States]
      BY CopiesType DEF IInv
    <3> HIDE DEF Bus!States
    <3>6. Fitting(Answered(Copies(t), c, Bus!ReadXSnoop(Copies(t)[c]),
                           Bus!ReadXState(Copies(t), c)))
      BY <2>2, <3>4, <3>5, WriteFits
    <3> QED
      BY <1>2, <2>2, <3>3, <3>6, CoherentCalled
  <2> QED
    BY <2>1, <2>2, WriteHitEffect
<1> QED
  BY <1>1, <1>2, CoherentUntouched

LEMMA CoherentWriteHalfMiss ==
  ASSUME IInv, IInv', Alone, InCoherence, NEW c \in Caches, NEW t \in Tags,
         WriteHalfMiss(c, t)
  PROVE  InCoherence'
<1> SUFFICES ASSUME NEW x \in Tags \ raced' PROVE CoherentAt(x)'
  BY DEF InCoherence
<1>1. /\ CoherentAt(x) /\ AloneAt(x) /\ \A y \in Tags \ {t} : Untouched(y)
      /\ \A d \in Caches : Copies(t)'[d] = Copies(t)[d]
  BY WriteHalfMissEffect DEF InCoherence, Alone
<1>2. CASE x = t
  <2>1. PICK e \in Fetches(c, t) :
          /\ Bus!IsExclusive(e.st)
          /\ \E new : Fetches(c, t)' = {new} /\ new.st = "M"
          /\ \A d \in Caches : Snoops(d, t)' = Snoops(d, t)
          /\ \A d \in Caches \ {c} : Fetches(d, t)' = Fetches(d, t)
    BY <1>2, WriteHalfMissEffect
  <2>2. Snoops(c, t) = {}
    BY <1>1, <1>2 DEF AloneAt
  <2>3. \A d \in Caches \ {c} : Becoming(d, t)' = Becoming(d, t)
    <3>1. \A d \in Caches \ {c} : OnItsWay(d, t)' = OnItsWay(d, t)
      BY <2>1 DEF OnItsWay
    <3> QED
      BY <1>1, <3>1 DEF Becoming
  <2>4. Becoming(c, t)' \subseteq {"M"}
    <3>1. PICK new : OnItsWay(c, t)' = {new} /\ new.st = "M"
      BY <2>1, <2>2 DEF OnItsWay
    <3> QED
      BY <3>1 DEF Becoming
  <2>5. e.st \in Becoming(c, t)
    BY DEF Becoming, OnItsWay
  <2> QED
    BY <1>1, <1>2, <2>1, <2>3, <2>4, <2>5, CoherentModify
<1> QED
  BY <1>1, <1>2, CoherentUntouched

LEMMA CoherentPerformUpdate ==
  ASSUME IInv, IInv', Alone, InCoherence, NEW c \in Caches, NEW e \in events[c],
         PerformUpdate(c, e)
  PROVE  InCoherence'
<1> SUFFICES ASSUME NEW x \in Tags \ raced' PROVE CoherentAt(x)'
  BY DEF InCoherence
<1>1. CoherentAt(x) /\ AloneAt(x) /\ e \in Fetches(c, e.tag) /\ TypeOK
  BY PerformUpdateEffect DEF InCoherence, Alone, IInv
<1>2. CASE x = e.tag
  <2>1. Arrived(c, e)
    BY <1>1, <1>2, PerformUpdateEffect DEF AloneAt
  <2>2. Becoming(c, x)' = {e.st}
    <3>1. OnItsWay(c, x)' = {}
      BY <1>1, <1>2, <2>1 DEF Arrived, AloneAt, OnItsWay
    <3> QED
      BY <1>2, <2>1, <3>1 DEF Arrived, Becoming
  <2>3. e.st \in Becoming(c, x)
    BY <1>1, <1>2 DEF Becoming, OnItsWay
  <2>4. \A d \in Caches \ {c} : Becoming(d, x)' = Becoming(d, x)
    <3>1. \A d \in Caches \ {c} : OnItsWay(d, x)' = OnItsWay(d, x)
      BY <1>2, <2>1 DEF Arrived, OnItsWay
    <3> QED
      BY <1>2, <2>1, <3>1 DEF Arrived, Becoming
  <2> QED
    BY <1>1, <2>2, <2>3, <2>4, CoherentShrink
<1>3. CASE x # e.tag /\ x = line[c][e.line].tag
  <2>1. Replaced(c, e, x)
    BY <1>3, PerformUpdateEffect
  <2>2. Becoming(c, x)' \subseteq Becoming(c, x) \union {"I"}
    <3>1. OnItsWay(c, x)' = OnItsWay(c, x) /\ Copies(x)'[c] = "I"
      BY <2>1 DEF Replaced, OnItsWay
    <3> QED
      BY <3>1 DEF Becoming
  <2>3. \A d \in Caches \ {c} : Becoming(d, x)' \subseteq Becoming(d, x) \union {"I"}
    BY <1>1, <2>1, BecomingNothing DEF Replaced
  <2> QED
    BY <1>1, <2>2, <2>3, CoherentShrink
<1> QED
  BY <1>1, <1>2, <1>3, CoherentUntouched, PerformUpdateEffect

LEMMA CoherentPerformInvalidate ==
  ASSUME IInv, IInv', Alone, Order, InCoherence, NEW c \in Caches, NEW f \in events[c],
         PerformInvalidate(c, f)
  PROVE  InCoherence'
<1> SUFFICES ASSUME NEW x \in Tags \ raced' PROVE CoherentAt(x)'
  BY DEF InCoherence
<1>1. CoherentAt(x) /\ f \in Snoops(c, f.tag) /\ TypeOK
  BY PerformInvalidateEffect DEF InCoherence, IInv
<1>2. CASE x = f.tag
  <2>1. Settles(c, f) /\ OnItsWay(c, x) = {f} /\ OnItsWay(c, x)' = {}
    BY <1>2, SettlesAlone
  <2>2. Becoming(c, x)' = Becoming(c, x)
    BY <1>2, <2>1 DEF Becoming, Settles
  <2>3. \A d \in Caches \ {c} : Becoming(d, x)' \subseteq Becoming(d, x) \union {"I"}
    BY <1>1, <1>2, <2>1, BecomingNothing DEF Settles
  <2> QED
    BY <1>1, <2>2, <2>3, CoherentShrink
<1>3. CASE x # f.tag
  <2>1. line[c][f.line].tag # f.tag => line[c][f.line].tag \in raced'
    BY PerformInvalidateEffect
  <2>2. Untouched(x)
    BY <1>3, <2>1, PerformInvalidateEffect
  <2> QED
    BY <1>1, <2>2, CoherentUntouched
<1> QED
  BY <1>2, <1>3

LEMMA CoherentStep ==
  ASSUME IInv, Alone, Order, InCoherence, [Next]_vars PROVE InCoherence'
<1>0. IInv' /\ TypeOK
  BY StepInv DEF IInv
<1> HIDE DEF Bus!States
<1>1. ASSUME NEW c \in Caches, NEW t \in Tags, ReadMiss(c, t) PROVE InCoherence'
  <2>1. Bus!Demote(protocol) \in Answers
        /\ Bus!ReadState(Copies(t), c) \in Bus!States
    BY AnswerTypes, NewStates
  <2>2. Fitting(Copies(t)) => Fitting(Answered(Copies(t), c,
          Bus!Demote(protocol), Bus!ReadState(Copies(t), c)))
    BY <1>0, CopiesType, ReadFits
  <2> QED
    BY <1>0, <1>1, <2>1, <2>2, CoherentMiss DEF ReadMiss
<1>2. ASSUME NEW c \in Caches, NEW t \in Tags, WriteMiss(c, t) PROVE InCoherence'
  <2>1. Bus!ReadXSnoop("I") \in Answers
        /\ Bus!ReadXState(Copies(t), c) \in Bus!States
    BY AnswerTypes, NewStates
  <2>2. Fitting(Copies(t)) /\ Copies(t)[c] = "I" => Fitting(Answered(Copies(t), c,
          Bus!ReadXSnoop("I"), Bus!ReadXState(Copies(t), c)))
    <3>1. ~Bus!IsExclusive("I")
      BY DEF Bus!IsExclusive
    <3> QED
      BY <1>0, <3>1, CopiesType, WriteFits
  <2> QED
    BY <1>0, <1>2, <2>1, <2>2, CoherentMiss DEF WriteMiss
<1>3. ASSUME NEW c \in Caches,
             \/ Tick(c) \/ (\E t \in Tags : ReadHit(c, t)) \/ UNCHANGED vars
      PROVE  InCoherence'
  BY <1>0, <1>3, IdleEffect, CoherentUntouched DEF InCoherence
<1>4. CASE UNCHANGED vars
  <2>1. \A t : Untouched(t)
    BY <1>4 DEF vars, Untouched, Fetches, Snoops, Updates, Invalidates, Found, Copies
  <2> QED
    BY <1>4, <2>1, CoherentUntouched DEF InCoherence, vars
<1> QED
  BY <1>0, <1>1, <1>2, <1>3, <1>4, CoherentWriteHit, CoherentWriteHalfMiss,
     CoherentPerformUpdate, CoherentPerformInvalidate DEF Next, Perform

LEMMA CoherentAlways == ASSUME SkewBelowLatency PROVE Spec => []InCoherence
<1>1. Init => InCoherence
  <2> SUFFICES ASSUME Init, NEW t \in Tags PROVE CoherentAt(t)
    BY DEF InCoherence
  <2>1. \A c \in Caches : Copies(t)[c] = "I"
    BY DEF Init, Copies, Found
  <2>2. \A c \in Caches : OnItsWay(c, t) = {}
    BY DEF Init, OnItsWay, Fetches, Snoops, Updates, Invalidates
  <2> QED
    BY <2>1, <2>2 DEF CoherentAt, Becoming, Fits, Bus!IsExclusive
<1>2. IInv /\ Alone /\ Order /\ InCoherence /\ [Next]_vars => InCoherence'
  BY CoherentStep
<1> QED
  BY <1>1, <1>2, Invariance, AloneAlways, OrderAlways, PTL DEF Spec

\* The protocols (mesi.cpp, moesi.cpp, futurebus) with deferred events
\* (cache_impl.h): for any caches, tags, ways and latencies a line that was not
\* asked for in a race is as coherent as while warming, in every interleaving of
\* the cores' accesses and of the events that are due.
THEOREM CachesCoherent ==
  ASSUME SkewBelowLatency PROVE Spec => []Coherent
<1>1. IInv /\ Alone /\ InCoherence => Coherent
  <2> SUFFICES ASSUME IInv, Alone, InCoherence, NEW t \in Tags \ raced,
                      NEW c \in Caches, NEW d \in Caches, c # d,
                      NEW s \in Settled(c, t), NEW u \in Settled(d, t)
               PROVE  Fits(s, u)
    BY DEF Coherent, Fits
  <2>1. ASSUME NEW x \in Caches, NEW v \in Settled(x, t)
        PROVE  v \in Becoming(x, t) \/ v = "I"
    <3>1. AloneAt(t)
      BY DEF Alone
    <3>2. CASE Snoops(x, t) = {}
      <4>1. v = Copies(t)[x]
        BY <2>1, <3>2 DEF Settled, Snoops
      <4> QED
        BY <3>1, <3>2, <4>1 DEF Becoming, OnItsWay, AloneAt
    <3>3. CASE Snoops(x, t) # {}
      <4>1. PICK f \in Snoops(x, t) : v = f.st
        BY <2>1, <3>3 DEF Settled, Snoops
      <4> QED
        BY <4>1 DEF Becoming, OnItsWay
    <3> QED
      BY <3>2, <3>3
  <2>2. (s \in Becoming(c, t) \/ s = "I") /\ (u \in Becoming(d, t) \/ u = "I")
    BY <2>1
  <2> QED
    BY <2>2 DEF InCoherence, CoherentAt, Fits, Bus!IsExclusive
<1> QED
  BY <1>1, Invariance, AloneAlways, CoherentAlways, PTL

-----------------------------------------------------------------------------
\* Writes

\* c has the last write to t, or gets it, and is not told to drop it.
Keeper(c, t) ==
  \/ \E e \in Fetches(c, t) : Bus!IsDirty(e.st)
  \/ /\ Bus!IsDirty(Copies(t)[c])
     /\ \A f \in Snoops(c, t) : f.st # "I"

\* A write to a copy that is exclusive needs no word with the bus, also when an
\* invalidation is on its way to it.
Doomed(t) ==
  \E c \in Caches : \E f \in Snoops(c, t) :
    f.st = "I" /\ Bus!IsExclusive(Copies(t)[c])

KeptAt(t) ==
  protocol = "MOESI" =>
    /\ t \in stale \/ Doomed(t) => \E c \in Caches : Keeper(c, t)
    /\ \A c \in Caches : \A f \in Snoops(c, t) : f.st \in {"I", "S", "O"}

InKeeping == \A t \in Tags \ raced : KeptAt(t)

Tame(to) == \A s \in Bus!Valid : to[s] \in {"I", "S", "O", "-"}

LEMMA TameAnswers ==
  /\ Tame(Bus!Demote(protocol)) /\ Tame(Bus!Kill)
  /\ \A s : Tame(Bus!ReadXSnoop(s))
BY DEF Tame, Bus!Demote, Bus!Kill, Bus!ReadXSnoop, Bus!Leave, Bus!Share

LEMMA ToldTame ==
  ASSUME TypeOK, NEW c \in Caches, NEW t \in Tags, NEW to, Tame(to), NEW time,
         NEW d \in Caches, NEW f \in Told(c, t, Copies(t), to, time)[d]
  PROVE  f.st \in {"I", "S", "O"} /\ f.st = to[Copies(t)[d]] /\ Copies(t)[d] \in Bus!Valid
<1>1. f.st = to[Copies(t)[d]] /\ d \in Bus!Snooped(Copies(t), c, to)
  BY ToldIs
<1>2. Copies(t)[d] \in Bus!States
  BY CopiesType
<1> QED
  BY <1>1, <1>2 DEF Bus!Snooped, Tame

LEMMA KeptUntouched ==
  ASSUME NEW t, KeptAt(t), Untouched(t), UNCHANGED protocol, t \in stale' => t \in stale
  PROVE  KeptAt(t)'
<1>1. Doomed(t)' => Doomed(t)
  BY DEF Doomed, Untouched
<1>2. \A c \in Caches : Keeper(c, t) => Keeper(c, t)'
  BY DEF Keeper, Untouched
<1> QED
  BY <1>1, <1>2 DEF KeptAt, Untouched

LEMMA KeptReadMiss ==
  ASSUME IInv, IInv', InKeeping, NEW c \in Caches, NEW t \in Tags, ReadMiss(c, t)
  PROVE  InKeeping'
<1> DEFINE to == Bus!Demote(protocol)
           st == Bus!ReadState(Copies(t), c)
<1>1. /\ to \in Answers /\ st \in Bus!States /\ Miss(c, t, to, st)
      /\ stale' = stale /\ TypeOK
  BY AnswerTypes, NewStates DEF ReadMiss, IInv
<1> SUFFICES ASSUME NEW x \in Tags \ raced' PROVE KeptAt(x)'
  BY DEF InKeeping
<1>2. PICK new : Missed(c, t, to, st, new)
  BY <1>1, MissEffect
<1>3. KeptAt(x) /\ (\A y \in Tags \ {t} : Untouched(y)) /\ UNCHANGED protocol
  BY <1>1, MissEffect DEF InKeeping
<1>4. ASSUME x = t, protocol = "MOESI" PROVE KeptAt(x)'
  <2>1. Called(c, t, to) /\ Copies(t)[c] = "I"
    BY <1>2 DEF Missed
  <2>2. \A d \in Caches : Fetches(d, t) = {} /\ Snoops(d, t) = {}
    BY <1>4, <2>1 DEF Called, OnItsWay
  <2>3. \A d \in Caches : \A f \in Snoops(d, t)' :
          f.st = to[Copies(t)[d]] /\ Copies(t)[d] \in Bus!Valid /\ f.st \in {"I", "S", "O"}
    BY <1>1, <2>1, <2>2, ToldTame, TameAnswers DEF Called
  <2>4. \A d \in Caches : \A f \in Snoops(d, t)' : f.st # "I"
    BY <2>3 DEF Bus!Demote
  <2>5. ASSUME t \in stale PROVE \E d \in Caches : Keeper(d, t)'
    <3>1. PICK d \in Caches : Bus!IsDirty(Copies(t)[d])
      BY <1>3, <1>4, <2>2, <2>5 DEF KeptAt, Keeper
    <3>2. d # c
      BY <2>1, <3>1 DEF Bus!IsDirty
    <3>3. Copies(t)'[d] = Copies(t)[d]
      BY <2>1, <3>2 DEF Called
    <3> QED
      BY <2>4, <3>1, <3>3 DEF Keeper
  <2>6. ~Doomed(t)'
    BY <2>4 DEF Doomed
  <2> QED
    BY <1>1, <1>4, <2>3, <2>5, <2>6 DEF KeptAt
<1>5. CASE protocol # "MOESI"
  BY <1>3, <1>5 DEF KeptAt
<1> QED
  BY <1>1, <1>3, <1>4, <1>5, KeptUntouched

LEMMA KeptWriteMiss ==
  ASSUME IInv, IInv', InKeeping, NEW c \in Caches, NEW t \in Tags, WriteMiss(c, t)
  PROVE  InKeeping'
<1> DEFINE to == Bus!ReadXSnoop("I")
           st == Bus!ReadXState(Copies(t), c)
<1>1. /\ to \in Answers /\ st \in Bus!States /\ Miss(c, t, to, st)
      /\ stale' = stale \union {t} /\ TypeOK
  BY AnswerTypes, NewStates DEF WriteMiss, IInv
<1> SUFFICES ASSUME NEW x \in Tags \ raced' PROVE KeptAt(x)'
  BY DEF InKeeping
<1>2. PICK new : Missed(c, t, to, st, new)
  BY <1>1, MissEffect
<1>3. KeptAt(x) /\ (\A y \in Tags \ {t} : Untouched(y)) /\ UNCHANGED protocol
  BY <1>1, MissEffect DEF InKeeping
<1>4. ASSUME x = t, protocol = "MOESI" PROVE KeptAt(x)'
  <2>1. Called(c, t, to) /\ new \in Fetches(c, t)' /\ new.st = st
    BY <1>2 DEF Missed
  <2>2. \A d \in Caches : \A f \in Snoops(d, t)' : f.st \in {"I", "S", "O"}
    BY <1>1, <1>4, <2>1, ToldTame, TameAnswers DEF Called, OnItsWay
  <2>3. st = "M"
    BY <1>4 DEF Bus!ReadXState
  <2>4. Keeper(c, t)'
    BY <2>1, <2>3 DEF Keeper, Bus!IsDirty
  <2> QED
    BY <1>4, <2>2, <2>4 DEF KeptAt
<1>5. CASE protocol # "MOESI"
  BY <1>3, <1>5 DEF KeptAt
<1> QED
  BY <1>1, <1>3, <1>4, <1>5, KeptUntouched

LEMMA KeptWriteHit ==
  ASSUME IInv, IInv', Alone, InKeeping, NEW c \in Caches, NEW t \in Tags, WriteHit(c, t)
  PROVE  InKeeping'
<1> SUFFICES ASSUME NEW x \in Tags \ raced' PROVE KeptAt(x)'
  BY DEF InKeeping
<1>1. /\ KeptAt(x) /\ AloneAt(x) /\ (\A y \in Tags \ {t} : Untouched(y))
      /\ UNCHANGED protocol /\ stale' = stale \union {t} /\ TypeOK
  BY WriteHitEffect DEF InKeeping, Alone, IInv
<1>2. ASSUME x = t, protocol = "MOESI" PROVE KeptAt(x)'
  <2>1. CASE /\ Bus!IsExclusive(Copies(t)[c]) /\ Copies(t)'[c] = "M"
             /\ \A d \in Caches :
                  /\ d # c => Copies(t)'[d] = Copies(t)[d]
                  /\ Fetches(d, t)' = Fetches(d, t) /\ Snoops(d, t)' = Snoops(d, t)
    <3>1. CASE \E f \in Snoops(c, t) : f.st = "I"
      <4>1. Doomed(t)
        BY <2>1, <3>1 DEF Doomed
      <4>2. PICK d \in Caches : Keeper(d, t)
        BY <1>1, <1>2, <4>1 DEF KeptAt
      <4>3. Fetches(c, t) = {}
        BY <1>1, <1>2, <2>1 DEF AloneAt, Bus!IsExclusive
      <4>4. d # c
        BY <3>1, <4>2, <4>3 DEF Keeper
      <4>5. Keeper(d, t)'
        BY <2>1, <4>2, <4>4 DEF Keeper
      <4> QED
        BY <1>1, <1>2, <2>1, <4>5 DEF KeptAt
    <3>2. CASE \A f \in Snoops(c, t) : f.st # "I"
      <4>1. Keeper(c, t)'
        BY <2>1, <3>2 DEF Keeper, Bus!IsDirty
      <4> QED
        BY <1>1, <1>2, <2>1, <4>1 DEF KeptAt
    <3> QED
      BY <3>1, <3>2
  <2>2. CASE /\ Called(c, t, Bus!ReadXSnoop(Copies(t)[c]))
             /\ Copies(t)'[c] = Bus!ReadXState(Copies(t), c)
    <3>1. \A d \in Caches : Snoops(d, t) = {}
      BY <1>2, <2>2 DEF Called, OnItsWay
    <3>2. \A d \in Caches : \A f \in Snoops(d, t)' : f.st \in {"I", "S", "O"}
      BY <1>1, <2>2, <3>1, ToldTame, TameAnswers DEF Called
    <3>3. Snoops(c, t)' = {}
      BY <2>2, <3>1, ToldOthers DEF Called
    <3>4. Copies(t)'[c] = "M"
      BY <1>2, <2>2 DEF Bus!ReadXState
    <3>5. Keeper(c, t)'
      BY <3>3, <3>4 DEF Keeper, Bus!IsDirty
    <3> QED
      BY <1>2, <3>2, <3>5 DEF KeptAt
  <2> QED
    BY <2>1, <2>2, WriteHitEffect
<1>3. CASE protocol # "MOESI"
  BY <1>1, <1>3 DEF KeptAt
<1> QED
  BY <1>1, <1>2, <1>3, KeptUntouched

LEMMA KeptWriteHalfMiss ==
  ASSUME IInv, IInv', InKeeping, NEW c \in Caches, NEW t \in Tags, WriteHalfMiss(c, t)
  PROVE  InKeeping'
<1> SUFFICES ASSUME NEW x \in Tags \ raced' PROVE KeptAt(x)'
  BY DEF InKeeping
<1>1. /\ KeptAt(x) /\ (\A y \in Tags \ {t} : Untouched(y))
      /\ UNCHANGED protocol /\ stale' = stale \union {t}
  BY WriteHalfMissEffect DEF InKeeping
<1>2. CASE x = t
  <2>1. /\ \E new \in Fetches(c, t)' : new.st = "M"
        /\ \A d \in Caches : Snoops(d, t)' = Snoops(d, t)
    BY <1>2, WriteHalfMissEffect
  <2>2. Keeper(c, t)'
    BY <2>1 DEF Keeper, Bus!IsDirty
  <2> QED
    BY <1>1, <1>2, <2>1, <2>2 DEF KeptAt
<1> QED
  BY <1>1, <1>2, KeptUntouched

\* c writes t back, and nothing is on its way for it: no other copy is exclusive.
LEMMA NoneDoomed ==
  ASSUME TypeOK, NEW t \in Tags, AloneAt(t), CoherentAt(t), NEW c \in Caches,
         NEW s \in Becoming(c, t), s # "I",
         \A d \in Caches \ {c} :
           Snoops(d, t) = {} /\ Copies(t)'[d] = Copies(t)[d],
         \A f \in Snoops(c, t)' : f.st = "I" => ~Bus!IsExclusive(Copies(t)'[c])
  PROVE  ~Doomed(t)'
<1> SUFFICES ASSUME NEW d \in Caches \ {c}, Bus!IsExclusive(Copies(t)[d]) PROVE FALSE
  BY DEF Doomed
<1>1. OnItsWay(d, t) = {}
  BY DEF AloneAt, OnItsWay, Bus!IsExclusive
<1>2. Copies(t)[d] \in Becoming(d, t)
  BY <1>1 DEF Becoming
<1> QED
  BY <1>2 DEF CoherentAt, Fits

LEMMA KeptPerformUpdate ==
  ASSUME IInv, IInv', Alone, Order, InCoherence, InKeeping, NEW c \in Caches,
         NEW e \in events[c], PerformUpdate(c, e)
  PROVE  InKeeping'
<1> SUFFICES ASSUME NEW x \in Tags \ raced' PROVE KeptAt(x)'
  BY DEF InKeeping
<1>1. /\ KeptAt(x) /\ AloneAt(x) /\ CoherentAt(x) /\ OrderAt(x) /\ TypeOK
      /\ e \in Fetches(c, e.tag) /\ e \in Updates(c)
      /\ UNCHANGED protocol /\ (x \in stale' => x \in stale)
      /\ \A u \in events[c] : e.when <= u.when
  BY PerformUpdateEffect DEF InKeeping, InCoherence, Alone, Order, IInv
<1>2. ASSUME x = e.tag PROVE KeptAt(x)'
  <2>1. Arrived(c, e) /\ Copies(x)[c] = "I"
    BY <1>1, <1>2, PerformUpdateEffect DEF AloneAt
  <2>2. Snoops(c, x) = {} /\ Fetches(c, x) = {e}
    BY <1>1, <1>2 DEF AloneAt, Fetches, IInv, Single
  <2>3. \A d \in Caches : Keeper(d, x) => Keeper(d, x)'
    <3> SUFFICES ASSUME NEW d \in Caches, Keeper(d, x) PROVE Keeper(d, x)'
      OBVIOUS
    <3>1. CASE d = c
      <4>1. Bus!IsDirty(e.st)
        BY <2>1, <2>2, <3>1 DEF Keeper, Bus!IsDirty
      <4> QED
        BY <1>2, <2>1, <2>2, <3>1, <4>1 DEF Keeper, Arrived
    <3>2. CASE d # c
      BY <1>2, <2>1, <3>2 DEF Keeper, Arrived
    <3> QED
      BY <3>1, <3>2
  <2>4. \A d \in Caches : Snoops(d, x)' = Snoops(d, x)
    BY <1>2, <2>1 DEF Arrived
  <2>5. Doomed(x)' => Doomed(x)
    BY <1>2, <2>1, <2>2, <2>4 DEF Doomed, Arrived
  <2> QED
    BY <1>1, <2>3, <2>4, <2>5 DEF KeptAt
<1>3. ASSUME x # e.tag, x = line[c][e.line].tag PROVE KeptAt(x)'
  <2>1. Replaced(c, e, x)
    BY <1>3, PerformUpdateEffect
  <2>2. CASE ~Bus!IsDirty(Copies(x)[c])
    <3>1. \A d \in Caches : Snoops(d, x)' = Snoops(d, x) /\ Fetches(d, x)' = Fetches(d, x)
      BY <2>1, <2>2 DEF Replaced
    <3>2. \A d \in Caches : Keeper(d, x) => Keeper(d, x)'
      BY <2>1, <2>2, <3>1 DEF Keeper, Replaced
    <3>3. Doomed(x)' => Doomed(x)
      BY <2>1, <3>1 DEF Doomed, Replaced, Bus!IsExclusive
    <3> QED
      BY <1>1, <3>1, <3>2, <3>3 DEF KeptAt
  <2>3. CASE Bus!IsDirty(Copies(x)[c])
    <3>1. /\ UpToDate(c, x, e.when) /\ stale' = stale \ {x}
          /\ \A d \in Caches \ {c} : Snoops(d, x)' =
               Snoops(d, x) \union Told(c, x, Copies(x), Bus!Kill, e.when)[d]
          /\ Snoops(c, x)' = Snoops(c, x) /\ Copies(x)'[c] = "I"
          /\ \A d \in Caches \ {c} : Copies(x)'[d] = Copies(x)[d]
      BY <2>1, <2>3 DEF Replaced
    <3>2. e \in Evictions(c, x) /\ e.when \in Nat
      BY <1>1, <2>1, EventTypes DEF Evictions, Replaced
    <3>3. \A d \in Caches : Snoops(d, x) = {}
      <4> SUFFICES ASSUME NEW d \in Caches, NEW f \in Snoops(d, x) PROVE FALSE
        OBVIOUS
      <4>1. f.when <= e.when /\ (d = c => f.when < e.when) /\ f.when \in Nat
        BY <1>1, <3>2, EventTypes DEF OrderAt, LaterAt
      <4>2. d # c => f.when > e.when
        BY <3>1 DEF UpToDate, Snoops, Invalidates
      <4>3. d = c => e.when <= f.when
        BY <1>1, EventTypes
      <4> QED
        BY <3>2, <4>1, <4>2, <4>3
    <3>4. Copies(x)[c] \in Becoming(c, x) /\ Copies(x)[c] # "I"
      BY <1>1, <2>3, <3>3 DEF Becoming, OnItsWay, AloneAt, Bus!IsDirty
    <3>5. ~Doomed(x)'
      BY <1>1, <3>1, <3>3, <3>4, NoneDoomed
    <3>6. \A d \in Caches : \A f \in Snoops(d, x)' : f.st \in {"I", "S", "O"}
      BY <1>1, <3>1, <3>3, ToldTame, TameAnswers
    <3> QED
      BY <3>1, <3>5, <3>6 DEF KeptAt
  <2> QED
    BY <2>2, <2>3
<1> QED
  BY <1>1, <1>2, <1>3, KeptUntouched, PerformUpdateEffect

LEMMA KeptPerformInvalidate ==
  ASSUME IInv, IInv', Alone, Order, InCoherence, InKeeping, NEW c \in Caches,
         NEW f \in events[c], PerformInvalidate(c, f)
  PROVE  InKeeping'
<1> SUFFICES ASSUME NEW x \in Tags \ raced' PROVE KeptAt(x)'
  BY DEF InKeeping
<1>1. /\ KeptAt(x) /\ AloneAt(x) /\ CoherentAt(x) /\ TypeOK
      /\ f \in Snoops(c, f.tag)
      /\ UNCHANGED protocol /\ (x \in stale' => x \in stale)
  BY PerformInvalidateEffect DEF InKeeping, InCoherence, Alone, IInv
<1>2. ASSUME x = f.tag, protocol = "MOESI" PROVE KeptAt(x)'
  <2>1. /\ Settles(c, f) /\ OnItsWay(c, x) = {f} /\ OnItsWay(c, x)' = {}
        /\ Bus!IsDirty(Copies(x)[c]) /\ f.st = "S" =>
             \A d \in Caches \ {c} : Snoops(d, x) = {}
    BY <1>2, SettlesAlone
  <2>2. /\ Snoops(c, x)' = {} /\ Fetches(c, x) = {} /\ Copies(x)'[c] = f.st
        /\ f.st \in {"I", "S", "O"}
        /\ \A d \in Caches \ {c} :
             Copies(x)'[d] = Copies(x)[d] /\ Fetches(d, x)' = Fetches(d, x)
    BY <1>1, <1>2, <2>1 DEF Settles, OnItsWay, AloneAt, KeptAt
  <2>3. CASE Bus!IsDirty(Copies(x)[c]) /\ f.st = "S"
    <3>1. /\ stale' = stale \ {x}
          /\ \A d \in Caches \ {c} : Snoops(d, x)' =
               Snoops(d, x) \union Told(c, x, Copies(x), Bus!Kill, f.when)[d]
      BY <1>2, <2>1, <2>3 DEF Settles
    <3>2. f.st \in Becoming(c, x)
      BY <2>1 DEF Becoming
    <3>3. ~Doomed(x)'
      BY <1>1, <2>1, <2>2, <2>3, <3>2, NoneDoomed
    <3>4. \A d \in Caches : \A g \in Snoops(d, x)' : g.st \in {"I", "S", "O"}
      BY <1>1, <2>1, <2>2, <2>3, <3>1, ToldTame, TameAnswers
    <3> QED
      BY <3>1, <3>3, <3>4 DEF KeptAt
  <2>4. CASE ~(Bus!IsDirty(Copies(x)[c]) /\ f.st = "S")
    <3>1. \A d \in Caches \ {c} : Snoops(d, x)' = Snoops(d, x)
      BY <1>2, <2>1, <2>4 DEF Settles
    <3>2. \A d \in Caches : Keeper(d, x) => Keeper(d, x)'
      <4> SUFFICES ASSUME NEW d \in Caches, Keeper(d, x) PROVE Keeper(d, x)'
        OBVIOUS
      <4>1. CASE d = c
        <5>1. Bus!IsDirty(Copies(x)[c]) /\ f.st # "I"
          BY <1>1, <1>2, <2>2, <4>1 DEF Keeper
        <5>2. f.st = "O"
          BY <2>2, <2>4, <5>1
        <5> QED
          BY <2>2, <4>1, <5>2 DEF Keeper, Bus!IsDirty
      <4>2. CASE d # c
        BY <2>2, <3>1, <4>2 DEF Keeper
      <4> QED
        BY <4>1, <4>2
    <3>3. Doomed(x)' => Doomed(x)
      BY <2>2, <3>1 DEF Doomed
    <3> QED
      BY <1>1, <2>2, <3>1, <3>2, <3>3 DEF KeptAt
  <2> QED
    BY <2>3, <2>4
<1>3. CASE x # f.tag
  <2>1. line[c][f.line].tag # f.tag => line[c][f.line].tag \in raced'
    BY PerformInvalidateEffect
  <2>2. Untouched(x)
    BY <1>3, <2>1, PerformInvalidateEffect
  <2> QED
    BY <1>1, <2>2, KeptUntouched
<1>4. CASE protocol # "MOESI"
  BY <1>1, <1>4 DEF KeptAt
<1> QED
  BY <1>2, <1>3, <1>4

LEMMA KeptStep ==
  ASSUME IInv, Alone, Order, InCoherence, InKeeping, [Next]_vars PROVE InKeeping'
<1>0. IInv'
  BY StepInv
<1>1. ASSUME NEW c \in Caches,
             \/ Tick(c) \/ (\E t \in Tags : ReadHit(c, t)) \/ UNCHANGED vars
      PROVE  InKeeping'
  BY <1>0, <1>1, IdleEffect, KeptUntouched DEF InKeeping
<1>2. CASE UNCHANGED vars
  <2>1. \A t : Untouched(t)
    BY <1>2 DEF vars, Untouched, Fetches, Snoops, Updates, Invalidates, Found, Copies
  <2> QED
    BY <1>2, <2>1, KeptUntouched DEF InKeeping, vars
<1> QED
  BY <1>0, <1>1, <1>2, KeptReadMiss, KeptWriteMiss, KeptWriteHit, KeptWriteHalfMiss,
     KeptPerformUpdate, KeptPerformInvalidate DEF Next, Perform

\* MOESI (moesi.cpp) with deferred events: while the main memory is out of date
\* some cache has the write or gets it, for any caches, ways and latencies.  A
\* write that needs no word with the bus counts too, in a cache that has an
\* invalidation on its way.
THEOREM WritesAreKept ==
  ASSUME SkewBelowLatency PROVE Spec => []DirtyKept
<1>1. Init => InKeeping
  <2>1. Init => stale = {} /\ \A t : ~Doomed(t)
    BY DEF Init, Doomed, Snoops, Invalidates
  <2>2. Init => \A c \in Caches, t \in Tags : Snoops(c, t) = {}
    BY DEF Init, Snoops, Invalidates
  <2> QED
    BY <2>1, <2>2 DEF InKeeping, KeptAt
<1>2. IInv /\ Alone /\ Order /\ InCoherence /\ InKeeping /\ [Next]_vars => InKeeping'
  BY KeptStep
<1>3. IInv /\ InKeeping => DirtyKept
  <2> SUFFICES ASSUME IInv, InKeeping, protocol = "MOESI", NEW t \in stale \ raced
               PROVE  \E c \in Caches :
                        \/ Bus!IsDirty(Copies(t)[c])
                        \/ \E e \in Updates(c) : e.tag = t /\ Bus!IsDirty(e.st)
    BY DEF DirtyKept
  <2>1. t \in Tags
    BY DEF IInv, TypeOK
  <2>2. PICK c \in Caches : Keeper(c, t)
    BY <2>1 DEF InKeeping, KeptAt
  <2> QED
    BY <2>2 DEF Keeper, Fetches
<1> QED
  BY <1>1, <1>2, <1>3, Invariance, AloneAlways, OrderAlways, CoherentAlways, PTL DEF Spec

=============================================================================
