------------------------- MODULE PlaybackLink_proofs -------------------------
(***************************************************************************)
(* Proofs about PlaybackLink, for any outputs, half batches and readings,  *)
(* any width of the token and any limits.                                  *)
(*                                                                         *)
(* An interrupt does to each lane one of a few things, so the invariants   *)
(* are about one lane at a time: Sound relates an engine to what its guard *)
(* has of it, and OnTime to the frame being built, when the DAC keeps up.  *)
(***************************************************************************)
EXTENDS PlaybackLink, TLAPS

-----------------------------------------------------------------------------
(* One lane: an engine e and its guard g.                                  *)

Silent(g) == g.shows = Nothing /\ g.staged = Nothing

LastCommand(e) == [token |-> e.token, value |-> e.last]

Answers(e, g) ==
    /\ g.staged \in {Nothing, LastCommand(e)}
    /\ g.staged # Nothing => ~Acks(g, e.token)
    /\ Acks(g, e.token) => g.shows = LastCommand(e)
    /\ ~e.pending => g.fault \/ (g.shows = LastCommand(e) /\ g.staged = Nothing)

Sound(e, g) ==
    /\ ~e.active => Silent(g)
    /\ g.fault => Silent(g)
    /\ e.active /\ e.last = Nothing => Silent(g) /\ ~e.pending
    /\ e.active /\ e.last # Nothing => Answers(e, g)

\* A tick keeps the types of its lane.
LEMMA TickTypes ==
    ASSUME NEW e \in Engine, NEW g \in Guard, NEW s \in Values \union {Nothing},
           NEW bad \in BOOLEAN
    PROVE  Ticked(e, g, s, bad) \in Engine /\ Commanded(e, g, s, bad) \in Guard
<1>1. NextToken(e) \in Tokens
  BY LinkAssumption DEF NextToken, Engine
<1>2. CASE Fails(e, g, s, bad)
  BY <1>2 DEF Ticked, Commanded, Stopped, Started, Disabled, Engine, Guard
<1>3. CASE Sends(e, g, s, bad)
  <2>1. s \in Values /\ Told(e, s) \in Command /\ ~Fails(e, g, s, bad)
    BY <1>1, <1>3 DEF Sends, NothingNew, Told, Command
  <2>2. Written(g, Told(e, s), commit) \in Guard
    BY <2>1 DEF Written, Guard
  <2> QED
    BY <1>1, <1>3, <2>1, <2>2 DEF Ticked, Commanded, Engine
<1>4. CASE ~Fails(e, g, s, bad) /\ ~Sends(e, g, s, bad)
  BY <1>4 DEF Ticked, Commanded, Engine, Waits, Acks
<1> QED
  BY <1>2, <1>3, <1>4 DEF Sends

\* A lane that is stopped, started or disabled is sound.
LEMMA DisabledIsSound ==
    ASSUME NEW e \in Engine
    PROVE  Sound(Stopped(e), Disabled) /\ Sound(Started(e), Disabled)
BY DEF Sound, Stopped, Started, Disabled, Silent, Engine

\* A token is never the next one.
LEMMA TokensDiffer ==
    ASSUME NEW e \in Engine
    PROVE  NextToken(e) # e.token
BY LinkAssumption DEF NextToken, Engine

\* A tick keeps its lane sound, whether or not the frame is frozen.
LEMMA TickIsSound ==
    ASSUME NEW e \in Engine, NEW g \in Guard, NEW s \in Values \union {Nothing},
           NEW bad \in BOOLEAN, e.active, Sound(e, g)
    PROVE  Sound(Ticked(e, g, s, bad), Commanded(e, g, s, bad))
<1>1. CASE Fails(e, g, s, bad)
  BY <1>1, DisabledIsSound DEF Ticked, Commanded
<1>2. CASE Sends(e, g, s, bad)
  <2> DEFINE e2 == Ticked(e, g, s, bad)
             g2 == Commanded(e, g, s, bad)
  <2>1. /\ e2 = [e EXCEPT !.token = NextToken(e), !.pending = TRUE, !.last = s,
                          !.seen = TRUE, !.quiet = 0]
        /\ g2 = Written(g, Told(e, s), commit)
        /\ s \in Values /\ s # Nothing /\ ~g.fault
    BY <1>2, NothingAssumption DEF Sends, Fails, NothingNew, Ticked, Commanded
  <2>2. /\ e2.active /\ e2.last = s /\ e2.pending /\ e2.token = NextToken(e)
        /\ g2.shows = g.shows /\ ~g2.fault
        /\ g2.staged \in {g.staged, LastCommand(e2)}
    BY <2>1 DEF Engine, Written, Guard, Told, LastCommand
  <2>3. g.staged = Nothing
    BY <1>2 DEF Sends, Waits, Sound, Answers, Silent
  <2>4. ~Acks(g, NextToken(e))
    <3>1. CASE e.last = Nothing
      BY <3>1 DEF Sound, Silent, Acks
    <3>2. CASE e.last # Nothing
      <4>1. g.shows = LastCommand(e)
        BY <1>2, <2>1, <3>2 DEF Sends, Waits, Sound, Answers
      <4> QED
        BY <4>1, TokensDiffer DEF Acks, LastCommand
    <3> QED
      BY <3>1, <3>2
  <2>5. ~Acks(g2, e2.token)
    BY <2>2, <2>4 DEF Acks
  <2> QED
    BY <2>1, <2>2, <2>3, <2>5 DEF Sound, Answers
<1>3. CASE ~Fails(e, g, s, bad) /\ ~Sends(e, g, s, bad)
  <2>1. Ticked(e, g, s, bad) = [e EXCEPT !.pending = Waits(e, g)]
        /\ Commanded(e, g, s, bad) = g
    BY <1>3 DEF Ticked, Commanded
  <2> QED
    BY <2>1 DEF Sound, Answers, Waits, Engine, LastCommand, Silent
<1> QED
  BY <1>1, <1>2, <1>3 DEF Sends

\* Growing older, and a new reading, say nothing about the lane.
LEMMA AgeIsSound ==
    ASSUME NEW e \in Engine, NEW g \in Guard, NEW q \in Nat, NEW b \in BOOLEAN,
           Sound(e, g)
    PROVE  Sound([e EXCEPT !.quiet = q, !.seen = b], g)
BY DEF Sound, Answers, LastCommand, Engine

\* The DAC and the watchdog keep a lane sound.
LEMMA GatewareIsSound ==
    ASSUME NEW e \in Engine, NEW g \in Guard, Sound(e, g)
    PROVE  /\ Sound(e, Sampled(g)) /\ Sampled(g) \in Guard
           /\ Sound(e, Tripped) /\ Tripped \in Guard
<1>1. Tripped \in Guard /\ Sampled(g) \in Guard
  BY DEF Tripped, Sampled, Disabled, Guard
<1>2. Sound(e, Tripped)
  BY DEF Sound, Answers, Silent, Tripped, Disabled, Acks
<1>3. CASE g.staged = Nothing
  BY <1>1, <1>2, <1>3 DEF Sampled
<1>4. CASE g.staged # Nothing
  <2>1. /\ Sampled(g).shows = g.staged /\ Sampled(g).staged = Nothing
        /\ ~Sampled(g).fault
    BY <1>4 DEF Sampled, Disabled
  <2>2. e.active /\ e.last # Nothing /\ g.staged = LastCommand(e)
    BY <1>4 DEF Sound, Answers, Silent
  <2> QED
    BY <1>1, <1>2, <2>1, <2>2 DEF Sound, Answers
<1> QED
  BY <1>3, <1>4

-----------------------------------------------------------------------------
(* The interrupt, lane by lane.                                            *)

Ticks(n) == n \in Batch /\ engine[n].active

EngineAfter(n, s, fresh, bad) ==
    IF Ticks(n) THEN Ticked(Aged(fresh)[n], lane[n], s, n \in bad)
    ELSE Aged(fresh)[n]

LaneAfter(n, s, fresh, bad) ==
    IF Ticks(n) THEN Commanded(Aged(fresh)[n], lane[n], s, n \in bad)
    ELSE lane[n]

\* What an interrupt does to the frame: a commit ends it.
LEMMA InterruptFrame ==
    ASSUME TypeOK, NEW s \in Values \union {Nothing}, NEW fresh \in BOOLEAN,
           NEW bad \in SUBSET Batch, Interrupt(s, fresh, bad)
    PROVE  /\ commit' \in BOOLEAN /\ phase' \in {0, 1 - phase} /\ phase' \in {0, 1}
           /\ others' \in BOOLEAN
           /\ commit' => commit \/ phase' = 0
<1>1. CASE Service(s, fresh, bad) /\ phase' = 1 - phase /\ UNCHANGED others
  <2>1. commit' = (commit \/ phase = 1)
    BY <1>1 DEF Service, CommitsFrame
  <2>2. CASE phase = 0
    BY <1>1, <2>1, <2>2 DEF TypeOK
  <2>3. CASE phase = 1
    BY <1>1, <2>1, <2>3 DEF TypeOK
  <2> QED
    BY <2>2, <2>3 DEF TypeOK
<1>2. CASE StopAll(FALSE)
  BY <1>2 DEF StopAll, TypeOK
<1>3. CASE phase = 1 /\ StopAll(TRUE)
  BY <1>3 DEF StopAll, TypeOK
<1> QED
  BY <1>1, <1>2, <1>3 DEF Interrupt

\* An interrupt services the lanes of its half or stops the group.
LEMMA InterruptKinds ==
    ASSUME TypeOK, NEW s \in Values \union {Nothing}, NEW fresh \in BOOLEAN,
           NEW bad \in SUBSET Batch, Interrupt(s, fresh, bad)
    PROVE  \/ StopGroup
           \/ /\ engine' = [n \in Lanes |-> EngineAfter(n, s, fresh, bad)]
              /\ lane' = [n \in Lanes |-> LaneAfter(n, s, fresh, bad)]
              /\ Playing => \A n \in Lanes : EngineAfter(n, s, fresh, bad).active
              /\ commit' = (commit \/ phase = 1)
              /\ phase' = 1 - phase
<1>1. CASE StopAll(FALSE) \/ StopAll(TRUE)
  BY <1>1 DEF StopAll
<1>2. CASE Service(s, fresh, bad) /\ phase' = 1 - phase
  <2>1. /\ IF Playing /\ \E n \in Lanes : ~EngineAfter(n, s, fresh, bad).active
             THEN StopGroup
             ELSE /\ engine' = [n \in Lanes |-> EngineAfter(n, s, fresh, bad)]
                  /\ lane' = [n \in Lanes |-> LaneAfter(n, s, fresh, bad)]
        /\ commit' = (commit \/ phase = 1)
    BY <1>2 DEF Service, EngineAfter, LaneAfter, Ticks, CommitsFrame
  <2>2. CASE Playing /\ \E n \in Lanes : ~EngineAfter(n, s, fresh, bad).active
    BY <2>1, <2>2
  <2>3. CASE ~(Playing /\ \E n \in Lanes : ~EngineAfter(n, s, fresh, bad).active)
    <3>1. Playing => \A n \in Lanes : EngineAfter(n, s, fresh, bad).active
      BY <2>3
    <3>2. /\ engine' = [n \in Lanes |-> EngineAfter(n, s, fresh, bad)]
          /\ lane' = [n \in Lanes |-> LaneAfter(n, s, fresh, bad)]
      BY <2>1, <2>3
    <3> QED
      BY <1>2, <2>1, <3>1, <3>2
  <2> QED
    BY <2>2, <2>3
<1> QED
  BY <1>1, <1>2 DEF Interrupt

\* Ages stay natural numbers.
LEMMA OlderType ==
    ASSUME NEW age \in Nat
    PROVE  Older(age) \in Nat
BY DEF Older

\* The engines keep their types at the new now, and their lanes stay sound.
LEMMA AgedLane ==
    ASSUME TypeOK, NEW fresh \in BOOLEAN, NEW n \in Lanes
    PROVE  /\ Aged(fresh)[n] \in Engine
           /\ Aged(fresh)[n].active = engine[n].active
           /\ Sound(engine[n], lane[n]) => Sound(Aged(fresh)[n], lane[n])
<1> DEFINE e == engine[n]
           q == Older(e.quiet)
           b == e.seen /\ ~fresh
<1>1. e \in Engine /\ lane[n] \in Guard /\ q \in Nat /\ b \in BOOLEAN
  BY OlderType DEF TypeOK, Engine
<1>2. Aged(fresh)[n] = IF ~e.active THEN e
                       ELSE [e EXCEPT !.quiet = q, !.seen = b]
  BY DEF Aged
<1>3. [e EXCEPT !.quiet = q, !.seen = b] \in Engine
  BY <1>1 DEF Engine
<1>4. [e EXCEPT !.quiet = q, !.seen = b].active = e.active
  BY <1>1 DEF Engine
<1> HIDE DEF e, q, b
<1>5. Sound(e, lane[n]) => Sound([e EXCEPT !.quiet = q, !.seen = b], lane[n])
  BY <1>1, AgeIsSound
<1> QED
  BY <1>1, <1>2, <1>3, <1>4, <1>5 DEF e

\* What a serviced or resting lane is after the interrupt.
LEMMA ServicedLane ==
    ASSUME TypeOK, NEW s \in Values \union {Nothing}, NEW fresh \in BOOLEAN,
           NEW bad \in SUBSET Batch, NEW n \in Lanes
    PROVE  /\ EngineAfter(n, s, fresh, bad) \in Engine
           /\ LaneAfter(n, s, fresh, bad) \in Guard
           /\ Sound(engine[n], lane[n]) =>
                  Sound(EngineAfter(n, s, fresh, bad), LaneAfter(n, s, fresh, bad))
<1> DEFINE e == Aged(fresh)[n]
<1>1. /\ e \in Engine /\ lane[n] \in Guard
      /\ e.active = engine[n].active
      /\ Sound(engine[n], lane[n]) => Sound(e, lane[n])
      /\ (n \in bad) \in BOOLEAN
  BY AgedLane DEF TypeOK
<1> HIDE DEF e
<1>2. CASE Ticks(n)
  <2>1. /\ EngineAfter(n, s, fresh, bad) = Ticked(e, lane[n], s, n \in bad)
        /\ LaneAfter(n, s, fresh, bad) = Commanded(e, lane[n], s, n \in bad)
    BY <1>2 DEF EngineAfter, LaneAfter, e
  <2>2. e.active
    BY <1>1, <1>2 DEF Ticks
  <2> QED
    BY <1>1, <2>1, <2>2, TickTypes, TickIsSound
<1>3. CASE ~Ticks(n)
  BY <1>1, <1>3 DEF EngineAfter, LaneAfter, e
<1> QED
  BY <1>2, <1>3

\* Stopping, starting and disabling keep the types.
LEMMA StopTypes ==
    /\ Disabled \in Guard
    /\ \A e \in Engine : Stopped(e) \in Engine /\ Started(e) \in Engine
BY DEF Disabled, Guard, Stopped, Started, Engine

\* Stopping the group keeps the types and leaves every lane sound.
LEMMA StopGroupIsSound ==
    ASSUME TypeOK, StopGroup
    PROVE  /\ engine' \in [Lanes -> Engine] /\ lane' \in [Lanes -> Guard]
           /\ \A n \in Lanes : Sound(engine'[n], lane'[n])
BY StopTypes, DisabledIsSound DEF TypeOK, StopGroup

AllSound == \A n \in Lanes : Sound(engine[n], lane[n])

\* Initially nothing plays.
LEMMA InitSound ==
    Init => TypeOK /\ AllSound
<1> SUFFICES ASSUME Init
             PROVE  TypeOK /\ AllSound
  OBVIOUS
<1>1. 0 \in Tokens
  BY LinkAssumption
<1>2. TypeOK
  BY <1>1, StopTypes DEF Init, TypeOK, Engine
<1>3. AllSound
  BY DEF Init, AllSound, Sound, Silent, Disabled
<1> QED
  BY <1>2, <1>3

\* Every step of an interrupt keeps the types and the soundness of every lane.
LEMMA InterruptSound ==
    ASSUME TypeOK, AllSound, NEW s \in Values \union {Nothing},
           NEW fresh \in BOOLEAN, NEW bad \in SUBSET Batch,
           Interrupt(s, fresh, bad)
    PROVE  TypeOK' /\ AllSound'
<1>1. commit' \in BOOLEAN /\ phase' \in {0, 1} /\ others' \in BOOLEAN
  BY InterruptFrame
<1>2. snap' \in Values \union {Nothing}
  BY DEF Interrupt
<1>3. CASE StopGroup
  BY <1>1, <1>2, <1>3, StopGroupIsSound DEF TypeOK, AllSound
<1>4. CASE /\ engine' = [n \in Lanes |-> EngineAfter(n, s, fresh, bad)]
           /\ lane' = [n \in Lanes |-> LaneAfter(n, s, fresh, bad)]
  <2>1. \A n \in Lanes : /\ engine'[n] \in Engine /\ lane'[n] \in Guard
                          /\ Sound(engine'[n], lane'[n])
    BY <1>4, ServicedLane DEF AllSound
  <2>2. engine' \in [Lanes -> Engine] /\ lane' \in [Lanes -> Guard]
    BY <1>4, <2>1
  <2> QED
    BY <1>1, <1>2, <2>1, <2>2 DEF TypeOK, AllSound
<1> QED
  BY <1>3, <1>4, InterruptKinds

\* So does every other step.
LEMMA NextSound ==
    TypeOK /\ AllSound /\ [Next]_vars => TypeOK' /\ AllSound'
<1> SUFFICES ASSUME TypeOK, AllSound, [Next]_vars
             PROVE  TypeOK' /\ AllSound'
  OBVIOUS
<1>1. CASE Interrupts
  BY <1>1, InterruptSound DEF Interrupts
<1>2. CASE Gap \/ Stop
  BY <1>2, StopGroupIsSound DEF Gap, Stop, StopAll, TypeOK, AllSound
<1>3. CASE Start
  <2>1. /\ engine' \in [Lanes -> Engine] /\ lane' \in [Lanes -> Guard]
        /\ \A n \in Lanes : Sound(engine'[n], lane'[n])
    BY <1>3, StopTypes, DisabledIsSound DEF Start, TypeOK
  <2> QED
    BY <1>3, <2>1 DEF Start, PhaseAtStart, TypeOK, AllSound
<1>4. CASE OthersStart \/ OthersStop
  BY <1>4 DEF OthersStart, OthersStop, PhaseAtStart, TypeOK, AllSound
<1>5. CASE DacSample
  <2>1. \A n \in Lanes : Sampled(lane[n]) \in Guard /\ Sound(engine[n], Sampled(lane[n]))
    BY GatewareIsSound DEF TypeOK, AllSound
  <2> QED
    BY <1>5, <2>1 DEF DacSample, TypeOK, AllSound
<1>6. CASE \E n \in Lanes : Watchdog(n)
  <2>1. \A n \in Lanes : Tripped \in Guard /\ Sound(engine[n], Tripped)
    BY GatewareIsSound DEF TypeOK, AllSound
  <2> QED
    BY <1>6, <2>1 DEF Watchdog, TypeOK, AllSound
<1>7. CASE UNCHANGED vars
  BY <1>7 DEF vars, TypeOK, AllSound
<1> QED
  BY <1>1, <1>2, <1>3, <1>4, <1>5, <1>6, <1>7 DEF Next

\* Every reachable state has its types and only sound lanes.
LEMMA SoundAlways == Spec => [](TypeOK /\ AllSound)
BY InitSound, NextSound, PTL DEF Spec

\* Every variable keeps its type; a token always fits its field.
THEOREM TypeCorrect == Spec => []TypeOK
BY SoundAlways, PTL

\* Whatever the DAC and the watchdog do, an engine that takes its last command
\* for shown is right, for every width of the token (Engine::tick, the status
\* compared with the pending token).
THEOREM Confirmation == Spec => []ConfirmedIsShown
<1>1. TypeOK /\ AllSound => ConfirmedIsShown
  BY DEF AllSound, ConfirmedIsShown, Sound, Answers, LastCommand
<1> QED
  BY <1>1, SoundAlways, PTL

-----------------------------------------------------------------------------
(* When the DAC keeps up: what a lane has of the frame being built.        *)

\* Staged is the snapshot and waits for the commit; shown is the snapshot too,
\* unless it is not this lane's turn yet; an answer is missing only while the
\* command is staged; and a lane is never older than its next turn allows.
Current(n) ==
    LET e == engine[n]
        g == lane[n]
    IN /\ g.staged # Nothing =>
             /\ g.staged.value = snap /\ e.seen
             /\ commit \/ (phase = 1 /\ n \in FirstBatch)
       /\ g.shows # Nothing =>
             /\ snap # Nothing
             /\ e.seen /\ g.staged = Nothing => g.shows.value = snap
             /\ ~e.seen => phase = 1 /\ n \notin FirstBatch
       /\ e.active /\ e.pending /\ g.staged = Nothing /\ ~g.fault =>
             Acks(g, e.token)
       /\ ~Silent(g) =>
             /\ e.quiet <= StaleAfter
             /\ n \notin Batch => e.quiet < StaleAfter

FrameInv ==
    /\ commit => phase = 0
    /\ \A n \in Lanes : Current(n)
    /\ GroupIsCoherent

\* A tick never changes what a lane shows, unless it disables the lane.
LEMMA TickShows ==
    ASSUME NEW e \in Engine, NEW g \in Guard, NEW s, NEW bad
    PROVE  Commanded(e, g, s, bad).shows \in {g.shows, Nothing}
BY DEF Commanded, Disabled, Written, Guard

\* Nor does the rest of the interrupt.
LEMMA InterruptShows ==
    ASSUME TypeOK, NEW s \in Values \union {Nothing}, NEW fresh \in BOOLEAN,
           NEW bad \in SUBSET Batch, Interrupt(s, fresh, bad)
    PROVE  \A n \in Lanes : lane'[n].shows \in {lane[n].shows, Nothing}
<1>1. CASE StopGroup
  BY <1>1 DEF StopGroup, Disabled
<1>2. CASE lane' = [n \in Lanes |-> LaneAfter(n, s, fresh, bad)]
  <2> SUFFICES ASSUME NEW n \in Lanes
               PROVE  lane'[n].shows \in {lane[n].shows, Nothing}
    OBVIOUS
  <2>1. Aged(fresh)[n] \in Engine /\ lane[n] \in Guard
    BY AgedLane DEF TypeOK
  <2>2. LaneAfter(n, s, fresh, bad).shows \in {lane[n].shows, Nothing}
    BY <2>1, TickShows DEF LaneAfter
  <2> QED
    BY <1>2, <2>2
<1> QED
  BY <1>1, <1>2, InterruptKinds

\* So what agreed goes on to agree.
LEMMA CoherenceKept ==
    ASSUME GroupIsCoherent,
           \A n \in Lanes : lane'[n].shows \in {lane[n].shows, Nothing}
    PROVE  GroupIsCoherent'
BY DEF GroupIsCoherent, Drives, Shown

\* A stopped or started group has nothing in the frame.
LEMMA SilentIsCurrent ==
    ASSUME NEW n, Silent(lane'[n]), ~engine'[n].active \/ ~engine'[n].pending
    PROVE  Current(n)'
BY DEF Current, Silent

\* An age that is below the limit is at most the limit in the next interrupt.
LEMMA OlderBound ==
    ASSUME NEW age \in Nat, age < StaleAfter
    PROVE  Older(age) <= StaleAfter
BY LinkAssumption DEF Older, Exceeds

\* What the lane's engine is at the new now.
LEMMA AgedFields ==
    ASSUME TypeOK, NEW fresh \in BOOLEAN, NEW n \in Lanes, engine[n].active
    PROVE  /\ Aged(fresh)[n].active
           /\ Aged(fresh)[n].token = engine[n].token
           /\ Aged(fresh)[n].pending = engine[n].pending
           /\ Aged(fresh)[n].last = engine[n].last
           /\ Aged(fresh)[n].seen = (engine[n].seen /\ ~fresh)
           /\ Aged(fresh)[n].quiet = Older(engine[n].quiet)
BY DEF Aged, TypeOK, Engine

\* The reading of an interrupt that completes its half batch in time.
Serviced(s, fresh) ==
    /\ ~commit
    /\ fresh => phase = 0 /\ s # Nothing
    /\ ~fresh => s = snap
    /\ snap' = s
    /\ phase' = 1 - phase
    /\ commit' <=> phase = 1

\* Half batches alternate.
LEMMA BatchAlternates ==
    ASSUME TypeOK, phase' = 1 - phase, NEW n \in Lanes
    PROVE  (n \in Batch') = (n \notin Batch)
BY DEF Batch, TypeOK

\* A lane whose turn it is not.
LEMMA RestingIsCurrent ==
    ASSUME TypeOK, NEW s, NEW fresh \in BOOLEAN, Serviced(s, fresh),
           NEW n \in Lanes, Current(n), engine[n].active, n \notin Batch,
           engine'[n] = Aged(fresh)[n], lane'[n] = lane[n]
    PROVE  Current(n)'
<1> DEFINE e == engine[n]
           f == engine'[n]
           g == lane[n]
<1>1. /\ f.active /\ f.token = e.token /\ f.pending = e.pending
      /\ f.seen = (e.seen /\ ~fresh) /\ f.quiet = Older(e.quiet)
  BY AgedFields
<1>2. e.quiet \in Nat /\ e.seen \in BOOLEAN /\ phase \in {0, 1}
  BY DEF TypeOK, Engine
<1>3. g.staged # Nothing =>
        /\ g.staged.value = snap' /\ f.seen
        /\ commit' \/ (phase' = 1 /\ n \in FirstBatch)
  BY <1>1, <1>2 DEF Current, Serviced
<1>4. g.shows # Nothing =>
        /\ snap' # Nothing
        /\ f.seen /\ g.staged = Nothing => g.shows.value = snap'
        /\ ~f.seen => phase' = 1 /\ n \notin FirstBatch
  <2>1. CASE fresh
    <3>1. phase = 0 /\ phase' = 1 /\ snap' # Nothing
      BY <2>1 DEF Serviced
    <3>2. ~f.seen
      BY <1>1, <2>1
    <3>3. n \notin FirstBatch
      BY <3>1 DEF Batch
    <3> QED
      BY <3>1, <3>2, <3>3
  <2>2. CASE ~fresh
    <3>1. snap' = snap /\ (f.seen <=> e.seen)
      BY <1>1, <1>2, <2>2 DEF Serviced
    <3>2. ~(phase = 1 /\ n \notin FirstBatch)
      BY DEF Batch
    <3> QED
      BY <3>1, <3>2 DEF Current
  <2> QED
    BY <2>1, <2>2
<1>5. f.active /\ f.pending /\ g.staged = Nothing /\ ~g.fault => Acks(g, f.token)
  BY <1>1 DEF Current
<1>6. ~Silent(g) =>
        /\ f.quiet <= StaleAfter
        /\ n \notin Batch' => f.quiet < StaleAfter
  <2>1. n \in Batch'
    BY BatchAlternates DEF Serviced
  <2>2. ~Silent(g) => e.quiet < StaleAfter
    BY DEF Current
  <2> QED
    BY <1>1, <1>2, <2>1, <2>2, OlderBound
<1> QED
  BY <1>3, <1>4, <1>5, <1>6 DEF Current

\* A lane whose turn it is and that stays active: its last command was answered,
\* so it sends what it has not seen, or shows it already.
LEMMA TickedIsCurrent ==
    ASSUME TypeOK, NEW s \in Values \union {Nothing}, NEW fresh \in BOOLEAN,
           NEW bad, Serviced(s, fresh),
           NEW n \in Lanes, Current(n), Sound(engine[n], lane[n]),
           engine[n].active, n \in Batch,
           engine'[n] = Ticked(Aged(fresh)[n], lane[n], s, bad),
           lane'[n] = Commanded(Aged(fresh)[n], lane[n], s, bad),
           engine'[n].active
    PROVE  Current(n)'
<1> DEFINE e == Aged(fresh)[n]
           f == engine'[n]
           g == lane[n]
           h == lane'[n]
<1>1. /\ e.active /\ e.token = engine[n].token /\ e.pending = engine[n].pending
      /\ e.seen = (engine[n].seen /\ ~fresh) /\ e.quiet = Older(engine[n].quiet)
  BY AgedFields
<1>2. e \in Engine /\ g \in Guard
  BY AgedLane DEF TypeOK
<1>3. engine[n].seen \in BOOLEAN /\ phase \in {0, 1}
  BY DEF TypeOK, Engine
<1>4. n \notin Batch'
  BY BatchAlternates DEF Serviced
<1>5. g.staged = Nothing
  BY <1>3 DEF Current, Serviced, Batch
<1>6. ~Fails(e, g, s, bad)
  <2>1. ~Stopped(e).active
    BY <1>2 DEF Stopped, Started, Engine
  <2> QED
    BY <2>1 DEF Ticked
<1>7. ~g.fault /\ ~Waits(e, g)
  <2>1. ~g.fault
    BY <1>6 DEF Fails
  <2>2. e.pending => Acks(g, e.token)
    BY <1>1, <1>5, <2>1 DEF Current
  <2> QED
    BY <2>1, <2>2 DEF Waits
<1> HIDE DEF e
<1>8. CASE NothingNew(e, s)
  <2>1. f = [e EXCEPT !.pending = Waits(e, g)] /\ h = g
    BY <1>6, <1>8 DEF Ticked, Commanded, Sends, e
  <2>2. ~f.pending /\ f.seen = e.seen /\ f.quiet = e.quiet
    BY <1>2, <1>7, <2>1 DEF Engine
  <2>3. e.quiet < StaleAfter
    BY <1>2, <1>6, <1>7, <1>8, LinkAssumption DEF Fails, Engine
  <2>4. g.shows # Nothing => f.seen /\ snap' # Nothing /\ g.shows.value = snap'
    <3>1. g.shows # Nothing => s # Nothing
      BY DEF Current, Serviced
    <3>2. g.shows # Nothing => e.seen
      BY <1>8, <3>1 DEF NothingNew
    <3> QED
      BY <1>1, <1>3, <1>5, <2>2, <3>1, <3>2 DEF Current, Serviced
  <2> QED
    BY <1>2, <1>4, <1>5, <2>1, <2>2, <2>3, <2>4, LinkAssumption DEF Current, Engine
<1>9. CASE ~NothingNew(e, s)
  <2>1. /\ f = [e EXCEPT !.token = NextToken(e), !.pending = TRUE, !.last = s,
                         !.seen = TRUE, !.quiet = 0]
        /\ h = [g EXCEPT !.staged = Told(e, s)]
    BY <1>6, <1>7, <1>9 DEF Ticked, Commanded, Sends, Written, Serviced, e
  <2>2. /\ f.seen /\ f.quiet = 0 /\ h.staged = Told(e, s) /\ h.shows = g.shows
        /\ Told(e, s).value = s /\ s # Nothing
    BY <1>2, <1>9, <2>1 DEF Engine, Guard, Told, NothingNew
  <2>3. Told(e, s) # Nothing
    <3>1. s \in Values /\ NextToken(e) \in Tokens
      BY <1>2, <2>2, LinkAssumption DEF NextToken, Engine
    <3> QED
      BY <3>1, NothingAssumption DEF Told, Command
  <2>4. commit' \/ (phase' = 1 /\ n \in FirstBatch)
    <3>1. CASE phase = 0
      BY <3>1 DEF Serviced, Batch
    <3>2. CASE phase = 1
      BY <3>2 DEF Serviced
    <3> QED
      BY <1>3, <3>1, <3>2
  <2>5. h.staged # Nothing /\ h.staged.value = snap'
    BY <2>2, <2>3 DEF Serviced
  <2>6. f.quiet < StaleAfter
    BY <2>2, LinkAssumption
  <2>7. h.shows # Nothing => snap' # Nothing
    BY <2>2 DEF Serviced
  <2> QED
    BY <2>2, <2>4, <2>5, <2>6, <2>7, LinkAssumption DEF Current
<1> QED
  BY <1>8, <1>9

\* A group that stops leaves nothing in the frame.
LEMMA StopKeepsFrame ==
    ASSUME TypeOK, StopGroup, commit' => phase' = 0
    PROVE  FrameInv'
<1>1. \A n \in Lanes : Silent(lane'[n]) /\ ~engine'[n].active
  BY DEF StopGroup, Disabled, Silent, Stopped, Started, TypeOK, Engine
<1>2. \A n \in Lanes : Current(n)'
  BY <1>1, SilentIsCurrent
<1>3. GroupIsCoherent'
  BY <1>1 DEF GroupIsCoherent, Drives, Silent
<1> QED
  BY <1>2, <1>3 DEF FrameInv

\* The interrupt extends the frame or completes it.
LEMMA InterruptKeepsFrame ==
    ASSUME DacKeepsUp, TypeOK, AllSound, FrameInv,
           NEW s \in Values \union {Nothing}, NEW fresh \in BOOLEAN,
           NEW bad \in SUBSET Batch, fresh => s # Nothing,
           Interrupt(s, fresh, bad)
    PROVE  FrameInv'
<1>1. commit' => phase' = 0
  BY InterruptFrame DEF FrameInv, Interrupt
<1>2. CASE StopGroup
  BY <1>1, <1>2, StopKeepsFrame
<1>3. CASE /\ engine' = [n \in Lanes |-> EngineAfter(n, s, fresh, bad)]
           /\ lane' = [n \in Lanes |-> LaneAfter(n, s, fresh, bad)]
           /\ Playing => \A n \in Lanes : EngineAfter(n, s, fresh, bad).active
           /\ commit' = (commit \/ phase = 1)
           /\ phase' = 1 - phase
  <2>1. Serviced(s, fresh)
    BY <1>3 DEF Interrupt, Serviced, TakesSnapshot
  <2>2. GroupIsCoherent'
    BY InterruptShows, CoherenceKept DEF FrameInv
  <2>3. ASSUME NEW n \in Lanes
        PROVE  Current(n)'
    <3> DEFINE e == Aged(fresh)[n]
    <3>1. /\ Current(n) /\ Sound(engine[n], lane[n])
          /\ engine[n].active = e.active
      BY AgedLane DEF FrameInv, AllSound
    <3>2. CASE ~engine[n].active
      <4>1. engine'[n] = e /\ lane'[n] = lane[n]
        BY <1>3, <3>2 DEF EngineAfter, LaneAfter, Ticks
      <4> QED
        BY <3>1, <3>2, <4>1, SilentIsCurrent DEF Sound
    <3>3. CASE engine[n].active /\ n \notin Batch
      <4>1. engine'[n] = e /\ lane'[n] = lane[n]
        BY <1>3, <3>3 DEF EngineAfter, LaneAfter, Ticks
      <4> QED
        BY <2>1, <3>1, <3>3, <4>1, RestingIsCurrent
    <3>4. CASE engine[n].active /\ n \in Batch
      <4>1. /\ engine'[n] = Ticked(e, lane[n], s, n \in bad)
            /\ lane'[n] = Commanded(e, lane[n], s, n \in bad)
        BY <1>3, <3>4 DEF EngineAfter, LaneAfter, Ticks
      <4>2. engine'[n].active
        BY <1>3, <3>4 DEF Playing
      <4> QED
        BY <2>1, <3>1, <3>4, <4>1, <4>2, TickedIsCurrent
    <3> QED
      BY <3>2, <3>3, <3>4
  <2> QED
    BY <1>1, <2>2, <2>3 DEF FrameInv
<1> QED
  BY <1>2, <1>3, InterruptKinds

\* The DAC takes a complete frame: what it leaves alone shows the snapshot too.
LEMMA SampleKeepsFrame ==
    ASSUME TypeOK, AllSound, FrameInv, DacSample
    PROVE  FrameInv'
<1>1. phase = 0 /\ phase' = 0 /\ ~commit' /\ snap' = snap /\ engine' = engine
  BY DEF DacSample, FrameInv
<1>2. ASSUME NEW n \in Lanes
      PROVE  /\ lane'[n].shows # Nothing => lane'[n].shows.value = snap
             /\ Current(n)'
  <2> DEFINE e == engine[n]
             g == lane[n]
  <2>1. /\ Current(n) /\ Sound(e, g) /\ g \in Guard /\ lane'[n] = Sampled(g)
        /\ snap \in Values \union {Nothing}
    BY DEF FrameInv, AllSound, TypeOK, DacSample
  <2>2. CASE g.staged = Nothing
    <3>1. lane'[n] = g
      BY <2>1, <2>2 DEF Sampled
    <3>2. g.shows # Nothing => e.seen /\ g.shows.value = snap
      BY <1>1, <2>1, <2>2 DEF Current
    <3> QED
      BY <1>1, <2>1, <2>2, <3>1, <3>2 DEF Current, Batch
  <2>3. CASE g.staged # Nothing
    <3>1. /\ lane'[n].shows = g.staged /\ lane'[n].staged = Nothing
          /\ g.staged.value = snap /\ e.seen
      BY <2>1, <2>3 DEF Sampled, Disabled, Current
    <3>2. e.active /\ e.last # Nothing /\ g.staged = LastCommand(e)
      BY <2>1, <2>3 DEF Sound, Answers, Silent
    <3>3. snap # Nothing /\ Acks(lane'[n], e.token)
      <4>1. g.staged \in Command
        BY <2>1, <2>3 DEF Guard
      <4>2. g.staged.value \in Values
        BY <4>1 DEF Command
      <4> QED
        BY <2>3, <3>1, <3>2, <4>2, NothingAssumption DEF Acks, LastCommand
    <3>4. /\ e.quiet <= StaleAfter
          /\ n \notin Batch => e.quiet < StaleAfter
      BY <2>1, <2>3 DEF Current, Silent
    <3> QED
      BY <1>1, <3>1, <3>2, <3>3, <3>4 DEF Current, Batch
  <2> QED
    BY <2>2, <2>3
<1>3. GroupIsCoherent'
  BY <1>2 DEF GroupIsCoherent, Drives, Shown
<1> QED
  BY <1>1, <1>2, <1>3 DEF FrameInv

\* Every step keeps the frame, as long as the DAC keeps up.
LEMMA NextKeepsFrame ==
    ASSUME DacKeepsUp, TypeOK, AllSound, FrameInv, [Next]_vars
    PROVE  FrameInv'
<1>1. CASE Interrupts
  BY <1>1, InterruptKeepsFrame DEF Interrupts
<1>2. CASE Gap \/ Stop
  <2>1. StopGroup /\ (commit' => phase' = 0)
    BY <1>2 DEF Gap, Stop, StopAll, FrameInv
  <2> QED
    BY <2>1, StopKeepsFrame
<1>3. CASE Start
  <2>1. \A n \in Lanes : Silent(lane'[n]) /\ ~engine'[n].pending
    BY <1>3 DEF Start, Disabled, Silent, Started, TypeOK, Engine
  <2>2. \A n \in Lanes : Current(n)'
    BY <2>1, SilentIsCurrent
  <2>3. GroupIsCoherent'
    BY <2>1 DEF GroupIsCoherent, Drives, Silent
  <2>4. commit' => phase' = 0
    BY <1>3 DEF Start, PhaseAtStart, FrameInv
  <2> QED
    BY <2>2, <2>3, <2>4 DEF FrameInv
<1>4. CASE OthersStart \/ OthersStop
  <2>1. UNCHANGED <<engine, lane, commit, snap>>
    BY <1>4 DEF OthersStart, OthersStop
  <2>2. phase' = phase \/ (phase' = 0 /\ ~Running)
    BY <1>4 DEF OthersStart, OthersStop, PhaseAtStart
  <2>3. CASE phase' = phase
    BY <2>1, <2>3 DEF FrameInv, Current, Batch, GroupIsCoherent, Drives, Shown
  <2>4. CASE phase' = 0 /\ ~Running
    <3>1. \A n \in Lanes : Silent(lane'[n]) /\ ~engine'[n].active
      BY <2>1, <2>4 DEF Running, Playing, AllSound, Sound
    <3>2. \A n \in Lanes : Current(n)'
      BY <3>1, SilentIsCurrent
    <3>3. GroupIsCoherent'
      BY <3>1 DEF GroupIsCoherent, Drives, Silent
    <3> QED
      BY <2>4, <3>2, <3>3 DEF FrameInv
  <2> QED
    BY <2>2, <2>3, <2>4
<1>5. CASE DacSample
  BY <1>5, SampleKeepsFrame
<1>6. ASSUME NEW m \in Lanes, Watchdog(m)
      PROVE  FrameInv'
  <2>1. \A n \in Lanes : lane'[n] \in {lane[n], Tripped}
    BY <1>6 DEF Watchdog, TypeOK
  <2>2. UNCHANGED <<engine, commit, phase, snap>>
    BY <1>6 DEF Watchdog
  <2>3. Tripped.shows = Nothing /\ Tripped.staged = Nothing /\ Tripped.fault
    BY DEF Tripped, Disabled
  <2>4. \A n \in Lanes : Current(n)'
    BY <2>1, <2>2, <2>3 DEF FrameInv, Current, Batch, Silent
  <2>5. GroupIsCoherent'
    BY <2>1, <2>3, CoherenceKept DEF FrameInv
  <2> QED
    BY <2>2, <2>4, <2>5 DEF FrameInv
<1>7. CASE UNCHANGED vars
  BY <1>7 DEF vars, FrameInv, Current, Batch, GroupIsCoherent, Drives, Shown
<1> QED
  BY <1>1, <1>2, <1>3, <1>4, <1>5, <1>6, <1>7 DEF Next

\* Initially no frame is being built.
LEMMA InitFrame ==
    Init => FrameInv
BY DEF Init, FrameInv, Current, GroupIsCoherent, Drives, Silent, Disabled

\* Every reachable state has a coherent frame, as long as the DAC keeps up.
LEMMA FrameAlways ==
    ASSUME DacKeepsUp
    PROVE  Spec => []FrameInv
<1>1. TypeOK /\ AllSound /\ FrameInv /\ [Next]_vars => FrameInv'
  BY NextKeepsFrame
<1> QED
  BY <1>1, InitFrame, SoundAlways, PTL DEF Spec

\* When the DAC takes every frame before the next interrupt, the outputs of a
\* route show one reading of their input, however many outputs there are and
\* however they are split into half batches (timer0_handler: the snapshot of
\* phase 0 and the commit of phase 1).
THEOREM Coherence ==
    ASSUME DacKeepsUp
    PROVE  Spec => []GroupIsCoherent
<1>1. FrameInv => GroupIsCoherent
  BY DEF FrameInv
<1> QED
  BY <1>1, FrameAlways, PTL

\* Then no output is driven from an input older than the limit, although a lane
\* is looked at only in every other interrupt (Engine::tick, CV STALE).
THEOREM Freshness ==
    ASSUME DacKeepsUp
    PROVE  Spec => []VoltageIsFresh
<1>1. TypeOK /\ AllSound /\ FrameInv => VoltageIsFresh
  BY DEF FrameInv, Current, AllSound, Sound, Silent, VoltageIsFresh, Drives
<1> QED
  BY <1>1, FrameAlways, SoundAlways, PTL

-----------------------------------------------------------------------------
(* When the DAC falls behind: lanes whose commands were all answered.       *)

\* The lane shows the answer to its last command.
Settled(n) == Drives(n) /\ ~engine[n].pending

\* The last command is of the snapshot, unless a newer one was taken.
Reads(n) ==
    engine[n].active /\ engine[n].last # Nothing =>
        snap # Nothing /\ (engine[n].seen => engine[n].last = snap)

\* A settled lane has read the snapshot unless its turn in this frame is to come,
\* and then no settled lane has.
Turns ==
    /\ \A n \in Lanes : Settled(n) /\ ~engine[n].seen => phase = 1 /\ n \notin FirstBatch
    /\ \A m, n \in Lanes : Settled(m) /\ Settled(n) => (engine[m].seen <=> engine[n].seen)

SettledInv == (\A n \in Lanes : Reads(n)) /\ Turns /\ DisagreementIsPending

LEMMA SettledShows ==
    ASSUME NEW n \in Lanes, Sound(engine[n], lane[n]), Settled(n)
    PROVE  /\ engine[n].active /\ engine[n].last # Nothing
           /\ lane[n].shows = LastCommand(engine[n]) /\ lane[n].staged = Nothing
  BY DEF Settled, Drives, Sound, Silent, Answers

\* The reading of an interrupt that services its half batch.
Read(s, fresh) ==
    /\ snap' = s
    /\ fresh => phase = 0 /\ s # Nothing
    /\ ~fresh => s = snap

LEMMA TickReads ==
    ASSUME TypeOK, NEW s \in Values \union {Nothing}, NEW fresh \in BOOLEAN, Read(s, fresh),
           NEW bad \in SUBSET Batch, NEW n \in Lanes, Reads(n),
           engine'[n] = EngineAfter(n, s, fresh, bad)
    PROVE  Reads(n)'
<1> DEFINE e == Aged(fresh)[n]
           f == engine'[n]
<1>1. e \in Engine
  BY AgedLane
<1>2. CASE ~engine[n].active
  <2>1. f = engine[n]
    BY <1>2 DEF EngineAfter, Ticks, Aged
  <2> QED
    BY <1>2, <2>1 DEF Reads
<1>3. CASE engine[n].active
  <2>1. /\ e.last = engine[n].last /\ (e.seen <=> engine[n].seen /\ ~fresh)
    BY <1>3, AgedFields
  <2>2. CASE f.last = e.last /\ f.seen = e.seen
    BY <1>3, <2>1, <2>2 DEF Reads, Read
  <2>3. CASE Ticks(n)
    <3>1. f = Ticked(e, lane[n], s, n \in bad)
      BY <2>3 DEF EngineAfter
    <3>2. CASE Fails(e, lane[n], s, n \in bad)
      BY <1>1, <3>1, <3>2 DEF Ticked, Stopped, Started, Engine, Reads
    <3>3. CASE Sends(e, lane[n], s, n \in bad)
      <4>1. f.last = s /\ f.seen /\ s # Nothing
        BY <1>1, <3>1, <3>3 DEF Ticked, Sends, NothingNew, Engine
      <4> QED
        BY <4>1 DEF Reads, Read
    <3>4. CASE ~Fails(e, lane[n], s, n \in bad) /\ ~Sends(e, lane[n], s, n \in bad)
      <4>1. f.last = e.last /\ f.seen = e.seen
        BY <1>1, <3>1, <3>4 DEF Ticked, Engine
      <4> QED
        BY <4>1, <2>2
    <3> QED
      BY <3>2, <3>3, <3>4
  <2>4. CASE ~Ticks(n)
    BY <2>2, <2>4 DEF EngineAfter
  <2> QED
    BY <2>3, <2>4
<1> QED
  BY <1>2, <1>3

\* A lane that is settled after its turn has read the snapshot, which is an old
\* one; a lane that rests was settled before.
LEMMA TickSettles ==
    ASSUME TypeOK, NEW s \in Values \union {Nothing}, NEW fresh \in BOOLEAN, Read(s, fresh),
           NEW bad \in SUBSET Batch, NEW n \in Lanes,
           engine'[n] = EngineAfter(n, s, fresh, bad), lane'[n] = LaneAfter(n, s, fresh, bad),
           Sound(engine'[n], lane'[n]), Reads(n)', Settled(n)'
    PROVE  /\ n \in Batch => engine'[n].seen /\ ~fresh
           /\ n \notin Batch => /\ Settled(n) /\ lane'[n] = lane[n]
                                /\ engine'[n].seen <=> engine[n].seen /\ ~fresh
<1> DEFINE e == Aged(fresh)[n]
           f == engine'[n]
<1>1. e \in Engine /\ lane[n] \in Guard
  BY AgedLane DEF TypeOK
<1>2. f.active /\ f.last # Nothing /\ ~f.pending
  BY DEF Settled, Drives, Sound, Silent, Answers
<1>3. CASE Ticks(n)
  <2>1. f = Ticked(e, lane[n], s, n \in bad)
    BY <1>3 DEF EngineAfter
  <2>2. ~Fails(e, lane[n], s, n \in bad)
    BY <1>1, <1>2, <2>1 DEF Ticked, Stopped, Started, Engine
  <2>3. ~Sends(e, lane[n], s, n \in bad)
    BY <1>1, <1>2, <2>1, <2>2 DEF Ticked, Engine
  <2>4. ~Waits(e, lane[n]) /\ f.seen = e.seen
    BY <1>1, <1>2, <2>1, <2>2, <2>3 DEF Ticked, Engine
  <2>5. s # Nothing
    BY <1>2 DEF Reads, Read
  <2>6. e.seen
    BY <2>2, <2>3, <2>4, <2>5 DEF Sends, NothingNew
  <2>7. e.seen <=> engine[n].seen /\ ~fresh
    BY <1>3, AgedFields DEF Ticks
  <2> QED
    BY <1>3, <2>4, <2>6, <2>7 DEF Ticks
<1>4. CASE ~Ticks(n)
  <2>1. f = e /\ lane'[n] = lane[n]
    BY <1>4 DEF EngineAfter, LaneAfter
  <2>2. engine[n].active /\ n \notin Batch
    BY <1>2, <1>4, <2>1, AgedLane DEF Ticks
  <2>3. e.pending = engine[n].pending /\ (e.seen <=> engine[n].seen /\ ~fresh)
    BY <2>2, AgedFields
  <2> QED
    BY <1>2, <2>1, <2>2, <2>3 DEF Settled, Drives
<1> QED
  BY <1>3, <1>4

\* When nothing is shown, nothing disagrees.
LEMMA SilentSettles ==
    ASSUME \A n \in Lanes : ~Drives(n)' /\ ((engine'[n].active) => engine'[n].last = Nothing)
    PROVE  SettledInv'
  BY DEF SettledInv, Reads, Turns, Settled, DisagreementIsPending

LEMMA StopSettles ==
    ASSUME TypeOK, StopGroup
    PROVE  SettledInv'
<1>1. \A n \in Lanes : lane'[n].shows = Nothing /\ ~engine'[n].active
  BY DEF StopGroup, Disabled, Stopped, Started, TypeOK, Engine
<1> QED
  BY <1>1, SilentSettles DEF Drives

LEMMA InterruptSettles ==
    ASSUME TypeOK, AllSound, SettledInv,
           NEW s \in Values \union {Nothing}, NEW fresh \in BOOLEAN,
           NEW bad \in SUBSET Batch, fresh => s # Nothing, Interrupt(s, fresh, bad)
    PROVE  SettledInv'
<1>1. CASE StopGroup
  BY <1>1, StopSettles
<1>2. CASE /\ engine' = [n \in Lanes |-> EngineAfter(n, s, fresh, bad)]
           /\ lane' = [n \in Lanes |-> LaneAfter(n, s, fresh, bad)]
           /\ phase' = 1 - phase
  <2>1. Read(s, fresh)
    BY DEF Interrupt, Read, TakesSnapshot
  <2>2. \A n \in Lanes : /\ engine'[n] = EngineAfter(n, s, fresh, bad)
                          /\ lane'[n] = LaneAfter(n, s, fresh, bad)
                          /\ Sound(engine'[n], lane'[n])
    BY <1>2, ServicedLane DEF AllSound
  <2>3. \A n \in Lanes : Reads(n)'
    BY <2>1, <2>2, TickReads DEF SettledInv
  <2>4. ASSUME NEW n \in Lanes, Settled(n)'
        PROVE  /\ n \in Batch => engine'[n].seen /\ ~fresh
               /\ n \notin Batch => /\ Settled(n) /\ lane'[n] = lane[n]
                                    /\ engine'[n].seen <=> engine[n].seen /\ ~fresh
    BY <2>1, <2>2, <2>3, <2>4, TickSettles
  <2>5. ASSUME NEW n \in Lanes, Settled(n)', ~engine'[n].seen
        PROVE  fresh /\ phase = 0 /\ phase' = 1 /\ n \notin FirstBatch
    <3>1. n \notin Batch /\ Settled(n)
      BY <2>4, <2>5
    <3>2. engine[n].seen
      BY <3>1 DEF SettledInv, Turns, Batch
    <3>3. fresh
      BY <2>4, <2>5, <3>1, <3>2
    <3> QED
      BY <1>2, <2>1, <3>1, <3>3 DEF Read, Batch
  <2>6. ASSUME NEW m \in Lanes, NEW n \in Lanes, Settled(m)', Settled(n)', ~engine'[n].seen
        PROVE  ~engine'[m].seen
    BY <2>4, <2>5, <2>6
  <2>7. Turns'
    BY <2>5, <2>6 DEF Turns
  <2>8. ASSUME NEW m \in Lanes, NEW n \in Lanes, Settled(m)', Settled(n)'
        PROVE  Shown(m)' = Shown(n)'
    <3>1. CASE engine'[m].seen /\ engine'[n].seen
      <4>1. ASSUME NEW k \in Lanes, Settled(k)', engine'[k].seen
            PROVE  Shown(k)' = snap'
        <5>1. /\ engine'[k].active /\ engine'[k].last # Nothing
              /\ lane'[k].shows = LastCommand(engine'[k])
          BY <2>2, <4>1 DEF Settled, Drives, Sound, Silent, Answers
        <5>2. engine'[k].last = snap'
          BY <2>3, <4>1, <5>1 DEF Reads
        <5> QED
          BY <5>1, <5>2 DEF Shown, LastCommand
      <4> QED
        BY <2>8, <3>1, <4>1
    <3>2. CASE ~engine'[m].seen \/ ~engine'[n].seen
      <4>1. ~engine'[m].seen /\ ~engine'[n].seen
        BY <2>6, <2>8, <3>2
      <4>2. /\ Settled(m) /\ Settled(n) /\ lane'[m] = lane[m] /\ lane'[n] = lane[n]
        BY <2>4, <2>8, <4>1
      <4>3. Shown(m) = Shown(n)
        BY <4>2 DEF SettledInv, DisagreementIsPending, Settled
      <4> QED
        BY <4>2, <4>3 DEF Shown
    <3> QED
      BY <3>1, <3>2
  <2>9. DisagreementIsPending'
    BY <2>8 DEF DisagreementIsPending, Settled
  <2> QED
    BY <2>3, <2>7, <2>9 DEF SettledInv
<1> QED
  BY <1>1, <1>2, InterruptKinds

\* The DAC and the watchdog change no settled lane, except that they silence it,
\* and settle none: what is staged is not yet answered.
LEMMA GatewareSettles ==
    ASSUME TypeOK, AllSound, SettledInv, DacSample \/ \E k \in Lanes : Watchdog(k)
    PROVE  SettledInv'
<1>1. UNCHANGED <<engine, phase, snap>>
  BY DEF DacSample, Watchdog
<1>2. ASSUME NEW n \in Lanes, Settled(n)'
      PROVE  Settled(n) /\ lane'[n] = lane[n]
  <2>1. CASE DacSample
    <3>1. lane'[n] = Sampled(lane[n]) /\ Sound(engine[n], lane[n])
      BY <2>1 DEF DacSample, AllSound
    <3>2. lane[n].staged = Nothing
      BY <1>1, <1>2, <3>1 DEF Settled, Drives, Sampled, Sound, Silent, Answers
    <3> QED
      BY <1>1, <1>2, <3>1, <3>2 DEF Settled, Drives, Sampled
  <2>2. CASE \E k \in Lanes : Watchdog(k)
    <3>1. lane'[n] \in {lane[n], Tripped}
      BY <2>2 DEF Watchdog, TypeOK
    <3>2. Tripped.shows = Nothing
      BY DEF Tripped, Disabled
    <3> QED
      BY <1>1, <1>2, <3>1, <3>2 DEF Settled, Drives
  <2> QED
    BY <2>1, <2>2
<1>3. (\A n \in Lanes : Reads(n)') /\ Turns'
  BY <1>1, <1>2 DEF SettledInv, Reads, Turns
<1>4. DisagreementIsPending'
  BY <1>1, <1>2 DEF SettledInv, DisagreementIsPending, Settled, Shown
<1> QED
  BY <1>3, <1>4 DEF SettledInv

LEMMA NextSettles ==
    ASSUME TypeOK, AllSound, SettledInv, [Next]_vars
    PROVE  SettledInv'
<1>1. CASE Interrupts
  BY <1>1, InterruptSettles DEF Interrupts
<1>2. CASE Gap \/ Stop
  BY <1>2, StopSettles DEF Gap, Stop, StopAll
<1>3. CASE Start
  <2>1. \A n \in Lanes : lane'[n].shows = Nothing /\ engine'[n].last = Nothing
    BY <1>3 DEF Start, Disabled, Started, TypeOK, Engine
  <2> QED
    BY <2>1, SilentSettles DEF Drives
<1>4. CASE OthersStart \/ OthersStop \/ UNCHANGED vars
  <2>1. UNCHANGED <<engine, lane, snap>>
    BY <1>4 DEF OthersStart, OthersStop, vars
  <2>2. phase' = phase \/ ~Playing
    BY <1>4 DEF OthersStart, OthersStop, PhaseAtStart, Running, vars
  <2>3. \A n \in Lanes : Settled(n) => Playing
    BY SettledShows DEF AllSound, Playing
  <2>4. \A n \in Lanes : Reads(n)'
    BY <2>1 DEF SettledInv, Reads
  <2>5. Turns'
    <3>1. CASE phase' = phase
      BY <2>1, <3>1 DEF SettledInv, Turns, Settled, Drives
    <3>2. CASE ~Playing
      <4>1. \A n \in Lanes : ~Settled(n)
        BY <2>3, <3>2
      <4>2. \A n \in Lanes : ~Settled(n)'
        BY <2>1, <4>1 DEF Settled, Drives
      <4> QED
        BY <4>2 DEF Turns
    <3> QED
      BY <2>2, <3>1, <3>2
  <2>6. DisagreementIsPending'
    BY <2>1 DEF SettledInv, DisagreementIsPending, Drives, Shown
  <2> QED
    BY <2>4, <2>5, <2>6 DEF SettledInv
<1>5. CASE DacSample \/ \E n \in Lanes : Watchdog(n)
  BY <1>5, GatewareSettles
<1> QED
  BY <1>1, <1>2, <1>3, <1>4, <1>5 DEF Next

\* Whatever the DAC does, two outputs of a route that show different readings are
\* not both confirmed: one of their engines still waits for its answer.
THEOREM Disagreement == Spec => []DisagreementIsPending
<1>1. Init => SettledInv
  BY DEF Init, SettledInv, Reads, Turns, Settled, Drives, Disabled, DisagreementIsPending
<1>2. TypeOK /\ AllSound /\ SettledInv /\ [Next]_vars => SettledInv'
  BY NextSettles
<1>3. SettledInv => DisagreementIsPending
  BY DEF SettledInv
<1> QED
  BY <1>1, <1>2, <1>3, SoundAlways, PTL DEF Spec

=============================================================================
