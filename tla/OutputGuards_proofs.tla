------------------------ MODULE OutputGuards_proofs ------------------------
(***************************************************************************)
(* Proofs about OutputGuards, for any outputs, voltages, tokens and        *)
(* watchdog period: its types, the watchdog, and that every cycle of a     *)
(* lane is a sequence of events of GuardedLane.                            *)
(***************************************************************************)
EXTENDS OutputGuards, TLAPS

-----------------------------------------------------------------------------
(* One guard.                                                              *)

\* The words that a command register can hold are within the limits, and a
\* disable that waits for a sample has closed the guard already.
Bounded(g) ==
    /\ ~Malformed(g.command) /\ ~Malformed(g.applied)
    /\ g.pending /\ ~g.command.enable => ~g.enabled

Timely(g, s) ==
    /\ g.age < Watchdog
    /\ g.enabled => s <= g.age

\* The silence of a guard after a cycle.
Quieter(s, heard) ==
    IF heard THEN 0 ELSE IF s = Watchdog THEN Watchdog ELSE s + 1

\* A cycle of a guard keeps its types and its limits.
LEMMA ClockedTypes ==
    ASSUME NEW g \in Registers, NEW w \in Word,
           NEW write \in BOOLEAN, NEW advance \in BOOLEAN,
           g.age < Watchdog, Bounded(g)
    PROVE  /\ Clocked(g, w, write, advance) \in Registers
           /\ Clocked(g, w, write, advance).age < Watchdog
           /\ Bounded(Clocked(g, w, write, advance))
<1> DEFINE takes == write /\ (Disables(w) \/ Accepts(g, w))
           h == Clocked(g, w, write, advance)
<1>1. NextAge(g, takes) \in 0..Watchdog /\ NextAge(g, takes) < Watchdog
  BY GuardsAssumption DEF NextAge, Expires, Registers
<1>2. takes => ~Malformed(w)
  BY DEF Disables, Accepts
<1>3. h.age = NextAge(g, takes)
  BY DEF Clocked, NextAge
<1>4. h.command \in {w, g.command} /\ (h.command = w \/ h.command = g.command)
      /\ h.applied \in {g.command, g.applied}
  BY DEF Clocked
<1>5. ~Malformed(h.command)
  BY <1>2 DEF Clocked, Bounded
<1>6. h \in Registers
  BY <1>1 DEF Clocked, Registers, NextAge, Word
<1>7. h.pending /\ ~h.command.enable => ~h.enabled
  BY DEF Clocked, Bounded, Disables, Accepts
<1> QED
  BY <1>1, <1>3, <1>4, <1>5, <1>6, <1>7 DEF Bounded

\* While a guard is enabled it was not silent for longer than its age says.
LEMMA ClockedTimely ==
    ASSUME NEW g \in Registers, NEW w \in Word,
           NEW write \in BOOLEAN, NEW advance \in BOOLEAN,
           NEW s \in 0..Watchdog, Timely(g, s)
    PROVE  Timely(Clocked(g, w, write, advance),
                  Quieter(s, (write /\ Accepts(g, w)) \/ (g.pending /\ advance)))
<1> DEFINE heard == (write /\ Accepts(g, w)) \/ (g.pending /\ advance)
           disables == write /\ Disables(w)
           takes == disables \/ (write /\ Accepts(g, w))
           h == Clocked(g, w, write, advance)
<1>1. h.age = NextAge(g, takes)
  BY DEF Clocked
<1>2. h.age \in Nat /\ h.age < Watchdog
  BY <1>1, GuardsAssumption DEF NextAge, Expires, Registers, Timely
<1>3. CASE heard
  BY <1>2, <1>3 DEF Timely, Quieter
<1>4. CASE ~heard
  <2>1. h.enabled => g.enabled /\ ~Expires(g) /\ ~takes
    BY <1>4 DEF Clocked
  <2>2. h.enabled => h.age = g.age + 1 /\ s <= g.age
    BY <1>1, <2>1 DEF NextAge, Timely
  <2>3. Quieter(s, heard) <= s + 1
    BY <1>4, GuardsAssumption DEF Quieter
  <2>4. Quieter(s, heard) \in Nat
    BY <1>4, GuardsAssumption DEF Quieter
  <2> QED
    BY <1>2, <2>2, <2>3, <2>4 DEF Timely, Registers
<1> QED
  BY <1>3, <1>4

-----------------------------------------------------------------------------
(* The invariant.                                                          *)

GuardsInv ==
    /\ TypeOK
    /\ \A g \in Guards : Bounded(guard[g]) /\ Timely(guard[g], silence[g])

\* The word of a cycle is one, whoever it is for.
LEMMA WordType ==
    ASSUME NEW bus \in Bus, NEW g
    PROVE  bus.word \in Word /\ WordTo(g, bus) \in Word
<1>1. ZeroWord \in Word
  BY GuardsAssumption DEF ZeroWord, Word
<1> QED
  BY <1>1 DEF WordTo, Bus, GuardWrites, Idle, CommitWrite

\* Initially all guards are closed and nothing has been silent.
LEMMA InitGuards ==
    Init => GuardsInv
<1>1. ZeroWord \in Word /\ ~Malformed(ZeroWord)
  BY GuardsAssumption DEF ZeroWord, Word, Malformed
<1>2. Reset \in Registers /\ Bounded(Reset) /\ Timely(Reset, 0)
  BY <1>1, GuardsAssumption DEF Reset, Registers, Bounded, Timely
<1>3. 0 \in 0..Watchdog
  BY GuardsAssumption
<1> QED
  BY <1>2, <1>3 DEF Init, GuardsInv, TypeOK

\* Every cycle keeps the invariant.
LEMMA CycleGuards ==
    ASSUME GuardsInv, NEW bus \in Bus, NEW advance \in BOOLEAN, Cycle(bus, advance)
    PROVE  GuardsInv'
<1>1. ASSUME NEW g \in Guards
      PROVE  /\ guard'[g] \in Registers /\ silence'[g] \in 0..Watchdog
             /\ Bounded(guard'[g]) /\ Timely(guard'[g], silence'[g])
  <2> DEFINE w == WordTo(g, bus)
             write == Writes(g, bus)
             adv == Advances(g, bus, advance)
             heard == (write /\ Accepts(guard[g], w)) \/ (guard[g].pending /\ adv)
  <2>1. /\ guard[g] \in Registers /\ silence[g] \in 0..Watchdog
        /\ Bounded(guard[g]) /\ Timely(guard[g], silence[g])
        /\ w \in Word /\ write \in BOOLEAN /\ adv \in BOOLEAN
    BY WordType DEF GuardsInv, TypeOK, Writes, Advances
  <2>2. /\ guard'[g] = Clocked(guard[g], w, write, adv)
        /\ silence'[g] = Quieter(silence[g], heard)
    BY DEF Cycle, Heard, Quieter
  <2>3. Quieter(silence[g], heard) \in 0..Watchdog
    BY <2>1, GuardsAssumption DEF Quieter
  <2> HIDE DEF w, write, adv
  <2> QED
    BY <2>1, <2>2, <2>3, ClockedTypes, ClockedTimely DEF Timely
<1>2. guard' \in [Guards -> Registers] /\ silence' \in [Guards -> 0..Watchdog]
  <2>1. /\ guard' = [g \in Guards |-> guard'[g]]
        /\ silence' = [g \in Guards |-> silence'[g]]
    BY DEF Cycle
  <2> QED
    BY <1>1, <2>1
<1>3. commit_pending' \in BOOLEAN
  BY DEF Cycle
<1> QED
  BY <1>1, <1>2, <1>3 DEF GuardsInv, TypeOK

\* Every reachable state satisfies the invariant.
LEMMA GuardsAlways == Spec => []GuardsInv
<1>1. GuardsInv /\ [Next]_vars => GuardsInv'
  BY CycleGuards DEF Next, vars, GuardsInv, TypeOK
<1> QED
  BY <1>1, InitGuards, PTL DEF Spec

\* Every register keeps its type: the age fits its register.
THEOREM TypeCorrect == Spec => []TypeOK
<1>1. GuardsInv => TypeOK
  BY DEF GuardsInv
<1> QED
  BY <1>1, GuardsAlways, PTL

\* A guard that has heard nothing for the watchdog period is closed, for any
\* period and wherever expiry, sample and write meet (CalibrationOutput, age).
THEOREM Watchdogs == Spec => []ClosesInSilence
<1>1. GuardsInv => ClosesInSilence
  BY GuardsAssumption
     DEF GuardsInv, TypeOK, Timely, Registers, ClosesInSilence, Active
<1> QED
  BY <1>1, GuardsAlways, PTL

-----------------------------------------------------------------------------
(* Cycles are events.                                                      *)

\* A word within the limits is a command.
LEMMA AskedType ==
    ASSUME NEW w \in Word, ~Malformed(w)
    PROVE  Asked(w) \in Command /\ Asked(w) # Nothing
BY NothingAssumption DEF Asked, Word, Malformed, Command

\* A guard with its latch set is tripped.
LEMMA FaultSeen ==
    ASSUME NEW g, g.fault = TRUE
    PROVE  Seen(g) = Tripped
<1>1. ~Active(g)
  BY DEF Active
<1> QED
  BY <1>1 DEF Seen, Tripped

\* Any other guard waits with what is enabled and shows what was.
LEMMA ClearSeen ==
    ASSUME NEW g, g.fault = FALSE
    PROVE  Seen(g) =
             [staged |-> IF g.pending /\ g.command.enable THEN Asked(g.command) ELSE Nothing,
              shows |-> IF g.enabled THEN Asked(g.applied) ELSE Nothing,
              fault |-> FALSE]
BY DEF Seen, Active

\* A disable closes a guard whatever else happens in the cycle.
LEMMA DisableEvent ==
    ASSUME NEW g \in Registers, NEW w \in Word, NEW advance \in BOOLEAN, Disables(w)
    PROVE  Seen(Clocked(g, w, TRUE, advance)) = Disabled
BY DEF Clocked, Seen, Active, Disables, Disabled

\* A malformed command trips it.
LEMMA MalformedEvent ==
    ASSUME NEW g \in Registers, NEW w \in Word, NEW advance \in BOOLEAN, Malformed(w)
    PROVE  Seen(Clocked(g, w, TRUE, advance)) = Tripped
<1>1. Clocked(g, w, TRUE, advance).fault = TRUE
  BY DEF Clocked
<1> QED
  BY <1>1, FaultSeen

SampleOf(g, advance) == IF advance THEN Sampled(Seen(g)) ELSE Seen(g)

\* What a guard shows at the sample it goes on showing until it trips.
LEMMA SampleShows ==
    ASSUME NEW g \in Registers, NEW advance \in BOOLEAN, Bounded(g), Active(g)
    PROVE  SampleOf(g, advance).shows # Nothing
<1>1. Seen(g).shows # Nothing
  BY AskedType DEF Seen, Registers, Bounded
<1> QED
  BY <1>1 DEF SampleOf, Sampled, Disabled

\* A cycle without a command that is taken is a sample, or the end of it.
LEMMA QuietEvent ==
    ASSUME NEW g \in Registers, NEW w \in Word, NEW write \in BOOLEAN,
           NEW advance \in BOOLEAN, Bounded(g),
           write => ~Malformed(w) /\ ~Disables(w) /\ ~Accepts(g, w)
    PROVE  LET h == Seen(Clocked(g, w, write, advance))
               s == SampleOf(g, advance)
           IN h = s \/ (h = Tripped /\ s.shows # Nothing)
<1> DEFINE c == Clocked(g, w, write, advance)
           s == SampleOf(g, advance)
<1>1. /\ c.pending <=> g.pending /\ ~advance /\ ~Expires(g)
      /\ c.command = g.command
      /\ c.applied = IF g.pending /\ advance THEN g.command ELSE g.applied
      /\ c.enabled <=> IF g.pending /\ advance THEN g.command.enable /\ ~g.fault
                       ELSE g.enabled /\ ~Expires(g)
      /\ c.fault <=> g.fault \/ Expires(g)
      /\ c.fault \in BOOLEAN
  BY DEF Clocked, Registers, Expires
<1> HIDE DEF c
<1>2. CASE g.fault
  <2>1. Seen(c) = Tripped
    <3>1. c.fault = TRUE
      BY <1>1, <1>2
    <3> QED
      BY <3>1, FaultSeen
  <2>2. Seen(g) = Tripped
    <3>1. g.fault = TRUE
      BY <1>2 DEF Registers
    <3> QED
      BY <3>1, FaultSeen
  <2>3. Sampled(Tripped) = Tripped
    BY DEF Sampled, Tripped, Disabled
  <2> QED
    BY <2>1, <2>2, <2>3 DEF SampleOf, c
<1>3. CASE ~g.fault /\ Expires(g)
  <2>1. Seen(c) = Tripped
    <3>1. c.fault = TRUE
      BY <1>1, <1>3
    <3> QED
      BY <3>1, FaultSeen
  <2>2. Active(g)
    BY <1>3 DEF Active, Expires
  <2> QED
    BY <2>1, <2>2, SampleShows DEF c
<1>4. CASE ~g.fault /\ ~Expires(g)
  <2>1. c.fault = FALSE /\ g.fault = FALSE
    BY <1>1, <1>4 DEF Registers
  <2>2. CASE ~(g.pending /\ advance)
    <3>1. Seen(c) = Seen(g)
      <4>1. /\ (c.pending <=> g.pending) /\ (c.enabled <=> g.enabled)
            /\ c.command = g.command /\ c.applied = g.applied
        BY <1>1, <1>4, <2>2
      <4>2. Seen(c) =
              [staged |-> IF g.pending /\ g.command.enable
                          THEN Asked(g.command) ELSE Nothing,
               shows |-> IF g.enabled THEN Asked(g.applied) ELSE Nothing,
               fault |-> FALSE]
        BY <2>1, <4>1 DEF Seen, Active
      <4> QED
        BY <2>1, <4>2, ClearSeen
    <3>2. s = Seen(g)
      BY <2>2 DEF SampleOf, Sampled, Seen
    <3> QED
      BY <3>1, <3>2 DEF c
  <2>3. CASE g.pending /\ advance /\ g.command.enable
    <3>1. Seen(g).staged = Asked(g.command) /\ Asked(g.command) # Nothing
      BY <1>4, <2>3, AskedType DEF Seen, Registers, Bounded
    <3>2. s = [Disabled EXCEPT !.shows = Asked(g.command)]
      BY <2>3, <3>1 DEF SampleOf, Sampled
    <3>3. Seen(c) = [staged |-> Nothing, shows |-> Asked(g.command), fault |-> FALSE]
      BY <1>1, <1>4, <2>1, <2>3, ClearSeen
    <3> QED
      BY <3>2, <3>3 DEF Disabled, c
  <2>4. CASE g.pending /\ advance /\ ~g.command.enable
    <3>1. ~g.enabled
      BY <2>4 DEF Bounded
    <3>2. Seen(g) = Disabled
      BY <2>1, <2>4, <3>1, ClearSeen DEF Disabled
    <3>3. Seen(c) = Disabled
      BY <1>1, <1>4, <2>1, <2>4, ClearSeen DEF Disabled
    <3>4. s = Disabled
      BY <3>2 DEF SampleOf, Sampled, Disabled
    <3> QED
      BY <3>3, <3>4 DEF c
  <2> QED
    BY <2>2, <2>3, <2>4
<1> QED
  BY <1>2, <1>3, <1>4

\* A command that is taken while the frame is not sampled is staged, or lost to
\* the watchdog.
LEMMA AcceptEvent ==
    ASSUME NEW g \in Registers, NEW w \in Word, Bounded(g), Accepts(g, w)
    PROVE  LET h == Seen(Clocked(g, w, TRUE, FALSE))
           IN h = Written(Seen(g), Asked(w), FALSE)
              \/ (h = Tripped /\ Seen(g).shows # Nothing)
<1> DEFINE c == Clocked(g, w, TRUE, FALSE)
<1>1. ~g.fault /\ w.enable /\ ~Malformed(w) /\ ~Disables(w)
  BY DEF Accepts, Disables
<1>2. /\ c.pending /\ c.command = w /\ c.applied = g.applied
      /\ c.enabled <=> g.enabled /\ ~Expires(g)
      /\ c.fault <=> Expires(g)
      /\ c.fault \in BOOLEAN
  BY <1>1 DEF Clocked, Expires
<1> HIDE DEF c
<1>3. CASE Expires(g)
  <2>1. Seen(c) = Tripped
    <3>1. c.fault = TRUE
      BY <1>2, <1>3
    <3> QED
      BY <3>1, FaultSeen
  <2>2. SampleOf(g, FALSE).shows # Nothing
    BY <1>1, <1>3, SampleShows DEF Active, Expires
  <2> QED
    BY <2>1, <2>2 DEF SampleOf, c
<1>4. CASE ~Expires(g)
  <2> DEFINE z == [staged |-> Asked(w),
                   shows |-> IF g.enabled THEN Asked(g.applied) ELSE Nothing,
                   fault |-> FALSE]
  <2>1. Seen(c) = z
    <3>1. c.fault = FALSE
      BY <1>2, <1>4
    <3> QED
      BY <1>1, <1>2, <1>4, <3>1, ClearSeen
  <2>2. Written(Seen(g), Asked(w), FALSE) = z
    <3> DEFINE r == [staged |-> IF g.pending /\ g.command.enable
                                THEN Asked(g.command) ELSE Nothing,
                     shows |-> IF g.enabled THEN Asked(g.applied) ELSE Nothing,
                     fault |-> FALSE]
    <3>1. g.fault = FALSE
      BY <1>1 DEF Registers
    <3>2. Seen(g) = r
      BY <3>1, ClearSeen
    <3>3. Written(r, Asked(w), FALSE) = [r EXCEPT !.staged = Asked(w)]
      BY DEF Written
    <3> QED
      BY <3>2, <3>3
  <2> HIDE DEF z
  <2> QED
    BY <2>1, <2>2 DEF c
<1> QED
  BY <1>3, <1>4

\* Every cycle of a lane is a sequence of events.
LEMMA LaneCycle ==
    ASSUME GuardsInv, NEW bus \in Bus, NEW advance \in BOOLEAN,
           Cycle(bus, advance), NEW n \in Lanes
    PROVE  Seen(guard[n])' \in LaneEvents(n)
<1> DEFINE g == guard[n]
           w == WordTo(n, bus)
           write == Writes(n, bus)
           adv == Advances(n, bus, advance)
           sampled == commit_pending /\ ~commit_pending'
<1>1. /\ n \in Guards /\ n # Port
  BY GuardsAssumption DEF Guards, Port
<1>2. /\ g \in Registers /\ Bounded(g) /\ w \in Word
      /\ write \in BOOLEAN /\ adv \in BOOLEAN /\ commit_pending \in BOOLEAN
      /\ guard'[n] = Clocked(g, w, write, adv)
  BY <1>1, WordType DEF GuardsInv, TypeOK, Writes, Advances, Cycle
<1>3. sampled <=> commit_pending /\ advance
  BY <1>2 DEF Cycle
<1>4. AfterSample(n) =
          {SampleOf(g, sampled)}
          \union (IF SampleOf(g, sampled).shows # Nothing THEN {Tripped} ELSE {})
  BY DEF AfterSample, SampleOf
<1>5. CASE Inhibited(n, bus)
  <2>1. w = ZeroWord /\ write /\ Disables(w)
    BY <1>1, <1>5, GuardsAssumption
       DEF WordTo, Writes, Disables, Malformed, ZeroWord
  <2>2. Seen(guard'[n]) = Disabled
    BY <1>2, <2>1, DisableEvent
  <2> QED
    BY <2>2 DEF LaneEvents
<1>6. CASE ~Inhibited(n, bus)
  <2>1. /\ ~PortOn(n)
        /\ adv <=> sampled
        /\ write /\ w.enable => ~commit_pending
    BY <1>1, <1>3, <1>6 DEF Inhibited, Advances, Writes, WordTo, Admitted
  <2>2. adv = sampled
    BY <1>2, <2>1
  <2> HIDE DEF w, write, adv, sampled
  <2>3. CASE write /\ Disables(w)
    <3>1. Seen(guard'[n]) = Disabled
      BY <1>2, <2>3, DisableEvent
    <3> QED
      BY <2>1, <3>1 DEF LaneEvents
  <2>4. CASE write /\ Malformed(w)
    <3>1. Seen(guard'[n]) = Tripped
      BY <1>2, <2>4, MalformedEvent
    <3> QED
      BY <2>1, <3>1 DEF LaneEvents
  <2>5. CASE write /\ Accepts(g, w)
    <3>1. ~commit_pending /\ ~adv /\ ~sampled
      BY <2>1, <2>2, <2>5 DEF Accepts, sampled
    <3>2. Asked(w) \in Command
      BY <1>2, <2>5, AskedType DEF Accepts
    <3>3. adv = FALSE /\ write = TRUE /\ commit_pending = FALSE
      BY <1>2, <2>5, <3>1
    <3>4. \/ Seen(guard'[n]) = Written(Seen(g), Asked(w), FALSE)
          \/ Seen(guard'[n]) = Tripped /\ Seen(g).shows # Nothing
      BY <1>2, <2>5, <3>3, AcceptEvent
    <3>5. Seen(g) \in AfterSample(n)
      BY <1>4, <3>1 DEF SampleOf
    <3>6. \/ Seen(guard'[n]) = Written(Seen(g), Asked(w), commit_pending)
          \/ Seen(guard'[n]) = Tripped
      BY <3>3, <3>4
    <3> QED
      BY <2>1, <3>2, <3>5, <3>6 DEF LaneEvents
  <2>6. CASE write => ~Malformed(w) /\ ~Disables(w) /\ ~Accepts(g, w)
    <3>1. \/ Seen(guard'[n]) = SampleOf(g, adv)
          \/ Seen(guard'[n]) = Tripped
      BY <1>2, <2>6, QuietEvent
    <3> QED
      BY <1>4, <2>1, <2>2, <3>1 DEF LaneEvents
  <2> QED
    BY <2>3, <2>4, <2>5, <2>6
<1> QED
  BY <1>5, <1>6

\* The clocked lanes implement the guarded lanes that PlaybackLink builds on, for
\* any outputs, voltages and watchdog period (tuner.py, the lanes' command, write
\* and advance; calibration_output.py).
THEOREM Simulation == Spec => CycleIsEvents
<1>1. ASSUME GuardsInv, [Next]_vars
      PROVE  [\A n \in Lanes : Seen(guard[n])' \in LaneEvents(n)]_vars
  BY <1>1, LaneCycle DEF Next
<1> QED
  BY <1>1, GuardsAlways, PTL DEF Spec, CycleIsEvents

=============================================================================
