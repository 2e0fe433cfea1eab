---------------------------- MODULE OutputGuards ----------------------------
(***************************************************************************)
(* The clocked gateware between the firmware and the DAC: five             *)
(* CalibrationOutput instances, one that any output can be given (the      *)
(* port) and one for each output (the lanes), and their arbitration.       *)
(*                                                                         *)
(* A step is one clock cycle with at most one register write and perhaps a *)
(* DAC sample.  The statements of the clocked process are read in their    *)
(* order and the last assignment to a register wins, so a watchdog, a      *)
(* sample and a write that meet in one cycle all count.                    *)
(***************************************************************************)
EXTENDS GuardedLane, Integers

CONSTANTS
    Channels,   \* the outputs, numbered as in the channel field
    Lanes,      \* those whose lane is followed
    Excess,     \* a voltage outside the limits of the guard
    Watchdog    \* watchdog_cycles

ASSUME GuardsAssumption ==
    /\ Channels \subseteq Nat /\ 0 \in Channels
    /\ Lanes \subseteq Channels
    /\ 0 \in Tokens /\ 0 \in Values
    /\ Excess \notin Values
    /\ Watchdog \in Nat \ {0}

VARIABLES
    guard,          \* the registers of the port and of the lanes
    commit_pending,
    silence         \* history: cycles since a guard accepted an enabled command
                    \* or applied one, saturating

vars == <<guard, commit_pending, silence>>

Port == -1          \* cal_output; the other guards are numbered as their outputs
Guards == Lanes \union {Port}

-----------------------------------------------------------------------------
(* A command word without its input field, which selects a measurement.    *)

Word == [token : Tokens, value : Values \union {Excess}, enable : BOOLEAN,
         channel : Channels]

ZeroWord == [token |-> 0, value |-> 0, enable |-> FALSE, channel |-> 0]

Malformed(w) == w.value = Excess

Disables(w) == ~Malformed(w) /\ ~w.enable

-----------------------------------------------------------------------------
(* One guard.  token, channel and value are assigned together from the     *)
(* command, and are kept together as applied.                              *)

Registers == [pending : BOOLEAN, command : Word, applied : Word,
              enabled : BOOLEAN, age : 0..Watchdog, fault : BOOLEAN]

Reset == [pending |-> FALSE, command |-> ZeroWord, applied |-> ZeroWord,
          enabled |-> FALSE, age |-> 0, fault |-> FALSE]

Active(g) == g.enabled /\ ~g.fault

\* Mutant: one cycle too many.
ExpiresLate(g) == g.enabled /\ g.age = Watchdog

Expires(g) == g.enabled /\ g.age = Watchdog - 1

\* An enabled command needs a guard without a fault.
Accepts(g, w) == ~Malformed(w) /\ w.enable /\ ~g.fault

\* Mutant: the age runs on when the watchdog fires.
AgeRunsOn(g, rearmed) ==
    IF rearmed THEN 0 ELSE IF g.enabled THEN g.age + 1 ELSE g.age

NextAge(g, rearmed) ==
    IF rearmed THEN 0
    ELSE IF g.enabled /\ ~Expires(g) THEN g.age + 1
    ELSE g.age

\* One cycle of a guard; w is written to it if write is set.
Clocked(g, w, write, advance) ==
    LET applies == g.pending /\ advance
        refuses == write /\ Malformed(w)
        disables == write /\ Disables(w)
        takes == disables \/ (write /\ Accepts(g, w))
    IN [pending |-> \/ takes
                    \/ g.pending /\ ~advance /\ ~Expires(g) /\ ~refuses,
        command |-> IF takes THEN w ELSE g.command,
        applied |-> IF applies THEN g.command ELSE g.applied,
        enabled |-> /\ ~refuses /\ ~disables
                    /\ IF applies THEN g.command.enable /\ ~g.fault
                       ELSE g.enabled /\ ~Expires(g),
        age     |-> NextAge(g, takes),
        fault   |-> refuses \/ (~disables /\ (g.fault \/ Expires(g)))]

-----------------------------------------------------------------------------
(* The arbitration.  bus is the register write of the cycle: to a guard,   *)
(* to the commit register, or none.                                        *)

Idle == [to |-> {}, commit |-> FALSE, word |-> ZeroWord]
CommitWrite == [Idle EXCEPT !.commit = TRUE]
GuardWrites ==
    {[to |-> {g}, commit |-> FALSE, word |-> w] : g \in Guards, w \in Word}

Bus == GuardWrites \union {Idle, CommitWrite}

PortOn(n) ==
    /\ Active(guard[Port]) \/ guard[Port].fault
    /\ guard[Port].applied.channel = n

\* The port has priority on its output from the cycle in which an enabled
\* command for it is written.
Inhibited(n, bus) ==
    \/ PortOn(n)
    \/ Port \in bus.to /\ bus.word.enable /\ bus.word.channel = n

\* Mutant: a frame that waits for the DAC can still be written.
Unfrozen(w) == TRUE

\* Explicit disables take effect even while the frame waits for the DAC.
Admitted(w) == ~commit_pending \/ ~w.enable

Writes(g, bus) ==
    \/ g # Port /\ Inhibited(g, bus)
    \/ g \in bus.to /\ (g = Port \/ Admitted(bus.word))

WordTo(g, bus) == IF g # Port /\ Inhibited(g, bus) THEN ZeroWord ELSE bus.word

Advances(g, bus, advance) ==
    advance /\ (g # Port => commit_pending /\ ~Inhibited(g, bus))

-----------------------------------------------------------------------------
Init ==
    /\ guard = [g \in Guards |-> Reset]
    /\ commit_pending = FALSE
    /\ silence = [g \in Guards |-> 0]

Heard(g, bus, advance) ==
    \/ Writes(g, bus) /\ Accepts(guard[g], WordTo(g, bus))
    \/ guard[g].pending /\ Advances(g, bus, advance)

Cycle(bus, advance) ==
    /\ guard' = [g \in Guards |->
           Clocked(guard[g], WordTo(g, bus), Writes(g, bus), Advances(g, bus, advance))]
    /\ commit_pending' =
           ((commit_pending \/ bus.commit) /\ ~(commit_pending /\ advance))
    /\ silence' = [g \in Guards |->
           IF Heard(g, bus, advance) THEN 0
           ELSE IF silence[g] = Watchdog THEN Watchdog
           ELSE silence[g] + 1]

Next == \E bus \in Bus, advance \in BOOLEAN : Cycle(bus, advance)

Spec == Init /\ [][Next]_vars

-----------------------------------------------------------------------------
TypeOK ==
    /\ guard \in [Guards -> Registers]
    /\ commit_pending \in BOOLEAN
    /\ silence \in [Guards -> 0..Watchdog]

\* Wherever a command, an expiry and a sample meet, a guard is closed as soon as
\* it has heard nothing for the watchdog period.
ClosesInSilence ==
    \A g \in Guards : Active(guard[g]) => silence[g] < Watchdog

-----------------------------------------------------------------------------
(* What the software sees of a guard is GuardedLane.                       *)

Asked(w) == [token |-> w.token, value |-> w.value]

Seen(g) ==
    [staged |-> IF g.pending /\ g.command.enable /\ ~g.fault
                THEN Asked(g.command) ELSE Nothing,
     shows  |-> IF Active(g) THEN Asked(g.applied) ELSE Nothing,
     fault  |-> g.fault]

\* The sample takes the committed frame; then the watchdog may trip.
AfterSample(n) ==
    LET s == IF commit_pending /\ ~commit_pending' THEN Sampled(Seen(guard[n]))
             ELSE Seen(guard[n])
    IN {s} \union (IF s.shows # Nothing THEN {Tripped} ELSE {})

\* A cycle of a lane is a sample, an expiry and a write, each of which may be
\* missing, in this order; a lane under the port is disabled.
LaneEvents(n) ==
    IF PortOn(n) THEN {Disabled}
    ELSE AfterSample(n) \union {Disabled, Tripped}
         \union {Written(s, c, commit_pending) : s \in AfterSample(n), c \in Command}

\* The registers, their races included, do what PlaybackLink takes for granted:
\* frames are applied as a whole, a frozen frame does not change, a tripped lane
\* stays silent until a disable, and a lane that the port covered shows nothing
\* until it is commanded anew.
CycleIsEvents ==
    [][\A n \in Lanes : Seen(guard[n])' \in LaneEvents(n)]_vars
=============================================================================
