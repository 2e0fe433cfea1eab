---------------------------- MODULE PlaybackLink ----------------------------
(***************************************************************************)
(* How a route's voltage gets to the DAC.                                  *)
(*                                                                         *)
(* Each member lane of a running route has an engine in the firmware and a *)
(* guard in the gateware.  Every other interrupt the engine turns the      *)
(* snapshot of its CV input into a command with a new token; it believes   *)
(* the command shown only when the guard's status carries that token, and  *)
(* gives up when the answer or the input stays away.  Half of the lanes    *)
(* are serviced in one interrupt and half in the next, from one snapshot,  *)
(* and the second half commits the frame that the DAC then takes as one.   *)
(*                                                                         *)
(* One route group is modelled in full; other routes only keep the         *)
(* interrupt running.  Voltages are the samples they are computed from;    *)
(* now is the count of interrupts, so ages grow by one in each.  A command *)
(* goes out in the very tick that consumes a sample, so the age of the     *)
(* unanswered command and the age of the sample are the one field quiet.   *)
(***************************************************************************)
EXTENDS GuardedLane, Integers

CONSTANTS
    Lanes,          \* the outputs of the route group
    FirstBatch,     \* those among the outputs serviced in phase 0
    Modulus,        \* tokens wrap; 256 in the code
    NoAck,          \* interrupts until a missing answer counts, 3
    StaleAfter,     \* interrupts until the input counts as dead, 10
    DacKeepsUp      \* the DAC takes every frame before the next interrupt

ASSUME LinkAssumption ==
    /\ FirstBatch \subseteq Lanes
    /\ Modulus \in Nat /\ Modulus >= 2
    /\ Tokens = 0..(Modulus - 1)
    /\ NoAck \in Nat /\ StaleAfter \in Nat \ {0}
    /\ DacKeepsUp \in BOOLEAN

VARIABLES
    engine,     \* Engine of each lane
    lane,       \* the guard of each lane
    commit,     \* commit_pending
    phase,      \* MultiQuant::phase
    snap,       \* MultiQuant::samples of the route's input, Nothing if invalid
    others      \* some other route is playing

vars == <<engine, lane, commit, phase, snap, others>>

Engine == [active : BOOLEAN, token : Tokens, pending : BOOLEAN,
           last : Values \union {Nothing},  \* last_command
           seen : BOOLEAN,                  \* sequence is the snapshot's
           quiet : Nat]                     \* now - last_sample

\* No comparison tells ages above both limits apart: ages saturate there.
Exceeds(age) == age > NoAck /\ age > StaleAfter

\* Mutant: the age is kept in a counter that wraps before the limit.
AgeWraps(age) == (age + 1) % NoAck

Older(age) == IF Exceeds(age) THEN age ELSE age + 1

Playing == \E n \in Lanes : engine[n].active
Running == Playing \/ others
Batch == IF phase = 0 THEN FirstBatch ELSE Lanes \ FirstBatch

-----------------------------------------------------------------------------
(* Engine::start and Engine::stop.  The token survives both.               *)

Started(e) ==
    [e EXCEPT !.active = TRUE, !.pending = FALSE, !.last = Nothing,
              !.seen = FALSE, !.quiet = 0]

\* The sample bookkeeping of a stopped engine is reset by the next start.
Stopped(e) == [Started(e) EXCEPT !.active = FALSE]

-----------------------------------------------------------------------------
(* Engine::tick of a lane, e being the engine at the current now, g its    *)
(* guard, s the snapshot, and bad whether this lane cannot map the sample. *)

\* Mutant: any active answer counts, whatever token it carries.
WaitsForAny(e, g) == e.pending /\ g.shows = Nothing

Waits(e, g) == e.pending /\ ~Acks(g, e.token)

\* Mutant: the age of the input is not looked at while it repeats itself.
FailsUnlessAnswered(e, g, s, bad) ==
    \/ g.fault
    \/ Waits(e, g) /\ e.quiet >= NoAck
    \/ ~Waits(e, g) /\ s # Nothing /\ ~e.seen /\ bad

NothingNew(e, s) == s = Nothing \/ e.seen

Fails(e, g, s, bad) ==
    \/ g.fault
    \/ Waits(e, g) /\ e.quiet >= NoAck
    \/ ~Waits(e, g) /\ NothingNew(e, s) /\ e.quiet >= StaleAfter
    \/ ~Waits(e, g) /\ ~NothingNew(e, s) /\ bad

Sends(e, g, s, bad) ==
    ~Fails(e, g, s, bad) /\ ~Waits(e, g) /\ ~NothingNew(e, s)

\* Mutants: the answer to any command looks like the answer to this one; a token
\* that does not fit its field.
SameToken(e) == e.token
UnwrappedToken(e) == e.token + 1

NextToken(e) == (e.token + 1) % Modulus

Told(e, s) == [token |-> NextToken(e), value |-> s]

Ticked(e, g, s, bad) ==
    IF Fails(e, g, s, bad) THEN Stopped(e)
    ELSE IF Sends(e, g, s, bad)
    THEN [e EXCEPT !.token = NextToken(e), !.pending = TRUE, !.last = s,
                   !.seen = TRUE, !.quiet = 0]
    ELSE [e EXCEPT !.pending = Waits(e, g)]

\* The command the tick returned, written to the guard.
Commanded(e, g, s, bad) ==
    IF Fails(e, g, s, bad) THEN Disabled
    ELSE IF Sends(e, g, s, bad) THEN Written(g, Told(e, s), commit)
    ELSE g

-----------------------------------------------------------------------------
Init ==
    /\ engine = [n \in Lanes |->
                    [active |-> FALSE, token |-> 0, pending |-> FALSE,
                     last |-> Nothing, seen |-> FALSE, quiet |-> 0]]
    /\ lane = [n \in Lanes |-> Disabled]
    /\ commit = FALSE
    /\ phase = 0
    /\ snap = Nothing
    /\ others = FALSE

StopGroup ==
    /\ engine' = [n \in Lanes |-> Stopped(engine[n])]
    /\ lane' = [n \in Lanes |-> Disabled]

-----------------------------------------------------------------------------
(* The timer interrupt.                                                    *)

\* Mutant: phase 1 takes a snapshot of its own.
TakesSample == TRUE

\* Both half batches use the snapshot that phase 0 takes.
TakesSnapshot == phase = 0

\* The engines at the new now; a new sample is one that none of them has seen.
Aged(fresh) ==
    [n \in Lanes |->
        IF ~engine[n].active THEN engine[n]
        ELSE [engine[n] EXCEPT !.quiet = Older(@), !.seen = @ /\ ~fresh]]

CommitsFrame == phase = 1

\* One half batch; a member that stopped takes its whole group along before the
\* frame is committed.
Service(s, fresh, bad) ==
    LET now == Aged(fresh)
        ticked(n) == n \in Batch /\ engine[n].active
        e(n) == IF ticked(n) THEN Ticked(now[n], lane[n], s, n \in bad) ELSE now[n]
        g(n) == IF ticked(n) THEN Commanded(now[n], lane[n], s, n \in bad) ELSE lane[n]
    IN /\ IF Playing /\ \E n \in Lanes : ~e(n).active
          THEN StopGroup
          ELSE /\ engine' = [n \in Lanes |-> e(n)]
               /\ lane' = [n \in Lanes |-> g(n)]
       /\ commit' = (commit \/ CommitsFrame)

\* stop: a scheduling gap, or the CPU budget, which is noticed before the
\* commit or (with the MIDI work) after it.
StopAll(committed) ==
    /\ StopGroup
    /\ commit' = (commit \/ committed)
    /\ others' = FALSE
    /\ phase' = 0

Interrupt(s, fresh, bad) ==
    /\ Running
    /\ DacKeepsUp => ~commit
    /\ \/ TakesSnapshot /\ fresh
       \/ s = snap /\ ~fresh
    /\ snap' = s
    /\ \/ /\ Service(s, fresh, bad)
          /\ phase' = 1 - phase
          /\ UNCHANGED others
       \/ StopAll(FALSE)
       \/ phase = 1 /\ StopAll(TRUE)

\* The gap check comes first, and takes no snapshot.
Gap ==
    /\ Running
    /\ DacKeepsUp => ~commit
    /\ StopAll(FALSE)
    /\ UNCHANGED snap

-----------------------------------------------------------------------------
(* The foreground: START and STOP of this route and of others.  The first  *)
(* route to start begins a frame.                                          *)

PhaseAtStart == IF Running THEN phase ELSE 0

Start ==
    /\ ~Playing
    /\ engine' = [n \in Lanes |-> Started(engine[n])]
    /\ lane' = [n \in Lanes |-> Disabled]
    /\ phase' = PhaseAtStart
    /\ UNCHANGED <<commit, snap, others>>

Stop ==
    /\ Playing
    /\ StopGroup
    /\ UNCHANGED <<commit, phase, snap, others>>

OthersStart ==
    /\ ~others
    /\ others' = TRUE
    /\ phase' = PhaseAtStart
    /\ UNCHANGED <<engine, lane, commit, snap>>

OthersStop ==
    /\ others
    /\ others' = FALSE
    /\ UNCHANGED <<engine, lane, commit, phase, snap>>

-----------------------------------------------------------------------------
(* The gateware.                                                           *)

DacSample ==
    /\ commit
    /\ lane' = [n \in Lanes |-> Sampled(lane[n])]
    /\ commit' = FALSE
    /\ UNCHANGED <<engine, phase, snap, others>>

\* No write for 100 ms: the interrupt did not come.
Watchdog(n) ==
    /\ lane[n].shows # Nothing
    /\ lane' = [lane EXCEPT ![n] = Tripped]
    /\ UNCHANGED <<engine, commit, phase, snap, others>>

-----------------------------------------------------------------------------
Interrupts ==
    \E s \in Values \union {Nothing}, fresh \in BOOLEAN, bad \in SUBSET Batch :
        /\ fresh => s # Nothing
        /\ Interrupt(s, fresh, bad)

Next ==
    \/ Interrupts
    \/ Gap
    \/ Start \/ Stop \/ OthersStart \/ OthersStop
    \/ DacSample
    \/ \E n \in Lanes : Watchdog(n)

Spec == Init /\ [][Next]_vars

\* The timer fires while interrupts are on, and the DAC runs on its own clock.
FairSpec == Spec /\ WF_vars(Interrupts) /\ WF_vars(DacSample)

-----------------------------------------------------------------------------
TypeOK ==
    /\ engine \in [Lanes -> Engine]
    /\ lane \in [Lanes -> Guard]
    /\ commit \in BOOLEAN
    /\ phase \in {0, 1}
    /\ snap \in Values \union {Nothing}
    /\ others \in BOOLEAN

\* An engine that believes its last command shown is right: tokens wrap, frozen
\* frames drop commands and stops discard them, but no answer to an older
\* command is ever taken for the answer to the last one.
ConfirmedIsShown ==
    \A n \in Lanes :
        LET e == engine[n] IN
        (e.active /\ ~e.pending /\ e.last # Nothing) =>
            lane[n].fault \/ lane[n].shows = [token |-> e.token, value |-> e.last]

Shown(n) == lane[n].shows.value
Drives(n) == lane[n].shows # Nothing

\* Outputs of one route never show different readings of their input
\* (README.md: "Both batches use the same captured input readings, and all four
\* staged voltages are committed together at one DAC update boundary").
GroupIsCoherent ==
    \A m, n \in Lanes : Drives(m) /\ Drives(n) => Shown(m) = Shown(n)

\* Even when the DAC falls behind and commands are lost, two outputs of a route
\* disagree only while an engine is still waiting for its answer.
DisagreementIsPending ==
    \A m, n \in Lanes :
        Drives(m) /\ Drives(n) /\ Shown(m) # Shown(n) =>
            engine[m].pending \/ engine[n].pending

\* No output is driven from an input that has been dead for longer than the
\* limit, nor for a route that has stopped.
VoltageIsFresh ==
    \A n \in Lanes :
        Drives(n) => engine[n].active /\ engine[n].quiet <= StaleAfter

Outstanding(n, token) == engine[n].pending /\ engine[n].token = token

\* Every command is answered or given up, however often routes start and stop.
CommandsSettle ==
    \A n \in Lanes, token \in Tokens :
        Outstanding(n, token) ~> ~Outstanding(n, token)
=============================================================================
