---------------------------- MODULE RouteService ----------------------------
(***************************************************************************)
(* Who may drive an INTONO output jack, and when.                          *)
(*                                                                         *)
(* Two threads of the firmware share the reservations: the foreground loop *)
(* (route edits, START/STOP, the tuning reference, calibration, recall of  *)
(* a saved setup) and the 1 ms timer interrupt, which services the playing *)
(* lanes in two half batches and stops them on a fault.  Both write the    *)
(* gateware: four guarded playback lanes that change together at a DAC     *)
(* sample after a commit, and one guarded port that calibration and the    *)
(* reference take turns to use.  Each of those runs at its own pace, so an *)
(* action below is one critical section of a thread or one DAC event.      *)
(*                                                                         *)
(* Abstracted: voltages, tokens and milliseconds.  A lane may command, wait*)
(* or fail at any service; a deadline may pass at any poll; the module     *)
(* PlaybackLink models the tokens and the clock of one lane's handshake.   *)
(***************************************************************************)
EXTENDS Integers, Reservations

CONSTANT FirstBatch     \* the outputs the interrupt services in phase 0

ASSUME BatchAssumption == FirstBatch \subseteq Outputs

VARIABLES
    claims,     \* OWNERS
    groups,     \* the route layout, App::groups = MultiQuant::groups
    active,     \* the lanes with Engine::active
    running,    \* MultiQuant::running
    phase,      \* MultiQuant::phase
    last,       \* MultiQuant::last_cycle: "none" is 0, "fresh" the previous
                \* interrupt's, "stale" older than that
    lanes,      \* the gateware guard of each output's playback lane
    commit,     \* commit_pending: a staged frame waits for the DAC
    port,       \* the gateware guard shared by calibration and reference
    cal,        \* the calibration operation and the jacks it captured
    ref,        \* the reference adapter: its phase and its output
    turn        \* how far the foreground loop is in its current turn

software == <<claims, groups, active, running, phase, last>>
gateware == <<lanes, commit, port>>
vars == <<claims, groups, active, running, phase, last,
          lanes, commit, port, cal, ref, turn>>

-----------------------------------------------------------------------------
(* Gateware values.                                                        *)

Lane == [staged : BOOLEAN, enabled : BOOLEAN, fault : BOOLEAN]
LaneOff == [staged |-> FALSE, enabled |-> FALSE, fault |-> FALSE]

\* The port stages a command for output next; at is the output of the command
\* it applied last, acked that no newer target than that is outstanding.
Port == [staged : BOOLEAN, enabled : BOOLEAN, fault : BOOLEAN,
         at : Outputs, next : Outputs, acked : BOOLEAN]

PortOff(p) ==
    [p EXCEPT !.staged = FALSE, !.enabled = FALSE, !.fault = FALSE,
              !.acked = FALSE]

\* An enabling write is ignored while the fault latch is set.
PortOn(p, n) ==
    IF p.fault THEN p
    ELSE [p EXCEPT !.staged = TRUE, !.next = n, !.acked = FALSE]

\* cal_status & (ACTIVE | FAULT), and the lane that the port overrides.
Quiet(p) == ~p.enabled /\ ~p.fault
Inhibited(n) == ~Quiet(port) /\ port.at = n

\* An enabling write is lost while the lane is inhibited, faulted, or while an
\* earlier frame still waits for the DAC; a disable always takes effect.
LaneOn(n) ==
    IF Inhibited(n) THEN LaneOff
    ELSE IF commit \/ lanes[n].fault THEN lanes[n]
    ELSE [lanes[n] EXCEPT !.staged = TRUE]

-----------------------------------------------------------------------------
(* Pieces of MultiQuant.                                                   *)

Members(r) == groups[r].outputs
Claim(o, ins, outs) == claims' = Claimed(claims, o, ins, outs)

\* Mutant: a route counts as broken only when it has lost every member.
BrokenWhenSilent(playing) ==
    {r \in Routes : Held(claims, r) /\ Members(r) \intersect playing = {}}

\* Held routes with a member that is not in the set still playing.
Broken(playing) ==
    {r \in Routes : Held(claims, r) /\ ~(Members(r) \subseteq playing)}

\* stop_group for each route of rs, when the lanes in playing were active and
\* the gateware lanes were hw: every member is stopped and disabled, the
\* claim released, and running recomputed.  Layouts are disjoint, so the order
\* of the routes does not matter.
MembersOf(rs) == UNION {Members(r) : r \in rs}

\* Mutant: only the members that had failed are disabled in the gateware.
StopFailedOnly(rs, playing, hw) ==
    /\ active' = playing \ MembersOf(rs)
    /\ lanes' = [n \in Outputs |->
                    IF n \in MembersOf(rs) \ playing THEN LaneOff ELSE hw[n]]

StopGroups(rs, playing, hw) ==
    /\ active' = playing \ MembersOf(rs)
    /\ lanes' = [n \in Outputs |-> IF n \in MembersOf(rs) THEN LaneOff ELSE hw[n]]

\* The half batch of a phase, and the phase after it.
Batch == IF phase = 0 THEN FirstBatch ELSE Outputs \ FirstBatch

\* Mutant: the batches are counted instead of alternated.
CountBatches == phase + 1
OtherBatch == 1 - phase

\* Mutant: only the half batch being serviced is disabled.
StopBatch ==
    /\ active' = {}
    /\ lanes' = [n \in Outputs |-> IF n \in Batch THEN LaneOff ELSE lanes[n]]
    /\ running' = FALSE
    /\ phase' = 0

\* stop: every lane is disabled, the claims stay for a later reconciliation.
StopAll ==
    /\ active' = {}
    /\ lanes' = [n \in Outputs |-> LaneOff]
    /\ running' = FALSE
    /\ phase' = 0

-----------------------------------------------------------------------------
Init ==
    /\ claims = NoClaims
    /\ groups \in {g \in Layouts : \A r \in Routes : g[r].outputs = {}}
    /\ active = {}
    /\ running = FALSE
    /\ phase = 0
    /\ last = "none"
    /\ lanes = [n \in Outputs |-> LaneOff]
    /\ commit = FALSE
    /\ port \in {p \in Port : p = PortOff(p)}
    /\ cal \in [on : {FALSE}, input : Inputs, output : Outputs]
    /\ ref \in [phase : {0}, output : Outputs]
    /\ turn = "reference"

-----------------------------------------------------------------------------
(* The timer interrupt.  done is the outcome of the two lane ticks: lanes  *)
(* in failed stop themselves and write a disable, lanes in sent write a new*)
(* enabled command.  A lane whose guard reports a fault always fails.      *)

Ticked(failed, sent) ==
    [n \in Outputs |-> IF n \in failed THEN LaneOff
                       ELSE IF n \in sent THEN LaneOn(n)
                       ELSE lanes[n]]

\* More than 5 ms since the last service: everything stops.
IsrGap ==
    /\ running /\ last # "none"
    /\ StopAll
    /\ UNCHANGED <<claims, groups, last, commit, port, cal, ref, turn>>

\* One half batch within its budget: the held routes that lost a member stop
\* before the second half commits the frame.
IsrService(failed, sent) ==
    /\ running
    /\ {n \in Batch \intersect active : lanes[n].fault} \subseteq failed
    /\ StopGroups(Broken(active \ failed), active \ failed, Ticked(failed, sent))
    /\ claims' = Released(claims, Broken(active \ failed))
    /\ running' = (active' # {})
    /\ phase' = OtherBatch
    /\ commit' = (commit \/ phase = 1)
    /\ last' = "fresh"
    /\ UNCHANGED <<groups, port, cal, ref, turn>>

\* The same half batch over the 500 us budget.  The interrupt may notice after
\* the lane ticks (no commit) or, with the MIDI work, after the commit.
IsrOverrun(failed, sent, late) ==
    /\ running
    /\ {n \in Batch \intersect active : lanes[n].fault} \subseteq failed
    /\ claims' = Released(claims, Broken(active \ failed))
    /\ StopAll
    /\ commit' = (commit \/ (late /\ phase = 1))
    /\ last' = "fresh"
    /\ UNCHANGED <<groups, port, cal, ref, turn>>

\* Nothing plays: the interrupt returns without taking a timestamp.
IsrIdle ==
    /\ ~running
    /\ last' = IF last = "fresh" THEN "stale" ELSE last
    /\ UNCHANGED <<claims, groups, active, running, phase,
                   gateware, cal, ref, turn>>

\* Nothing plays and the handler overran: the combined guard stops all again.
IsrIdleOverrun ==
    /\ ~running
    /\ last' = IF last = "fresh" THEN "stale" ELSE last
    /\ StopAll
    /\ UNCHANGED <<claims, groups, commit, port, cal, ref, turn>>

Isr ==
    \/ IsrGap
    \/ IsrIdle
    \/ IsrIdleOverrun
    \/ \E failed \in SUBSET (Batch \intersect active) :
       \E sent \in SUBSET ((Batch \intersect active) \ failed) :
          \/ IsrService(failed, sent)
          \/ \E late \in BOOLEAN : IsrOverrun(failed, sent, late)

-----------------------------------------------------------------------------
(* The foreground loop.  One turn polls the reference and, once in a UI    *)
(* period, goes through the stages below; each of them serves at most one  *)
(* request of the user.                                                    *)

Turns == {"reference", "reconcile", "edit", "play", "recall", "loading",
          "start", "calibrate"}

Stage(from, to) == turn = from /\ turn' = to

\* No request for this stage.
Pass ==
    /\ \/ Stage("edit", "play")
       \/ Stage("play", "recall")
       \/ Stage("recall", "start")
       \/ Stage("start", "calibrate")
       \/ Stage("start", "reference")
       \/ Stage("calibrate", "reference")
    /\ UNCHANGED <<software, gateware, cal, ref>>

\* Mutant: an operation keeps its jacks until another one takes them over.
NeverEnded == {}

\* The operation slot, when its jacks may go back.
Ended == IF cal.on THEN {} ELSE {Calibration}

\* Routes that lost a member outside the interrupt's own check are stopped, and
\* a calibration that is not running gives its jacks back.
Reconcile ==
    /\ Stage("reconcile", "edit")
    /\ LET broken == Broken(active)
       IN /\ StopGroups(broken, active, lanes)
          /\ claims' = Released(claims, broken \union Ended)
          /\ running' = IF broken = {} THEN running ELSE active' # {}
    /\ UNCHANGED <<groups, phase, last, commit, port, cal, ref>>

\* poll_ui_frame on the route page: the source selector is applied when the
\* jack is available, then one pending ADD/REMOVE of output n.
WithSource(r, i) ==
    IF AvailableInput(groups, claims, r, i)
    THEN [groups EXCEPT ![r].input = i] ELSE groups

\* Mutant: a silent route may be edited while it still holds its jacks.
EditableWhenSilent(r) == Members(r) \intersect active = {}

Editable(r) == ~Held(claims, r)

EditRoute(r, i, n, assign) ==
    /\ Stage("edit", "play")
    /\ Editable(r)
    /\ groups' =
         LET g == WithSource(r, i)
             member == n \in g[r].outputs
         IN IF assign /\ (member \/ AvailableOutput(g, claims, r, n))
            THEN Assign(g, r, n, ~member) ELSE g
    /\ UNCHANGED <<claims, active, running, phase, last, gateware, cal, ref>>

\* The user presses START/STOP on route r (MultiQuant::toggle).
ToggleStop(r) ==
    /\ Stage("play", "recall")
    /\ Held(claims, r)
    /\ StopGroups({r}, active, lanes)
    /\ claims' = Released(claims, {r})
    /\ running' = (active' # {})
    /\ UNCHANGED <<groups, phase, last, commit, port, cal, ref>>

Startable(r) ==
    /\ Stage("play", "recall")
    /\ ~Held(claims, r)
    /\ CanClaim(claims, r, {groups[r].input}, Members(r))

\* Mutant: the timestamp of an earlier run is kept.
ResumeService ==
    /\ phase' = IF running THEN phase ELSE 0
    /\ last' = last

\* The first route to start begins a frame and forgets the last service.
BeginService ==
    /\ phase' = IF running THEN phase ELSE 0
    /\ last' = IF running THEN last ELSE "none"

ToggleStart(r) ==
    /\ Startable(r)
    /\ Claim(r, {groups[r].input}, Members(r))
    /\ active' = active \union Members(r)
    /\ lanes' = [n \in Outputs |-> IF n \in Members(r) THEN LaneOff ELSE lanes[n]]
    /\ running' = TRUE
    /\ BeginService
    /\ UNCHANGED <<groups, commit, port, cal, ref>>

\* A member cannot arm (its zero note, curve or pattern is unusable): the
\* members armed before it are stopped again and the claim is given back.
ToggleFailed(r) ==
    /\ Startable(r)
    /\ StopGroups({r}, active, lanes)
    /\ running' = (active' # {})
    /\ BeginService
    /\ UNCHANGED <<claims, groups, commit, port, cal, ref>>

\* persist_setup(load): refused while an operation or a route holds jacks, then
\* flash is read with interrupts on, then a valid record replaces the layout at
\* once; an unreadable or invalid one leaves it (g = groups).
RecallBegin ==
    /\ Stage("recall", "loading")
    /\ \A o \in Routes \union {Calibration} : ~Held(claims, o)
    /\ UNCHANGED <<software, gateware, cal, ref>>

RecallFinish(g) ==
    /\ Stage("loading", "start")
    /\ LayoutValid(g)
    /\ groups' = g
    /\ UNCHANGED <<claims, active, running, phase, last, gateware, cal, ref>>

-----------------------------------------------------------------------------
(* The tuning reference: one poll at the head of every turn, followed by   *)
(* the write of its command.  The rest of the turn waits for the UI period.*)

AfterPoll == turn = "reference" /\ turn' \in {"reference", "reconcile"}

\* Phase 3: the jack is kept until the port reports neither active nor fault;
\* until then the disable is written again.
ReferenceDrain ==
    /\ AfterPoll
    /\ ref.phase = 3
    /\ IF Quiet(port)
       THEN /\ ref' = [ref EXCEPT !.phase = 0]
            /\ claims' = Released(claims, {Reference})
            /\ UNCHANGED port
       ELSE /\ port' = PortOff(port)
            /\ UNCHANGED <<ref, claims>>
    /\ UNCHANGED <<groups, active, running, phase, last, lanes, commit, cal>>

\* The user, another page, a lost acknowledgement, and whatever forces a stop.
ReferenceStop ==
    /\ AfterPoll
    /\ ref.phase \in {1, 2}
    /\ ref' = [ref EXCEPT !.phase = 3]
    /\ port' = PortOff(port)
    /\ UNCHANGED <<software, lanes, commit, cal>>

MustStop ==
    \/ cal.on
    \/ port.fault
    \/ ref.phase = 2 /\ ~port.enabled

\* A write that enables the port on output n also disables lane n.
PortWrite(n) ==
    /\ port' = PortOn(port, n)
    /\ lanes' = [lanes EXCEPT ![n] = LaneOff]

ReferenceStart(n) ==
    /\ AfterPoll
    /\ ref.phase = 0 /\ ~cal.on
    /\ n \in FreeOutputs(claims, Reference) \ Assigned(groups)
    /\ CanClaim(claims, Reference, {}, {n})
    /\ Claim(Reference, {}, {n})
    /\ ref' = [phase |-> 1, output |-> n]
    /\ PortWrite(n)
    /\ UNCHANGED <<groups, active, running, phase, last, commit, cal>>

\* The user turns the voltage: a new token must be acknowledged.
ReferenceRetarget ==
    /\ AfterPoll
    /\ ref.phase \in {1, 2} /\ ~cal.on /\ ~port.fault
    /\ ref' = [ref EXCEPT !.phase = 1]
    /\ PortWrite(ref.output)
    /\ UNCHANGED <<software, commit, cal>>

ReferenceAcked ==
    /\ AfterPoll
    /\ ref.phase = 1 /\ ~MustStop
    /\ port.enabled /\ port.acked
    /\ ref' = [ref EXCEPT !.phase = 2]
    /\ UNCHANGED <<software, gateware, cal>>

\* Off, waiting for the acknowledgement, or steady: the command written again
\* is the one the port already has.
ReferenceIdle ==
    /\ AfterPoll
    /\ ref.phase # 3
    /\ ref.phase # 0 => ~MustStop
    /\ UNCHANGED <<software, gateware, cal, ref>>

-----------------------------------------------------------------------------
(* Calibration, CHECK and REFINE: one operation slot.                      *)

\* A start request, held back until the reference is off.  The workflow may
\* still decline after the claim was granted; the claim then stays until the
\* next reconciliation.
CalibrationStart(i, n, accepted) ==
    /\ Stage("start", "calibrate")
    /\ ref.phase = 0 /\ ~cal.on
    /\ CanClaim(claims, Calibration, {i}, {n})
    /\ Claim(Calibration, {i}, {n})
    /\ cal' = IF accepted THEN [on |-> TRUE, input |-> i, output |-> n] ELSE cal
    /\ port' = IF accepted THEN PortOff(port) ELSE port
    /\ UNCHANGED <<groups, active, running, phase, last, lanes, commit, ref>>

CalibrationTarget ==
    /\ Stage("calibrate", "reference")
    /\ cal.on
    /\ PortWrite(cal.output)
    /\ UNCHANGED <<software, commit, cal, ref>>

\* Mutant: the operation ends and leaves its last voltage on the port.
CalibrationLeaves(ends) ==
    /\ Stage("calibrate", "reference")
    /\ cal.on
    /\ cal' = [cal EXCEPT !.on = ~ends]
    /\ UNCHANGED <<software, gateware, ref>>

\* The output is disabled between stages (ends = FALSE) and when the operation
\* is over, was cancelled or failed.
CalibrationDisable(ends) ==
    /\ Stage("calibrate", "reference")
    /\ cal.on
    /\ cal' = [cal EXCEPT !.on = ~ends]
    /\ port' = PortOff(port)
    /\ UNCHANGED <<software, lanes, commit, ref>>

-----------------------------------------------------------------------------
(* The gateware.                                                           *)

\* The DAC takes a sample: the port applies what it staged, and after a commit
\* so do the lanes, all at once, except the one the port overrides.
DacSample ==
    /\ port.staged \/ commit
    /\ port' = IF port.staged
               THEN [port EXCEPT !.staged = FALSE, !.enabled = TRUE,
                                 !.at = port.next, !.acked = TRUE]
               ELSE port
    /\ lanes' = IF commit
                THEN [n \in Outputs |->
                        IF Inhibited(n) THEN LaneOff
                        ELSE IF lanes[n].staged
                        THEN [LaneOff EXCEPT !.enabled = TRUE]
                        ELSE lanes[n]]
                ELSE lanes
    /\ commit' = FALSE
    /\ UNCHANGED <<software, cal, ref, turn>>

\* No write for 100 ms: the guard closes the output and latches a fault.
LaneWatchdog(n) ==
    /\ lanes[n].enabled
    /\ lanes' = [lanes EXCEPT ![n] = [LaneOff EXCEPT !.fault = TRUE]]
    /\ UNCHANGED <<software, commit, port, cal, ref, turn>>

PortWatchdog ==
    /\ port.enabled
    /\ port' = [PortOff(port) EXCEPT !.fault = TRUE]
    /\ UNCHANGED <<software, lanes, commit, cal, ref, turn>>

-----------------------------------------------------------------------------
Edit ==
    \E r \in Routes, i \in Inputs, n \in Outputs, assign \in BOOLEAN :
        EditRoute(r, i, n, assign)

Play == \E r \in Routes : ToggleStop(r) \/ ToggleStart(r) \/ ToggleFailed(r)

Recall == RecallBegin \/ \E g \in Layouts : RecallFinish(g)

ReferencePoll ==
    \/ ReferenceDrain
    \/ ReferenceStop
    \/ \E n \in Outputs : ReferenceStart(n)
    \/ ReferenceRetarget
    \/ ReferenceAcked
    \/ ReferenceIdle

CalibrationPoll ==
    \/ \E i \in Inputs, n \in Outputs, accepted \in BOOLEAN :
          CalibrationStart(i, n, accepted)
    \/ CalibrationTarget
    \/ \E ends \in BOOLEAN : CalibrationDisable(ends)

Foreground ==
    \/ ReferencePoll
    \/ Reconcile
    \/ Edit
    \/ Play
    \/ Recall
    \/ CalibrationPoll
    \/ Pass

Gateware == DacSample \/ PortWatchdog \/ \E n \in Outputs : LaneWatchdog(n)

Next == Isr \/ Foreground \/ Gateware

Spec == Init /\ [][Next]_vars

\* The foreground loop never blocks, and the UI period passes.
Fairness ==
    /\ WF_vars(Foreground)
    /\ WF_vars(ReferencePoll /\ turn' = "reconcile")

FairSpec == Spec /\ Fairness

-----------------------------------------------------------------------------
(* What the service promises.                                              *)

TypeOK ==
    /\ claims \in [Owners -> Row]
    /\ groups \in Layouts
    /\ active \in SUBSET Outputs
    /\ running \in BOOLEAN
    /\ phase \in {0, 1}
    /\ last \in {"none", "fresh", "stale"}
    /\ lanes \in [Outputs -> Lane]
    /\ commit \in BOOLEAN
    /\ port \in Port
    /\ cal \in [on : BOOLEAN, input : Inputs, output : Outputs]
    /\ ref \in [phase : 0..3, output : Outputs]
    /\ turn \in Turns

\* No jack is reserved by two owners at once (ownership.rs, claim).
JackExclusion ==
    \A o, p \in Owners :
        o # p => ~Overlaps(claims[o], claims[p].inputs, claims[p].outputs)

\* A running route owns exactly the jacks its layout names, although the
\* layout is edited and recalled elsewhere: stop_group, which walks the layout,
\* reaches every jack that the claim gives back.
HeldMatchesLayout ==
    /\ LayoutValid(groups)
    /\ \A r \in Routes :
        Held(claims, r) =>
            claims[r] = [inputs |-> {groups[r].input}, outputs |-> Members(r)]

\* A route plays with all of its outputs or with none, and only while it holds
\* them (CONCURRENCY.md: "Any failure stops the whole group").
PlaysAsAGroup ==
    /\ active \subseteq MembersOf({r \in Routes : Held(claims, r)})
    /\ \A r \in Routes : Members(r) \intersect active \in {{}, Members(r)}

\* No playing lane is left without the interrupt that feeds and watches it,
\* and the first service after a start never sees the timestamp of an earlier
\* run and mistakes the idle time for a scheduling gap.
PlayingIsServiced ==
    /\ active # {} => running
    /\ running => last # "stale"

PortUser ==
    IF cal.on THEN claims[Calibration].outputs ELSE claims[Reference].outputs

LanesFollow(hw, playing) ==
    \A n \in Outputs : hw[n].enabled \/ hw[n].staged => n \in playing

\* A faulted port drives nothing but still silences the lane it drove.
PortFollows ==
    /\ ~Quiet(port) => port.at \in PortUser
    /\ port.staged => port.next \in PortUser

\* The gateware drives an output, or is about to, only for its present owner:
\* a lane for a playing route, the port for the operation whose claim names
\* the output; and calibration and the reference never use the port together.
DrivenByItsOwner ==
    /\ LanesFollow(lanes, active)
    /\ PortFollows
    /\ ~(cal.on /\ ref.phase # 0)

\* A claim is given back only in a step after which neither guard drives the
\* outputs it named, nor will at the next DAC sample (reference_cv.rs: "Never
\* release a jack while the DAC-side owner still reports active").
ReleasedOutputsAreSilent ==
    [][\A o \in Owners :
         Held(claims, o) /\ claims'[o] = NoJacks =>
           \A n \in claims[o].outputs :
              /\ ~lanes'[n].enabled /\ ~lanes'[n].staged
              /\ ~(port'.enabled /\ port'.at = n)
              /\ ~(port'.staged /\ port'.next = n)]_vars

\* The claim of a route that lost a member, and of a calibration that ended or
\* never began, comes back without anyone pressing a button; a stopped
\* reference drains.
StrandedClaimsReturn ==
    /\ \A r \in Routes :
         (Held(claims, r) /\ ~(Members(r) \subseteq active)) ~> ~Held(claims, r)
    /\ (Held(claims, Calibration) /\ ~cal.on)
         ~> (~Held(claims, Calibration) \/ cal.on)
    /\ ref.phase = 3 ~> ref.phase = 0

\* README.md: "Adding a stopped output transfers it from its previous group."
\* The code refuses the output instead, and the user removes it first.
AddTransfersStoppedOutput ==
    [][\A r, s \in Routes, n \in Outputs :
         /\ r # s /\ n \in Members(s) /\ ~Held(claims, s)
         /\ n \in FreeOutputs(claims, r) /\ ~SharesSource(groups, r)
         /\ EditRoute(r, groups[r].input, n, TRUE)
         => n \in groups'[r].outputs]_vars

-----------------------------------------------------------------------------
(* The service implements the allocator: a jack is live while a lane or the*)
(* port drives it.                                                         *)

Grant == [o \in Owners |-> claims[o].inputs \union claims[o].outputs]

Live ==
    {n \in Outputs : lanes[n].enabled}
    \union (IF port.enabled THEN {port.at} ELSE {})

Allocator == INSTANCE JackAllocator
    WITH Jacks <- Inputs \union Outputs, grant <- Grant, live <- Live

\* Every step of the two threads and of the gateware is a step of the
\* allocator, or none.
ImplementsAllocator == Allocator!Spec
=============================================================================
