# A verification of INTONO: who drives an output jack, with what, and when

TLA+ models, TLC runs and TLAPS proofs for the INTONO instrument of this
repository (`gateware/src/top/intono`) and the gateware that guards its
outputs (`gateware/src/tiliqua/dsp/calibration_output.py`, `tuner.py`).
Paths below are relative to the repository's root; `fw/` stands for
`gateware/src/top/intono/fw/src/`.

## 1. The system

The repository is a fork of the Tiliqua Eurorack platform: Amaranth gateware,
a VexiiRiscv SoC, Rust firmware and some twenty instruments.  INTONO is the
instrument with the most logic of its own.  It measures four oscillators,
builds a pitch-to-voltage profile of one of them by driving its CV input and
listening to it, and then plays up to four corrected, quantized CV routes.

| component | state it keeps | operations | talks to |
|---|---|---|---|
| reservations (`fw/ownership.rs`) | per owner an input mask and an output mask | claim, release, held, free_mask | every starter of an operation |
| route layout (`fw/route_group.rs`) | per route one source, a set of outputs | assign, available, valid | the editor, START, setup recall |
| multi-lane quantizer (`fw/main.rs`, `MultiQuant`; `fw/calibration/playback.rs`, `Engine`) | four engines with token, pending acknowledgement, freshness; `running`, `phase`, `last_cycle` | toggle, stop_group, stop, the timer interrupt | the lane guards through `quant_command`, `quant_status`, `quant_commit` |
| tuning reference (`fw/reference_cv.rs`) | phase, output, token, deadline, command | one tick each foreground turn | the shared guarded port |
| calibration, CHECK, REFINE (`fw/calibration_live.rs`, `fw/calibration/*`) | the stage machine, captured jacks, profile under review | toggle, tick, accept, discard, refine, verify | the shared guarded port, the measurements |
| output guards (`calibration_output.py`, five instances and the arbitration in `tuner.py`) | per guard: command, pending, enabled, fault, age, token; one `commit_pending` | bus writes, one DAC sample, one clock cycle | the DAC |
| CV snapshots (`cv_snapshot.py`) | running mean, sequence number | one sample | the interrupt |
| curve binding (`bind_route`, `install_route_curve`) | per output the bound profile | BIND, auto-bind | slots in flash, engines |
| profile storage (`fw/calibration/storage.rs`, `bipolar_storage.rs`; `rs/opts/src/persistence.rs`) | records in flash | save, read back, load | flash |
| profile transfer (`fw/profile_transfer.rs`; `web/intono`) | one frame being received, one being sent, a session timeout; on the other side one job and one request | feed, respond, active; request, read, write | a browser over the UART |
| route MIDI and notes (`fw/main.rs`, `fw/midi_transpose.rs`, `fw/scale.rs`, `route_ui.rs`) | per route base, hold, shift, last note, base learning; per engine offset and note; the receive queue | press, release, edit, learn, recall, one interrupt | the interrupt, the settings page, scale learning |
| setups, scales, preferences (`persist_setup`, `persist_notes`, `preferences.rs`) | records in flash, the live configuration | save, load | flash, the layout |
| measurement (NSDF scheduler, detectors, `tuner.py` lanes) | windows, sequences | | calibration |
| menus, rendering, display (`ui_*`, `route_*`, `display.py`) | options, dirty regions | | |
| the other instruments and the platform | | | not part of INTONO |

Two threads run in the firmware.  The *foreground loop* polls the reference,
renews the active operation's command, serves the serial librarian and, once
per UI period, goes through reconciliation, route edits, START/STOP, saves and
recalls, start requests and the calibration tick.  The *1 ms timer interrupt*
services two of the four playback lanes, alternating, and commits the frame
after the second half.  They share state under critical sections.  The gateware
runs on: a guard closes its output after 100 ms without a write, and writes take
effect at DAC samples.

### What is hard here

* The claim, the layout, the engines and the gateware lanes describe the same
  thing four times and are updated in different threads.
* A stop by the interrupt (gap, budget) leaves the claims; only the foreground
  reconciles them, and between the two the user may edit, start or recall.
* A start must not mistake the idle time since the last run for a gap.
* The shared port is handed over between the reference and calibration.  A jack
  must be silent when its owner lets go of it.
* Four lanes change together at one DAC sample, in spite of faults, inhibition
  by the port, and writes that arrive while the frame waits.
* A wrong profile must never play: slots are rewritten, candidates accepted,
  setups recalled and APPLYs fail while a binding exists.
* A save is interrupted by a power loss or fails half way, and an older journal
  still has a record of the slot.
* The serial line loses and cuts frames and delays them beyond the patience of the
  librarian, whose sequence numbers wrap.
* A calibration run trims, edits, rolls back and checks again, and may be
  paused or fail at each point; its candidate, its check and its refinement
  must belong together.
* Notes, settings, learning and recall meet frames of two interrupts.

### Properties that make each component correct

* reservations and layout: no jack has two owners; a running route owns what its
  layout names; an output belongs to one route.
* quantizer: a group plays as a whole or not at all; what plays is serviced;
  stranded claims come back; only the owner of an output drives it.
* guards: at most one source drives an output; a fault stays until a disable; a
  frame is applied as a whole; silence within the watchdog period.
* engine handshake: an engine believes an acknowledgement only for the command
  it sent last; a lost command stops the group.
* binding and storage: what plays is the curve the user was told is bound; a load
  brings nothing older than what the user was told is saved; profiles are written
  only while nothing plays.
* transfer: a record is stored as a whole, once and in the order it was asked for;
  what the librarian believes of a slot is true.
* calibration: what is offered for acceptance is exactly what a full check
  measured; a refinement goes into the curve it was made for; the output is driven
  only by an operation at work, and every operation ends.
* notes: each output of a route plays the note its own settings make of the frame's
  one sample and one transposition, so outputs set alike play one note; the
  transposition is the one the keyboard and the settings page say.

## 2. Modules

```
JackAllocator          what jack ownership promises
   ^ implements
RouteService  -------- extends Reservations (operators on claims and layouts)
   |  uses the promises of
GuardedLane            what a guarded output is to the software (operators)
   ^ extends             ^ extends, and shows that the registers do it
PlaybackLink           OutputGuards
   |  shares its frames with
RouteNotes             which note goes into a frame

ProfileShelf           what stored profiles promise
   ^ implements          ^ extends
ProfileLibrary         CurveBinding
   ^ its store
ProfileTransfer  ----> ProfileBank, what the transfer promises

CalibrationStages      produces what is accepted into the shelf's RAM curve
```

| module | component | instance for TLC | proofs |
|---|---|---|---|
| `Reservations` | `ownership.rs`, `route_group.rs` | with `RouteService` | with `RouteService` |
| `JackAllocator` | abstract | with `RouteService` | `RouteService_proofs` |
| `RouteService` | the foreground loop and the interrupt of `main.rs`, with `reference_cv.rs` and the operation slot | `MCRouteService` | `RouteService_proofs` |
| `GuardedLane` | one guard, as the firmware sees it | with the next two | with the next two |
| `PlaybackLink` | `QuantEngine` of `calibration/playback.rs`, the interrupt's frame, the lanes | `MCPlaybackLink` | `PlaybackLink_proofs` |
| `OutputGuards` | `calibration_output.py`, the arbitration in `tuner.py` | itself | `OutputGuards_proofs` |
| `RouteNotes` | MIDI and notes of a route: `midi_word`, `MultiQuant::apply_midi`, `poll_ui_frame`, `Scale::quantize` and `distribute`, `Engine::tick` | `MCRouteNotes` | `RouteNotes_proofs` |
| `ProfileShelf` | abstract | with the next two | with the next two |
| `ProfileLibrary` | saving, loading, importing and naming profiles in `main.rs`, over two journals | `MCProfileLibrary` | `ProfileLibrary_proofs` |
| `CurveBinding` | APPLY, START and recall with respect to curves | `MCCurveBinding` | `CurveBinding_proofs` |
| `ProfileBank` | abstract | with the next | with the next |
| `ProfileTransfer` | `profile_transfer.rs`, its poll in `main.rs`, `web/intono` | `MCProfileTransfer` | `ProfileTransfer_proofs` |
| `CalibrationStages` | `calibration_live.rs` and the parts of `calibration/*` that decide what comes next | itself | `CalibrationStages_proofs` |

An operator or an action whose comment begins with *Mutant* is a plausible
slip in the code (a dropped guard, a limit compared for equality, a missing
reset).  It is not part of any specification.  Put in the place of the
definition that follows it, it makes a property fail; `PROJECT.json` says which.

### Reservations and JackAllocator

`claims` is the table of `Reservations`, one row of two sets for each owner, and
`groups` the `Layout`.  A mask is a set, so the test for bits above the fourth is
the type.  `CanClaim` and `Claimed` are `claim`, `Released` one `release` for each
owner of a set, `AvailableInput`, `AvailableOutput` and `Assign` the layout's
methods of these names.

`JackAllocator` has no layout, no threads and no lanes: owners acquire sets of
jacks nobody holds, hardware energises only held jacks, and jacks that are given
back are silent in the same step.

### RouteService

| variable | code |
|---|---|
| `claims`, `groups` | `OWNERS`; `App::groups`, which is `MultiQuant::groups` after each edit |
| `active` | the lanes with `Engine::active` |
| `running`, `phase` | fields of `MultiQuant` |
| `last` | `MultiQuant::last_cycle`: never ("none"), taken by the previous interrupt ("fresh"), older ("stale") |
| `lanes`, `commit`, `port` | the registers of the guards, `commit_pending` |
| `cal`, `ref` | whether a calibration operation is on and with which jacks; phase and output of the reference |
| `turn` | the stage the foreground loop is at |

An action is one critical section.  The interrupt is `Isr`: a gap stop, one half
batch in budget (`IsrService`: both ticks, the writes, `stop_group` for each
broken route and the commit in one step), one over budget, or nothing to do.  The
stages of the foreground follow the order of `run`: the reference polls at the head
of every turn, and once per UI period come reconciliation, the route edit, START or
STOP, setup recall (two actions, because flash is read with the interrupt on),
start of calibration, its tick.  The gateware takes DAC samples and trips
watchdogs.

Left out of it: voltages, tokens, milliseconds.  A tick may send, wait or fail
at will and the reference may give up at any poll, so every timing is included.

### PlaybackLink

One route in full: per output an engine (`engine`) and a guard (`lane`), with
`commit`, `phase` and the snapshot `snap`.  `Ticked` and `Commanded` are
`Engine::tick` by its early returns: fault, answer missing, input dead, sample not
mappable, command sent.  `Service` is the interrupt's loop with the ages of all
engines, `stop_group` when a member is lost, and the commit.  `others` stands for
the other routes: they keep the interrupt running, so this route may start in the
middle of a frame.

* A voltage is the sample it was computed from.  Several samples may map to one
  voltage; two outputs that disagree on samples is what the reader can hear.
* `quiet` is `now - last_sample`.  The code also keeps the time of the last
  command; it is the time of the last sample, since a tick consumes a sample and
  sends in one go, so one age serves both limits.  Ages stop growing once both
  limits are exceeded: no comparison tells them apart after that.
* The sequence number of a snapshot is `seen`: whether this engine has consumed
  it.  (`cv_snapshot.py` counts 2^15 of them, an engine looks every 2 ms.)
* The sample bookkeeping of a stopped engine is reset by the next start and
  nobody reads it before; `Stopped` resets it at once.
* The answer of a guard is the token it applied; the firmware reads it in the
  interrupt, so no answer is ever in flight.

### OutputGuards and GuardedLane

A step of `OutputGuards` is one clock cycle with at most one bus write (the bus is
single-master) and perhaps a DAC sample.  `Clocked` reads the statements of the
clocked process in their order, the last assignment to a register wins.  The port is the guard
numbered -1.  `token`, `channel` and `value` are loaded together
and are kept as the command applied.  `silence` is history, it counts the cycles
since a guard accepted or applied an enabled command.

`GuardedLane` is the firmware's view of a guard: what is staged, what is shown, a
latch.  `CycleIsEvents` says that a clock cycle of any lane is a sample, an expiry
and a write of that view, in this order, or the port's disable.  `PlaybackLink` may
therefore use it with one event per step.  That its lanes are never under the
port is `DrivenByItsOwner` and `JackExclusion` of `RouteService`.

### RouteNotes

One route with MIDI: its fields in `MultiQuant` (`midi`), the copy the settings page
edits (`appBase` for `App::midi`), the queue of the receiver (`fifo`), the keys that
are really down (`keys`) and, per output, the settings it was started with (`tuning`:
quantized or not, distributed or not, scale, zero note, root, transposition), the MIDI
offset and the note of its engine.  The other routes are only whether any of them
`running` keeps the frames going.  `Interrupt` is one timer interrupt: it drains the queue into
`midi` (`After[n]` is what the first n words make of it, `Received` all that one
interrupt takes), takes the snapshot and applies the offset when the frame begins
(`Samples`, `AppliesMidi`), finds the `Pitch` of the lanes of its half and, like the
other models, may find a fault, a gap or nothing to do.  The foreground publishes the
page (`SyncMidi`, `LeaveMidi`), takes words for the scale editor in a burst that goes on
after the word that ends the learning (`LearnScale`, `TakeWord`, `EndBurst`), recalls a
setup, starts and stops the route and others.

* Pitches are integers of a twentieth of a semitone, so that the five cents of
  hysteresis are one unit.  `Quantize` is `Scale::quantize` and `Distribute` is
  `Scale::distribute`, each with its hysteresis, on a periodic list of degrees that
  need not have the root.
* `Start` gives each lane its settings, any of `Channels`.  The code copies them into
  the engine there and nowhere else, so they stay until the stop.
* A word that is not for this route's channel only takes room; channels are
  the route's and none.
* Every engine's command has been answered when its next turn comes:
  that it otherwise waits is `PlaybackLink`'s subject.
* Notes stay within the range of the outputs (what leaves it `PlaybackLink` has, as a
  sample that cannot be mapped), and no conversion overflows.

### ProfileShelf and ProfileLibrary

`ProfileShelf` says what the rest may rely on: a slot changes alone, at rest, to the
record written, what it was, or something unreadable; the RAM curve is accepted or
read from a slot.  `ProfileLibrary` has both journals (`expanded`, `legacy`), the
review of a candidate (`cal`, `pending`), the Profiles page with the name it shows
(`label`) and the flag by which the librarian's writes refresh it (`changed`).  An
action is a whole request of a foreground turn: refusal, write, read-back, the
preview it triggers.  A write leaves the new record, the old one or something
unreadable, and power may be lost in it.  `possible` is what the user knows: the
record last reported as saved, and all that may have been left since.

Two things stay outside.  What else uses the same flash: the read for APPLY
(`main.rs:2626`; `CurveBinding` has it), setups (`main.rs:2377`, `2413`), scale notes
(`2468`), preferences (`3523`-`3539`), the reads of configuration and scale names
(`3550`-`3558`) and the librarian's reads (`3217`; `ProfileTransfer` has them).  None of
them writes a profile.  And the journal's own crash
behaviour: that an interrupted write leaves the old record or the new one, and no
other record changed, is assumed of the `sequential-storage` crate and not derived.

### CurveBinding

Extends `ProfileShelf`, so the stored profiles behave as proved of the library.  Per
output: the source its channel names (`correction`), `MultiQuant::bound`, the curve
in its engine (`curve`), and `applied`, the source and curve the user was last told is
bound.  `Apply` is `bind_route` with `install_route_curve` and all its failures;
`Choose` the edit of the channel, which unbinds on NONE; `Start` arms a route if each
member's binding names the source of its channel; `StopLane`, `StopRoute`, `StopAll`
are the stops, `RecallSetup` replaces the choices and forgets the bindings.

### ProfileBank and ProfileTransfer

`ProfileTransfer` has the exchange (`dev`: mode, slot, bytes, length, session), the
parser (`partial`: a cut frame waits in it), the transmitter, both lines, the
librarian's job and unanswered request with its timeout, and its sequence number.
A frame is one step; `Deliver` is `feed` with the whole `respond`, the store
included.  Frames may be lost, cut (`Swallow`: the parser takes the next frame for
the rest) or wait for any time; power may be lost; the panel may save a slot
between any two frames.  `open` lists the writes asked for and not yet stored, by
which `ProfileBank` says that writes are whole, in order and at most once.

### CalibrationStages

The variables are the fields of `Live` that steer it: `profile`, `pending`,
`quality`, `run` (`automatic`: phase, budgets, the best check and whether a tentative
point is in the candidate), `scan`, `refine`, `sweeping`, `verifying`, and `driven`,
whether the command on the port enables the output.  A curve is its number of
anchors and of inserted points: a trim removes anchors, an edit adds a point, so
within a run these tell curves apart.  A target of a check is measured or missed;
grades, tolerances and where to edit are choices.  `AutoTick` is the automatic
run's tick in each phase, `ManualTick` that of CHECK and REFINE, `User` the menu.

## 3. Runs

| run | instance | asks |
|---|---|---|
| `route_service` | 2 inputs, 2 outputs in different half batches, 2 routes | exclusion, layout lock, groups, service, who drives what, silence at release, the allocator |
| `route_service_live` | the same with 1 route, fair | stranded claims come back |
| `add_transfers` | as the first | a sentence of the manual, refuted (section 6) |
| `playback_link` | 4 outputs, 2 readings, the DAC keeps up, limits of the code | coherent groups, fresh voltages |
| `playback_link_slow` | 2 outputs, 2 readings, 3 tokens, the DAC may fall behind, fair | what an engine may believe, when outputs may disagree, that commands settle |
| `output_guards` | 1 lane, the port, 2 tokens, watchdog of 2 cycles | the watchdog, every cycle is made of lane events |
| `profile_transfer` | 1 slot, 2 records of 3 chunks, 2 jobs, sequence numbers of 3, fair | the bank, what the librarian knows, whole reads, that requests end |
| `profile_library` | 2 slots, 2 curves | loads, names, the shelf |
| `curve_binding` | 3 outputs in 2 routes, 1 slot and RAM, 2 curves | what plays is what was applied, and stays |
| `calibration_stages` | curves of 1 to 4 anchors, checks of 2 targets and 2 repeats, 3 passes, 2 recoveries, 1 trim, fair | what is offered, refinements, silence, that operations end |
| `route_notes` | 4 outputs, 2 in each half batch: two set alike, one unquantized, one distributed; 2 scales, 2 keys, a queue of 1, 2 CVs | one note for outputs set alike, every output with the frame, transposition, release |
| `route_notes_start` | the same | a comment of the interrupt, refuted (section 6) |

Why the bounds are enough.

* Two routes, two inputs, two outputs: a conflict is between two owners about one
  jack, and calibration and the reference compete as well.  An output in each half
  batch lets a route lose a member in one and commit in the other.  A third route
  only adds more of the same pairs; the theorems cover any number.
* Four outputs and two readings: a route with two members in each half batch,
  which can fail apart.  Incoherence needs two readings.
* Two or three tokens instead of 256: the wrap is reached in a few frames, and
  the danger, an old answer with the new token, is larger the fewer there are.
* A watchdog of two cycles: expiry can meet a write, a sample or both in the
  first and in the last cycle of its period.
* NoAck = 3 and StaleAfter = 10 are the code's own.
* Three chunks: two records can agree in two chunks and differ in where they were
  joined.  Two jobs: the second meets the late frames of the first.  Sequence
  numbers of three wrap within a job of five requests.  The timers keep the order
  of the code's (partial frame 2 s < host 8 s < session 10 s).
* Two slots: the one shown on the page and another one.  Two curves: the new record
  and what the older journal or an earlier save had.
* Three outputs: two in a route, whose bindings can differ, and one in another.
* Four anchors and capacity for seven points: more trims and edits are possible than
  the budgets allow, so that it is the budgets that end a run.
* Settings: one assignment with all kinds of outputs beside each other.  An output's
  note depends on its own settings only, and `FramesAreUnison` compares pairs that are set
  alike, of which there is one across the half batches; the theorem has every
  assignment.  The scales have a narrow and a wide step, one has no root, and the higher
  CV lies in the hysteresis of the quantized outputs and the distributed one.  A queue of
  one: the next word is dropped.  Both keys are needed to learn a base different from the
  note held.  With all this the run has 1.4 million states.

No run switches the deadlock check off: the interrupt, the loop, the clock and
the user always have a step.

### Fairness

* `RouteService`: weak fairness of the foreground (the loop never blocks: every
  wait in `run` is a poll), and of a poll that ends with the UI stages (the time
  test at their head becomes true and stays so until they are entered).  Nothing is
  assumed of the user, the interrupt or the DAC except through the polls.  A
  reference that drains writes its disable again at every turn, which takes
  effect at once, so no fairness of the DAC is needed for that.
* `PlaybackLink`: weak fairness of the interrupt (a periodic timer, and the
  foreground's critical sections are short) and of the DAC (its own clock).
* `ProfileTransfer`: time passes and the browser runs its timers (weak fairness of
  `Tick` and `TimeOut`).  Nothing is asked of the lines or of the instrument.
* `CalibrationStages`: weak fairness of the tick.  The foreground loop keeps ticking
  and every target and every wait has a deadline, so a tick always advances
  eventually.  Nothing is asked of the user.

## 4. What the properties say

`RouteService`
* `JackExclusion`: no jack has two owners.
* `HeldMatchesLayout`: a route that holds jacks holds those its layout names,
  although edits and recalls happen in between; `stop_group` walks the layout and so
  reaches what the claim gives back.
* `PlaysAsAGroup`, `PlayingIsServiced`, `DrivenByItsOwner`,
  `ReleasedOutputsAreSilent`, `StrandedClaimsReturn`, `ImplementsAllocator`.

`PlaybackLink`
* `ConfirmedIsShown`: an engine that believes its command shown is right, whatever
  frames were frozen and however tokens wrapped.
* `GroupIsCoherent`: if the DAC takes each frame before the next interrupt,
  outputs of a route never show different readings.  A frame is 1 ms apart from the
  next interrupt and the DAC takes a sample each 5 us, so it does.
* `DisagreementIsPending`: if it does not, outputs disagree only while an
  engine of them still waits.
* `VoltageIsFresh`: nothing is driven from an input dead for longer than the
  limit, although an engine looks at its input in every other interrupt only and
  not at all while it waits for an answer.
* `CommandsSettle`: a command is answered or given up.

`OutputGuards`: `ClosesInSilence`, `CycleIsEvents`.

`RouteNotes`
* `FramesAreUnison`: whole frames of a route that was started between frames show one
  note on all its outputs that have the same settings, whatever the CV, the keyboard and
  the page did between the two halves, in spite of the hysteresis each engine keeps
  for itself.
* `FollowsTheFrame`: whatever its settings, and whenever its route was started, an
  output's note after a whole frame is one the frame's sample and offset keep; none is
  left over from an older sample.
* `ShiftFitsBase`: the transposition is the distance of the last note from the base
  the page shows or is about to show, although the interrupt learns bases
  behind the page's back.
* `ReleaseResets`: on a RESET ON RELEASE route no transposition stays that no key
  holds, except when scale learning took the release or the queue had no room.

`ProfileLibrary`
* `LoadsAreNewest`: a slot reads as what the user was last told is saved, or as
  something that a failed or interrupted write since may have left; what the older
  journal has never comes back.
* `LabelIsCurrent`: the name on the page is of the record a load would bring.
* `ImplementsShelf`: the refinement on which `CurveBinding` rests.

`CurveBinding`
* `PlaysWhatWasApplied`: an output plays the curve reported as bound, from the source
  its channel names, through failed APPLYs, rewritten slots, accepted candidates, recalls.
* `ActiveCurvesStay`: neither changes while it plays.

`ProfileTransfer`
* `KnownIsStored`: what the librarian read or verified is what the slot holds.
* `ReadsAreWhole`: the chunks of a read are of one record.
* `ImplementsBank`: writes are whole, at most once, in the order asked for.
* `JobsEnd`: a request is answered or given up.

`CalibrationStages`
* `OfferIsChecked`: whatever was trimmed, edited, rolled back or paused, the curve that
  can be accepted is the one a complete check of its whole range measured.
* `RefinementFitsCurve`, `SilentAtRest`, `OperationsEnd`.

## 5. Proofs

All theorems are for every value of the constants under the named assumptions:
`JacksAssumption` and `BatchAssumption` (jacks and owners are distinct, the first
half batch is some of the outputs), `NothingAssumption`, `LinkAssumption` (tokens
are 0..Modulus-1, Modulus at least 2), `GuardsAssumption` (the watchdog period is
not zero), `LibraryAssumption` and `ShelfAssumption` (no slot, an unreadable record and
curves are distinct), `BindingAssumption` (routes are disjoint, the RAM source is no
slot), `StagesAssumption` (curves, checks and budgets are not empty and fit the
capacity), `NotesAssumption` (notes are naturals, CVs integers, no key is neither, the
degrees of a scale ascend within its period, the queue has room and an interrupt takes
from it), `TransferAssumption` (a record has a chunk, timers and modulus are
not zero, no slot and unknown are no records) and the other modules' `NothingAssumption`.

Two hypotheses are about behaviour, and stand in the theorems that need them:

* `DacKeepsUp`: the DAC takes a frame before the next interrupt.
* `FreshNumbers`, in all theorems of `ProfileTransfer`: no request is sent while a frame
  with the same operation, number, slot and offset is still on a line.  The protocol has
  no other protection against old frames, and without it `KnownIsStored` is false: with a
  modulus of one, records of one chunk and timers of one tick, TLC finds the reply to a
  read that was given up taken for that of a later one.  The lines keep their order
  and an answer that is accepted leaves them empty, so within a connection such a
  frame is only met after 256 requests in a row that ran into their 8 seconds.  A new
  `Device` draws its first number at random; then a frame of the closed connection must
  also be on the line still, and of that number.  The run has no such hypothesis:
  there three numbers are enough for two jobs.

| theorem | property |
|---|---|
| `RouteService_proofs!TypeCorrect`, `Exclusion`, `LayoutIsLocked`, `Groups`, `Serviced`, `Driven` | the invariants of `RouteService` |
| `RouteService_proofs!Silence`, `Refinement` | `ReleasedOutputsAreSilent`, `ImplementsAllocator` |
| `PlaybackLink_proofs!TypeCorrect`, `Confirmation` | `TypeOK`, `ConfirmedIsShown` |
| `PlaybackLink_proofs!Coherence`, `Freshness` | `GroupIsCoherent`, `VoltageIsFresh`, if `DacKeepsUp` |
| `PlaybackLink_proofs!Disagreement` | `DisagreementIsPending`, whatever the DAC does |
| `OutputGuards_proofs!TypeCorrect`, `Watchdogs`, `Simulation` | all of `OutputGuards` |
| `ProfileLibrary_proofs!LibraryTypes`, `NewestLoads`, `CurrentLabels`, `LibraryIsShelf` | all of `ProfileLibrary`, the refinement included |
| `CurveBinding_proofs!BindingTypes`, `PlayedIsApplied`, `PlayedCurveStays` | all of `CurveBinding` |
| `CalibrationStages_proofs!StageTypes`, `OffersAreChecked`, `RefinementsFit`, `OutputIsSilent` | the invariants of `CalibrationStages` |
| `RouteNotes_proofs!NoteTypes`, `OneNotePerFrame`, `EachFollowsTheFrame`, `ShiftsFit`, `ReleasesReset` | all of `RouteNotes` |
| `ProfileTransfer_proofs!TransferTypeOK`, `KnownSlots`, `WholeReads`, `BankImplemented` | the invariants of `ProfileTransfer` and `ImplementsBank`, if `FreshNumbers` |

**Ownership.**  None of the invariants is inductive alone.  That a claim and its
lanes end together needs the layout not to have moved since the claim; the layout
does not move because edits are refused to held routes and a recall, which checks
first and writes later, is alone (`RecallIsAlone`); that the port is silent
when the reference or calibration lets go needs their phases (`PortDiscipline`).
`Inv` is the conjunction, and `NextInv` proves it kept, action by action.

**The allocator.**  Every step is of one of three kinds (`StepKinds`): owners
leave and what falls silent includes what they held; one owner enters and nothing
changes for the hardware; the claims stay and a sample drives more, all of it
claimed.  Each kind is an action of the allocator or a stutter.

**The handshake.**  `Sound` relates one engine and its guard: what is staged can
only be the last command, and then it is not acknowledged yet; an acknowledgement
with the last token is of the last command.  It holds because every token sent
differs from the one before (`TokensDiffer`) and an engine sends only when the
previous one was answered or the lane was disabled, so at most one
older command can be on the guard.  Only two tokens are needed.

**The frame.**  `FrameInv` says where each lane is in the frame being built
(`Current`): staged values are the snapshot and wait for the commit, what is shown
is the snapshot unless it is not this lane's turn yet, and a lane is no older than
its next turn allows.

**The guards.**  `GuardsInv` bounds the counter by the watchdog and the silence by the
counter (`Timely`) and says a waiting disable has closed its guard already
(`Bounded`).  `LaneCycle` splits a cycle by its write: none, malformed, disabling,
enabling.

**Disagreement.**  `SettledInv` is about lanes that show the answer to their last
command: each has read the snapshot of the frame, unless its turn is still to come
(`Turns`), and if one has not then none has, because a lane that reads a new snapshot
waits for an answer from then on.  So settled lanes show one reading, the snapshot's
or the one before.

**The library.**  `StoreReads` and `WriteReads` say what a write, finished or not,
does to what a slot reads as; everything else follows from them slot by slot.
`LabelIsCurrent` needs to know in addition that no name is left from an earlier
visit to the page.  For the shelf, each request is `Save`, `Import`, `Load`, `Accept`,
`Operate`, `Play`, `Restart` or a stutter.

**Binding.**  START only compares sources, so `PlaysWhatWasApplied` is not inductive:
the curve of every binding must be right before it is played (`BoundAsApplied`),
which holds because whatever replaces a curve in a lane also decides on its binding,
and a lane that plays is not replaced.

**Calibration.**  `OfferIsChecked` speaks of the end of a run, and a run may end anywhere.
The invariant therefore says for each phase what the run would leave behind if it ended
now (`Backed`): the best check is a full one (`Measured`) of the candidate without its
tentative point, and a tentative point is only there when there is such a check to go
back to.

**Notes.**  `Fits` relates the shift to base and last note after every word.  `Owed` says
what the queue owes the keyboard: if a note whose key is up and whose release was not
lost still transposes a RESET ON RELEASE route, or is pressed by a word in the queue, a later
word releases it.  `Alike` says that between two frames lanes with equal settings have one
note.  In the middle of a frame it holds in each batch, and the first has the note that the
lanes of the second with the same settings will come to (`Awaited`): the same sample and
offset, applied to the note that the first had before, which the second still has.
For `FollowsTheFrame` the choice of a degree and the hysteresis must agree: the two degrees
that bracket a pitch have no other between them (`Neighbours`), so the degree that is chosen
has the other one as its neighbour, and its part of the scale, which the hysteresis only
widens, holds the pitch (`QuantizeSettles`, `DistributeSettles`).  Then every note follows
the frame but those of the second half before its turn (`FollowInv`).  What an interrupt makes of up to
`PerTick` words is a recursive function (`After`).  That a property which one word keeps is
kept by all is shown by the least number of words that would break it (`LeastNumber`),
which takes no induction theorem with an operator as parameter.

**The transfer.**  The point is what can still be on the lines.  A reply is accepted only
if it answers the request that waits, and that request is the last frame sent
(`Unambiguous`); so all older frames are gone by then, and a request sent within a job goes
on empty lines and stays ahead of all others (`Lines`).  Behind it only frames that open
something may follow: a greeting, the begin of a write, the first read.  Therefore the
frame at the head of the line fits what the instrument holds or is refused (`Heads`): a
chunk continues a record whose chunks are all there, a commit is of a record asked for and
still open.  What a reply says of a slot was so when it was sent, and stays so unless the panel
saved the slot since (`Answered`, `Backed`).  For the bank, a step is an `Ask`, a `Store`,
a `Learn`, a `SaveLocally` or a stutter; deliveries and power losses are split by whether
a commit is complete.

Only model-checked:
* the liveness properties `StrandedClaimsReturn`, `CommandsSettle`, `JobsEnd` and
  `OperationsEnd`: the prover has no rule for them under fairness;
* `ProfileTransfer` with sequence numbers that repeat while old frames are left, as
  far as its run has them;
* two properties that the code violates (section 6).

## 6. Where code and documents differ

* `README.md:300` and `CONCURRENCY.md:20` of the instrument say that adding a
  stopped output transfers it from its previous group.  The editor
  (`main.rs:2135`) and `Layout::assign` refuse it; a unit test of
  `route_group.rs` is named for the refusal.  Run `add_transfers`.
* `README.md:315` says that stopped configurations do not reserve jacks.
  They hold no claim, but `Layout::available` counts the jacks of every
  configured route as taken and the reference skips them too; the
  model follows the code.
* `README.md:260` says that a lane's stale input, missing answer or fault stops
  that lane.  The code stops its route, as `README.md:309` and `CONCURRENCY.md`
  say.
* The comment at `main.rs:525` says that outputs sharing one input must not cross its
  note boundary on different ticks.  A route that the foreground starts while another
  one is in the second half of a frame ticks its phase-1 outputs with the sample of that
  frame and the others with the next; the hysteresis may then keep two notes on outputs
  set alike for as long as the input stays near the boundary.  Run `route_notes_start`;
  `FramesAreUnison` holds of every other start.
* `README.md:317` and `CONCURRENCY.md:53` say that flash access for saved profiles requires
  stopped outputs.
  The preview of a name on the Profiles page reads flash while they play
  (`main.rs:3445`; `Preview` of `ProfileLibrary` does not ask whether anything runs).
* `discard_scan` (`calibration_live.rs:421`) keeps the check of the candidate it
  discards; a REFINE afterwards aims at the worst pitch of that check.  The model has
  it; the refinement is still measured on the accepted curve (`RefinementFitsCurve`).
* A RUN on the calibration page during a manual CHECK replaces the shared controls
  (`main.rs:3811`), on which the check's tick stops, although the comment at
  `main.rs:3304` says otherwise.  In the model the check may stop by itself
  (`ManualStops`).
* What is left in `automatic` of a run that failed makes a later CHECK stop at its first
  missing target (`calibration_live.rs:1479`), although the comment at line 1210
  says that it goes on.  The model has it (`CheckMiss`).
* `AUTO_CALIBRATION.md` says that a candidate with missing targets may be kept;
  `can_accept_imperfect` asks for none missing.  With it, `recover_edge`,
  `recover_partial` and `start_local` after a missing target are never reached.
* `CONCURRENCY.md:17` says that the manual REFINE is no longer a menu operation;
  the Verify page still reaches it.
* `INTONO_HELP.md:107`: a release that scale learning takes, or that finds the receiver
  full, leaves a RESET ON RELEASE route transposed (`ReleaseResets` excepts them).
  `INTONO_HELP.md:109` says that learned notes also transpose routes; `main.rs:503` and
  `README.md:596` make learning exclusive, and so does the model.

## 7. Not modelled, and the plan

Left open in the modules there are, by choice:

* `RouteService`: the reference's token, deadline and voltage (a command may be
  answered or given up at any time).
* `CalibrationStages`: the readings, and so the search of the sweep for the range,
  the grades and the places of edits and trims.
* `ProfileLibrary`: the page layout of the journal (the `sequential-storage` crate),
  and what it leaves after a crash, record encodings and checksums, and all records of
  other kinds: setups, scale notes, preferences, names.
* `ProfileTransfer`: `abort`, which the librarian never sends; CRC arithmetic.
* `RouteNotes`: what scale learning makes of the words it takes; limits of the pitch
  range and overflow.

Planned, in this order:

1. `ReferenceCv`: tokens, the deadline and retargets of the reference, over
   `GuardedLane`; what it tells the user against what the port shows.
2. The measurement scheduler with its sequence-guarded reads
   (`measurement_snapshot.rs`, `nsdf_schedule.rs`).
3. Setups, note patterns and preferences: migrations, partial records, and that
   flash is used at rest only, with every request that uses it.
4. Scales: compilation, the bounded search for a degree and the interpolation of
   fixed-point tables as functions, against reference definitions.

Not planned: the numerics of pitch detection (real arithmetic on long windows),
rendering, diagnostics (no state), the platform's gateware and drivers, the other
instruments (separate bitstreams, most of the repository's lines), the librarian's
editor.  `PROJECT.json` lists them with their files.  Of the platform the models
take: a register write is one strobe, `reference_advance` one DAC sample, and a
critical section keeps the interrupt out.
