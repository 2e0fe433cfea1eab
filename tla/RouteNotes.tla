------------------------------ MODULE RouteNotes ------------------------------
(***************************************************************************)
(* Which note each output of a route plays: the CV snapshot of a frame,    *)
(* the output's own settings (zero note, scale, root, transposition) with  *)
(* the hysteresis, and the MIDI transposition of the route with its        *)
(* settings page and its two learning modes.  One route has MIDI; other    *)
(* routes matter only because they keep the frames going, so that the      *)
(* route may be started in the middle of one: while the route plays they   *)
(* make no difference.                                                     *)
(*                                                                         *)
(* A frame is two interrupts, one per half batch of outputs.  The channel  *)
(* of the route is the keyboard's or OFF; words of other channels do       *)
(* nothing but fill the queue.  That every lane's command has been         *)
(* answered when its next turn comes is PlaybackLink's subject.  Notes     *)
(* stay within what the outputs can reach: route_target does not bound     *)
(* them, and no conversion overflows.                                      *)
(***************************************************************************)
EXTENDS Integers, Sequences, FiniteSetsExt, SequencesExt

CONSTANTS
    Lanes, FirstBatch,  \* the route's outputs, and those of the first half batch
    Notes,              \* MIDI notes, a set of integers
    Depth, PerTick,     \* the receive queue, of 8, and how much of it an interrupt takes, 4
    CVs,                \* pitches of CV samples, in units of a twentieth of a semitone
    Scales,             \* the scales and patterns
    Degrees, Period,    \* of each of them; its degrees ascend
    Channels,           \* what the outputs may be set to when the route is started
    Semitone,           \* 20
    Hysteresis,         \* 5 cents: 1
    None

\* quantizer_setup::Channel, as an engine holds it.  The zero note and the root are
\* pitches, the root in the octave of the zero note.
Tunings == [quantize : BOOLEAN, equal : BOOLEAN, scale : Scales,
            zero : Int, root : Int, transpose : Int]

ASSUME NotesAssumption ==
    /\ Notes \subseteq Nat /\ Notes # {} /\ CVs \subseteq Int /\ None \notin Int
    /\ FirstBatch \subseteq Lanes
    /\ {Depth, PerTick} \subseteq Nat \ {0}
    /\ \A s \in Scales :
          /\ Period[s] \in Nat \ {0}
          /\ Degrees[s] \in Seq(0..(Period[s] - 1)) /\ Degrees[s] # <<>>
          /\ \A i, j \in 1..Len(Degrees[s]) : i < j => Degrees[s][i] < Degrees[s][j]
    /\ Channels \subseteq [Lanes -> Tunings]
    /\ Semitone \in Nat \ {0} /\ Hysteresis \in Nat

VARIABLES
    midi,       \* MultiQuant: the route's config, shifts, midi_last, midi_base_learn
    appBase,    \* App::midi of the route; its other fields are those of midi
    page,       \* "midi": its settings are open; "closing": finish_midi asks for a last look
    scaleLearn, \* MIDI_LEARN; "ending": disarmed by a word, but the burst takes more
    fifo,       \* the words waiting in the receiver
    keys,       \* the keys down on the keyboard
    lost,       \* history: the notes that count for the route, and whose release it did not get
    active,     \* the route plays
    running,    \* MultiQuant::running: the route or another one plays
    phase,      \* MultiQuant::phase
    cv,         \* MultiQuant::samples, the route's input
    seen,       \* the lanes whose sequence number is the sample's
    tuning,     \* the settings with which the lanes were started
    offset,     \* QuantEngine::midi_transpose of the lanes while they play; a start sets it
    note,       \* QuantEngine::pitch, while it is good for the hysteresis
    late        \* history: the route was started between the halves of a frame

menu == <<appBase, page, scaleLearn>>
keyboard == <<fifo, keys, lost>>
lanes == <<seen, tuning, offset, note>>
vars == <<midi, menu, keyboard, active, running, phase, cv, lanes, late>>

-----------------------------------------------------------------------------
(* The pitch of an output.                                                 *)

Count(s) == Len(Degrees[s])
IsDegree(s, p) == p % Period[s] \in Range(Degrees[s])

\* The degrees that bracket a pitch, across the ends of the period.
Floor ==
    [s \in Scales |-> [q \in 0..(Period[s] - 1) |->
        Max({d \in Range(Degrees[s]) \union {Last(Degrees[s]) - Period[s]} : d <= q})]]
Ceiling ==
    [s \in Scales |-> [q \in 0..(Period[s] - 1) |->
        Min({d \in Range(Degrees[s]) \union {Head(Degrees[s]) + Period[s]} : d > q})]]
Cycle(s, p) == p - (p % Period[s])
Below(s, p) == Cycle(s, p) + Floor[s][p % Period[s]]
Above(s, p) == Cycle(s, p) + Ceiling[s][p % Period[s]]

\* Five cents beyond the midpoint, less where the notes are dense.
Slack(gap) == Min({gap \div 4, Hysteresis})

Held(s, p, n) ==
    LET down == n - Below(s, n - 1)
        up == Above(s, n) - n
    IN  /\ IsDegree(s, n)
        /\ 2 * p >= 2 * n - down - 2 * Slack(down)
        /\ 2 * p <= 2 * n + up + 2 * Slack(up)

\* Nearest degree, ties upward, with the hysteresis of the note before.
Quantize(s, p, previous) ==
    IF previous # None /\ Held(s, p, previous) THEN previous
    ELSE IF p - Below(s, p) < Above(s, p) - p THEN Below(s, p) ELSE Above(s, p)

\* The equal bins of the period: the last that starts at or below a pitch.
Bin(s, p) == Max({i \in 1..Count(s) : (i - 1) * Period[s] <= (p % Period[s]) * Count(s)})

HeldBin(s, p, n) ==
    LET position == (p - Cycle(s, n)) * Count(s)
        margin == Min({Period[s] \div (Count(s) * 4), Hysteresis}) * Count(s)
    IN  \E i \in 1..Count(s) :
            /\ Degrees[s][i] = n % Period[s]
            /\ position >= (i - 1) * Period[s] - margin
            /\ position < i * Period[s] + margin

Distribute(s, p, previous) ==
    IF previous # None /\ HeldBin(s, p, previous) THEN previous
    ELSE Cycle(s, p) + Degrees[s][Bin(s, p)]

\* The pitch for a CV, after a note that was played with the same offset.
Pitch(t, at, o, before) ==
    LET shift == Semitone * (t.transpose + o)
        previous == IF before = None THEN None ELSE before - shift - t.root
        p == at + t.zero - t.root
    IN  IF ~t.quantize THEN at + t.zero + Semitone * o
        ELSE (IF t.equal THEN Distribute(t.scale, p, previous)
                         ELSE Quantize(t.scale, p, previous)) + t.root + shift

-----------------------------------------------------------------------------
(* The keyboard and the receiver, which drops what it has no room for.     *)

On(n) == [press |-> TRUE, note |-> n]
Off(n) == [press |-> FALSE, note |-> n]

\* Mutant: the queue takes one word too many.
RoomForOneMore == Len(fifo) <= Depth

Room == Len(fifo) < Depth

\* The transposition is, or may become, that of the note, and waits for its release.
Counts(n) == (~midi.hold /\ n = midi.last) \/ Contains(fifo, On(n))

Press(n) ==
    /\ n \notin keys
    /\ keys' = keys \union {n}
    /\ fifo' = IF Room THEN Append(fifo, On(n)) ELSE fifo
    /\ lost' = lost \ {n}
    /\ UNCHANGED <<midi, menu, active, running, phase, cv, lanes, late>>

Release(n) ==
    /\ n \in keys
    /\ keys' = keys \ {n}
    /\ fifo' = IF Room THEN Append(fifo, Off(n)) ELSE fifo
    /\ lost' = IF Room \/ ~Counts(n) THEN lost ELSE lost \union {n}
    /\ UNCHANGED <<midi, menu, active, running, phase, cv, lanes, late>>

-----------------------------------------------------------------------------
(* The route's MIDI.                                                       *)

\* Mutant: the offset is forgotten, the note that gave it is not.
KeepsLast(m) == [m EXCEPT !.shift = 0]

Untransposed(m) == [m EXCEPT !.shift = 0, !.last = None]

\* midi_word
Word(m, w) ==
    IF ~m.on THEN m
    ELSE IF w.press
         THEN IF m.learn
              THEN Untransposed([m EXCEPT !.base = w.note, !.learn = FALSE, !.learned = w.note])
              ELSE [m EXCEPT !.last = w.note, !.shift = w.note - m.base]
         ELSE IF ~m.hold /\ m.last = w.note THEN Untransposed(m) ELSE m

\* The words an interrupt takes; a scale that learns leaves them to the foreground.
Drained == IF scaleLearn = "on" THEN 0 ELSE Min({PerTick, Len(fifo)})

\* The route after the first k words.
After[k \in 0..Drained] == IF k = 0 THEN midi ELSE Word(After[k - 1], fifo[k])

Received == After[Drained]

Base(edited) == IF midi.learned = None THEN edited ELSE midi.learned

\* What the menu may find when it looks at the settings: nothing new, an edit or a click.
Shown == [on |-> midi.on, hold |-> midi.hold, base |-> appBase, reset |-> FALSE, press |-> FALSE]

Looks ==
    {[Shown EXCEPT !.base = b] : b \in Notes}
        \union {[Shown EXCEPT !.on = ~@], [Shown EXCEPT !.hold = ~@],
                [Shown EXCEPT !.reset = TRUE], [Shown EXCEPT !.press = TRUE]}

\* Mutant: new settings do not end the transposition.
KeepsShift(e) == e.reset

\* A learned base is received first, so that it is not a change of the settings.
Resets(e) ==
    e.reset \/ <<e.on, e.hold, Base(e.base)>> # <<midi.on, midi.hold, Base(appBase)>>

\* What the menu makes of the settings; arming asks for a channel.
Synced(e) ==
    LET m == [midi EXCEPT !.on = e.on, !.hold = e.hold, !.base = Base(e.base), !.learned = None]
        armed == midi.learn /\ e.on = midi.on /\ page = "midi"
    IN  [(IF Resets(e) THEN Untransposed(m) ELSE m)
            EXCEPT !.learn = IF e.press /\ e.on THEN ~armed ELSE armed]

Sync(e) ==
    /\ midi' = [Synced(e) EXCEPT !.learn = @ /\ page = "midi"]
    /\ appBase' = Base(e.base)

\* One pass of poll_ui_frame with the MIDI settings open, or just closed.
SyncMidi ==
    /\ page # "other"
    /\ page' = IF page = "closing" THEN "other" ELSE page
    /\ scaleLearn' = "off"
    /\ UNCHANGED <<keyboard, active, running, phase, cv, lanes, late>>
    /\ \E e \in Looks : Sync(e)

\* The same with any other page: what was learned waits for the settings.
LeaveMidi ==
    /\ page = "other" /\ midi.learn
    /\ midi' = [midi EXCEPT !.learn = FALSE]
    /\ UNCHANGED <<menu, keyboard, active, running, phase, cv, lanes, late>>

Turn ==
    /\ \/ page = "midi" /\ page' \in {"closing", "other"}
       \/ page = "other" /\ page' = "midi"
    /\ UNCHANGED <<midi, appBase, scaleLearn, keyboard, active, running, phase, cv, lanes, late>>

\* LEARN BASE of the scale editor, STOP MIDI or the way out of it.
LearnScale ==
    /\ page = "other"
    /\ scaleLearn' = IF scaleLearn = "off" THEN "on" ELSE "off"
    /\ UNCHANGED <<midi, appBase, page, keyboard, active, running, phase, cv, lanes, late>>

\* A turn's burst takes a word for the scale editor.  A word that finds the edited
\* output started ends the learning, but not the burst.
TakeWord ==
    /\ scaleLearn # "off" /\ page = "other"
    /\ fifo # <<>>
    /\ fifo' = Tail(fifo)
    /\ LET w == Head(fifo)
       IN  lost' = IF w = Off(midi.last) /\ ~midi.hold /\ ~Contains(fifo, On(w.note))
                   THEN lost \union {w.note} ELSE lost
    /\ scaleLearn' \in {scaleLearn} \union (IF running THEN {"ending"} ELSE {})
    /\ UNCHANGED <<midi, appBase, page, keys, active, running, phase, cv, lanes, late>>

\* The burst ends with an empty queue, or after its eighth word.
EndBurst ==
    /\ scaleLearn = "ending"
    /\ scaleLearn' = "off"
    /\ UNCHANGED <<midi, appBase, page, keyboard, active, running, phase, cv, lanes, late>>

\* A setup is loaded, with everything stopped.
Recall ==
    /\ ~running
    /\ \E on, hold \in BOOLEAN, base \in Notes :
          /\ midi' = [on |-> on, hold |-> hold, base |-> base, shift |-> 0, last |-> None,
                      learn |-> FALSE, learned |-> None]
          /\ appBase' = base
    /\ UNCHANGED <<page, scaleLearn, keyboard, active, running, phase, cv, lanes, late>>

-----------------------------------------------------------------------------
(* START and STOP of the route and of the others.                          *)

Silent == [n \in Lanes |-> None]

\* The lanes of a stopped route; its next start sets them anew.
Forget == note' = Silent /\ seen' = {} /\ tuning' = None /\ offset' = 0 /\ late' = FALSE

FrameAtStart == IF running THEN phase ELSE 0

Start ==
    /\ ~active
    /\ active' = TRUE /\ running' = TRUE
    /\ phase' = FrameAtStart
    /\ late' = (FrameAtStart = 1)
    /\ tuning' \in Channels
    /\ offset' = midi.shift
    /\ note' = Silent
    /\ seen' = {}
    /\ UNCHANGED <<midi, menu, keyboard, cv>>

\* Others may play on.
Stop ==
    /\ active
    /\ active' = FALSE /\ running' \in BOOLEAN
    /\ Forget
    /\ UNCHANGED <<midi, menu, keyboard, phase, cv>>

StartOthers ==
    /\ ~running
    /\ running' = TRUE
    /\ phase' = FrameAtStart
    /\ UNCHANGED <<midi, menu, keyboard, active, cv, lanes, late>>

\* By the user, or by a fault of the last of them.
StopOthers ==
    /\ running /\ ~active
    /\ running' = FALSE
    /\ UNCHANGED <<midi, menu, keyboard, active, phase, cv, lanes, late>>

-----------------------------------------------------------------------------
(* The timer interrupt.                                                    *)

Batch == IF phase = 0 THEN FirstBatch ELSE Lanes \ FirstBatch

\* Mutant: the offset may change between the halves of a frame.
AppliesEachHalf == TRUE

AppliesMidi == phase = 0

Offset(m) == IF active /\ AppliesMidi THEN m.shift ELSE offset

\* A new offset invalidates the hysteresis.
Forgotten(o) == IF o = offset THEN note ELSE Silent

\* Mutant: the second half of a frame takes a newer sample.
SamplesEachHalf == TRUE

Samples == phase = 0

Ticked(o, before, at, fresh) ==
    [n \in Lanes |->
        IF ~active \/ n \notin Batch \/ n \in fresh THEN before[n]
        ELSE Pitch(tuning[n], at, o, before[n])]

\* The MIDI part, with or without outputs.
Receive ==
    /\ midi' = Received
    /\ fifo' = SubSeq(fifo, Drained + 1, Len(fifo))
    /\ lost' = {n \in lost : Counts(n)'}

\* A frame starts with a new sample, or with the old one once more.
Tick ==
    /\ running
    /\ Receive
    /\ offset' = Offset(midi')
    /\ phase' = 1 - phase
    /\ UNCHANGED <<menu, keys, active, running, tuning>>
    /\ \E at \in (IF Samples THEN CVs ELSE {}) \union {cv} :
          \E old \in {seen} \union (IF Samples THEN {{}} ELSE {}) :
              /\ old = {} \/ at = cv
              /\ cv' = at
              /\ note' = Ticked(offset', Forgotten(offset'), at, old)
              /\ seen' = IF active THEN old \union Batch ELSE old
              /\ late' = (late /\ (old # {} \/ offset' = offset))

\* Nothing plays: only the MIDI is received.
IdleTick ==
    /\ ~running
    /\ Receive
    /\ UNCHANGED <<menu, keys, active, running, phase, cv, lanes, late>>

\* A lane of the route faults, and the route stops before the outputs are shown.
FaultTick ==
    /\ active
    /\ Receive
    /\ active' = FALSE /\ running' \in BOOLEAN
    /\ Forget
    /\ phase' = 1 - phase
    /\ UNCHANGED <<menu, keys>>
    /\ \E at \in (IF Samples THEN CVs ELSE {cv}) : cv' = at

\* The interrupt came late or took too long.
StopAll ==
    /\ running
    /\ Receive
    /\ active' = FALSE /\ running' = FALSE
    /\ phase' = 0
    /\ Forget
    /\ UNCHANGED <<menu, keys, cv>>

Interrupt == Tick \/ IdleTick \/ FaultTick \/ StopAll

-----------------------------------------------------------------------------
Init ==
    /\ midi = [on |-> FALSE, hold |-> TRUE, base |-> Min(Notes), shift |-> 0, last |-> None,
               learn |-> FALSE, learned |-> None]
    /\ appBase = midi.base
    /\ page = "other" /\ scaleLearn = "off"
    /\ fifo = <<>> /\ keys = {} /\ lost = {}
    /\ active = FALSE /\ running = FALSE /\ phase = 0
    /\ cv \in CVs /\ seen = {}
    /\ tuning = None /\ offset = 0 /\ note = Silent
    /\ late = FALSE

\* What the foreground does between its bursts.
Foreground ==
    /\ scaleLearn # "ending"
    /\ \/ SyncMidi \/ LeaveMidi \/ Turn \/ LearnScale \/ Recall
       \/ Start \/ Stop \/ StartOthers

Next ==
    \/ \E n \in Notes : Press(n) \/ Release(n)
    \/ Foreground \/ TakeWord \/ EndBurst
    \/ StopOthers
    \/ Interrupt

Spec == Init /\ [][Next]_vars

-----------------------------------------------------------------------------
(* Properties.                                                             *)

\* The variables hold values the firmware can hold; the queue keeps to its depth.
TypeOK ==
    /\ midi \in [on : BOOLEAN, hold : BOOLEAN, base : Notes, shift : Int,
                 last : Notes \union {None}, learn : BOOLEAN, learned : Notes \union {None}]
    /\ appBase \in Notes
    /\ page \in {"midi", "closing", "other"}
    /\ scaleLearn \in {"off", "on", "ending"}
    /\ {active, running, late} \subseteq BOOLEAN /\ (active => running)
    /\ keys \subseteq Notes /\ lost \subseteq Notes /\ Len(fifo) <= Depth
    /\ phase \in {0, 1} /\ cv \in CVs
    /\ seen \subseteq Lanes /\ tuning \in Channels \union {None}
    /\ offset \in Int /\ note \in [Lanes -> Int \union {None}]

\* Outputs that are set alike, and have a note, have the same one.
Unison ==
    \A a, b \in Lanes :
        note[a] # None /\ note[b] # None /\ tuning[a] = tuning[b] => note[a] = note[b]

\* "Outputs sharing one input must not cross its note boundary on different
\* ticks" (main.rs:525), "both half-batches use one MIDI offset snapshot"
\* (main.rs:507): after whole frames of a route that was started between two of
\* them, outputs with the same settings show one note, whatever the notes before,
\* the CV and the keyboard did.
FramesAreUnison == phase = 0 /\ ~late => Unison

\* The same of every route.
AlwaysUnison == phase = 0 => Unison

\* Between two frames each output plays the note of the frame's one sample and one
\* offset, whatever its settings: the same sample would not move it (main.rs:525).
FollowsTheFrame ==
    phase = 0 =>
        \A n \in Lanes : note[n] # None => Pitch(tuning[n], cv, offset, note[n]) = note[n]

\* The transposition is the distance of the last note from the base the page shows
\* or is about to show, however notes, learning and edits were mixed.
ShiftFitsBase ==
    /\ midi.shift = IF midi.last = None THEN 0 ELSE midi.last - midi.base
    /\ midi.base = Base(appBase)

\* "RESET ON RELEASE returns to no MIDI transposition when the controlling note is
\* released" (INTONO_HELP.md:107), unless the release was taken by scale learning
\* or found the queue full.
ReleaseResets ==
    ~midi.hold /\ fifo = <<>> /\ midi.last # None /\ midi.last \notin lost =>
        midi.last \in keys
=============================================================================
