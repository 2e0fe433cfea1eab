----------------------------- MODULE CurveBinding -----------------------------
(***************************************************************************)
(* Which correction curve each output plays.  An output's channel names a  *)
(* source: none, the accepted profile in RAM or a slot of the shelf; APPLY *)
(* copies the curve of the named source into the output's lane, START arms *)
(* the lanes of a route only with what was applied.  Meanwhile slots are   *)
(* rewritten, other profiles are accepted or loaded, setups are recalled.  *)
(*                                                                         *)
(* The stored profiles are used as ProfileShelf describes them; that they  *)
(* are such a shelf is what ProfileLibrary shows.  Which jacks a route may *)
(* claim, and the stops of its lanes, are those of RouteService: here a    *)
(* START may always be refused and a lane may stop at any time.            *)
(***************************************************************************)
EXTENDS ProfileShelf

CONSTANTS
    Routes,     \* the route groups: a partition of the outputs
    RamSource   \* correction 1; None is 0 and the slots follow

ASSUME BindingAssumption ==
    /\ RamSource \notin Slots \union {None}
    /\ \A g, h \in Routes : g = h \/ g \intersect h = {}

VARIABLES
    correction, \* Channel::correction of each output
    bound,      \* MultiQuant::bound
    curve,      \* Engine::profile of its lane
    active,     \* the outputs with Engine::active
    held,       \* the routes that hold their jacks
    applied     \* history: the source and curve last reported as bound

binding == <<correction, bound, curve, applied>>
service == <<active, held, running>>
vars == <<shelfVars, binding, active, held>>

RouteOutputs == UNION Routes
Sources == Slots \union {None, RamSource}

-----------------------------------------------------------------------------

\* The curve that source s has to give now, if it is one.
Offered(s) ==
    IF s = RamSource THEN ram
    ELSE IF s = None \/ busy \/ running THEN None ELSE shelf[s]

\* Mutant: the binding is cleared only for NONE.
KeepsOnFailure(n, ok) == IF ok THEN correction[n]
                         ELSE IF correction[n] = None THEN None ELSE bound[n]

\* A failed replacement leaves nothing bound.
Binding(n, ok) == IF ok THEN correction[n] ELSE None

Appliable(n) == n \notin active

\* APPLY on an output; bind_profile refuses a lane that plays once more.
Apply(n) ==
    /\ Appliable(n)
    /\ LET c == Offered(correction[n])
           ok == c \in Curves /\ n \notin active
       IN  /\ bound' = [bound EXCEPT ![n] = Binding(n, ok)]
           /\ curve' = IF ok THEN [curve EXCEPT ![n] = c] ELSE curve
           /\ applied' = [applied EXCEPT ![n] = IF ok THEN <<correction[n], c>> ELSE None]
    /\ UNCHANGED <<shelfVars, correction, active, held>>

\* Mutant: choosing no correction keeps the binding.
NoneKeepsBinding(n, s) == bound

Unbound(n, s) == IF s = None THEN [bound EXCEPT ![n] = None] ELSE bound

\* A menu edit; a lane that plays keeps the settings it was started with.
Choose(n, s) ==
    /\ n \notin active
    /\ correction' = [correction EXCEPT ![n] = s]
    /\ bound' = Unbound(n, s)
    /\ applied' = IF s = None THEN [applied EXCEPT ![n] = None] ELSE applied
    /\ UNCHANGED <<shelfVars, curve, active, held>>

\* Mutant: any binding will do.
AnyBinding(n) == correction[n] = None \/ bound[n] # None

Corrected(n) == correction[n] = None \/ bound[n] = correction[n]

\* MultiQuant::toggle; arm_route wants a measured curve when corrected.
Start(g) ==
    /\ g \notin held
    /\ \A n \in g : Corrected(n)
    /\ \A n \in g : correction[n] # None => curve[n] # None
    /\ active' = active \union g
    /\ held' = held \union {g}
    /\ running' = TRUE
    /\ UNCHANGED <<shelf, ram, busy, binding>>

\* Mutant: stopping one route ends the service of all.
StopsService(g) == FALSE

StillRunning(g) == active \ g # {}

\* The user stops a route, or the foreground finds one of its lanes stopped.
StopRoute(g) ==
    /\ g \in held
    /\ active' = active \ g
    /\ held' = held \ {g}
    /\ running' = StillRunning(g)
    /\ UNCHANGED <<shelf, ram, busy, binding>>

\* The interrupt stops one lane on a fault, or all of them.
StopLane(n) ==
    /\ n \in active
    /\ active' = active \ {n}
    /\ UNCHANGED <<shelfVars, binding, held>>

StopAll ==
    /\ running
    /\ active' = {} /\ running' = FALSE
    /\ UNCHANGED <<shelf, ram, busy, binding, held>>

\* Mutant: a recall waits for the calibration only.
RecallsWhilePlaying == ~busy

Recallable == ~busy /\ held = {}

\* Mutant: the bindings outlive the recall.
RecallKeepsBindings == bound

RecalledBindings == [n \in RouteOutputs |-> None]

\* persist_setup: whatever setup was saved, no output is bound by its recall.
RecallSetup ==
    /\ Recallable
    /\ correction' \in [RouteOutputs -> Sources]
    /\ bound' = RecalledBindings
    /\ applied' = [n \in RouteOutputs |-> None]
    /\ UNCHANGED <<shelfVars, curve, active, held>>

Unassigned == [n \in RouteOutputs |-> None]

\* Setups hold sources, not bindings, and are recalled by hand.
PowerLoss ==
    /\ Restart
    /\ correction' = Unassigned /\ bound' = Unassigned
    /\ curve' = Unassigned /\ applied' = Unassigned
    /\ active' = {} /\ held' = {}

\* What happens to the stored and the accepted profiles, and calibrations.
Library ==
    /\ \/ \E s \in Slots : Save(s) \/ Load(s) \/ \E c \in Curves : Import(s, c)
       \/ \E c \in Curves : Accept(c)
       \/ Operate
    /\ UNCHANGED <<binding, active, held>>

Init ==
    /\ ShelfInit
    /\ correction = Unassigned /\ bound = Unassigned
    /\ curve = Unassigned /\ applied = Unassigned
    /\ active = {} /\ held = {}

Next ==
    \/ \E n \in RouteOutputs : Apply(n) \/ StopLane(n) \/ \E s \in Sources : Choose(n, s)
    \/ \E g \in Routes : Start(g) \/ StopRoute(g)
    \/ StopAll \/ RecallSetup \/ Library \/ PowerLoss

Spec == Init /\ [][Next]_vars

-----------------------------------------------------------------------------

\* The variables hold values the firmware can hold; nothing plays unless the
\* service runs and the routes of the playing lanes hold their jacks.
TypeOK ==
    /\ shelf \in [Slots -> Readings] /\ ram \in Curves \union {None}
    /\ busy \in BOOLEAN /\ running \in BOOLEAN
    /\ correction \in [RouteOutputs -> Sources]
    /\ bound \in [RouteOutputs -> Sources]
    /\ curve \in [RouteOutputs -> Curves \union {None}]
    /\ applied \in [RouteOutputs -> (Sources \X Curves) \union {None}]
    /\ held \subseteq Routes /\ active \subseteq UNION held
    /\ active # {} => running

\* An output that plays with correction plays the curve that the user was told
\* is bound, from the source its channel names: not one kept from a failed
\* APPLY, from before a recall or a choice of NONE, nor one that a slot or the
\* RAM profile held at another time (bind_route, toggle, persist_setup).
PlaysWhatWasApplied ==
    \A n \in active : correction[n] # None => applied[n] = <<correction[n], curve[n]>>

\* The curve and the source of an output do not change while it plays,
\* whatever is accepted, loaded, saved, recalled or applied elsewhere.
ActiveCurvesStay ==
    [][\A n \in active \intersect active' :
         curve'[n] = curve[n] /\ correction'[n] = correction[n]]_vars
===============================================================================
