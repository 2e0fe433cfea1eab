-------------------------- MODULE CalibrationStages --------------------------
(* The operations of calibration_live.rs on the curve of an oscillator: the *)
(* automatic run (sweep, check, trim, improve, recheck, review), the        *)
(* read-only CHECK and the manual REFINE, which share one scan, one         *)
(* refinement and one calibration port.  A target is measured or missed;    *)
(* pitches, tolerances and diagnostics are left to nondeterministic choice. *)
EXTENDS Naturals

CONSTANTS
    MinSize, MaxSize,   \* anchors of a curve: MIN_PROFILE_POINTS and the most a sweep keeps
    Capacity,           \* MAX_POINTS, inserted ones included
    Grid, Local,        \* targets of a check and their repeats, 9 in the code
    MaxPasses,          \* MAX_PASSES, 16
    RecoveryLimit,      \* MAX_PARTIAL_RECOVERIES, 16
    MaxTrims,           \* MAX_DISAGREEMENT_TRIMS, 2
    Nothing             \* None

ASSUME StagesAssumption ==
    /\ {MinSize, MaxSize, Capacity, Grid, Local} \subseteq Nat \ {0}
    /\ MinSize < MaxSize /\ MaxSize <= Capacity
    /\ {MaxPasses, RecoveryLimit, MaxTrims} \subseteq Nat

VARIABLES
    profile,    \* the accepted curve in RAM
    pending,    \* pending_profile, the candidate of a run
    quality,    \* pending_quality.grade: none (unverified), unsafe or safe
    run,        \* automatic: Nothing or a Run
    scan,       \* Nothing or the check at work, or the last one
    refine,     \* Nothing or a refinement that works or is ready
    sweeping,   \* sweep.is_some()
    verifying,
    driven      \* the command in cal_command enables the output

vars == <<profile, pending, quality, run, scan, refine, sweeping, verifying, driven>>

\* A trim removes anchors and an edit adds a point, so that within one run no two
\* curves have the same number of both.
Curves == {c \in [size : MinSize..MaxSize, edits : 0..Capacity] :
              c.size + c.edits <= Capacity}
Points(c) == c.size + c.edits

NoLocal == Local + 1

Scans == [of : Curves, kind : {"full", "regional"}, seen : 0..Grid,
          missed : BOOLEAN, local : 0..NoLocal, safe : BOOLEAN]

Stages == [stage : {"working", "ready"}, of : Curves]

Runs == [precise : BOOLEAN,     \* the policy is PRECISION
         phase : {"sweep", "verify", "refine", "reverify", "review"},
         passes : 0..MaxPasses, retried : BOOLEAN,
         recoveries : 0..RecoveryLimit, trims : 0..MaxTrims,
         regional : BOOLEAN,
         best : Scans \union {Nothing},
         undo : BOOLEAN]        \* the pending curve holds a tentative point

ASSUME NothingAssumption ==
    Nothing \notin Curves /\ Nothing \notin Scans /\ Nothing \notin Stages /\ Nothing \notin Runs

InPhase(phases) == run # Nothing /\ run.phase \in phases
RunActive == InPhase({"sweep", "verify", "refine", "reverify"})
Active == sweeping \/ verifying \/ RunActive

\* operation_profile
Curve == IF RunActive THEN pending ELSE profile

Complete(s) == s.seen = Grid

\* Scan::quality; a grade is given to complete checks only.
Graded(s) == Complete(s) /\ ~s.missed /\ s.local = Local
Quality(s) == IF s = Nothing THEN "none" ELSE IF s.safe THEN "safe" ELSE "unsafe"

NewScan(c, kind) ==
    [of |-> c, kind |-> kind, seen |-> 0, missed |-> FALSE, local |-> NoLocal, safe |-> FALSE]

Init ==
    /\ profile = Nothing /\ pending = Nothing /\ quality = "none"
    /\ run = Nothing /\ scan = Nothing /\ refine = Nothing
    /\ sweeping = FALSE /\ verifying = FALSE /\ driven = FALSE

Silent == sweeping' = FALSE /\ verifying' = FALSE /\ driven' = FALSE

\* apply_target
Apply == verifying' = TRUE /\ driven' = TRUE /\ UNCHANGED sweeping

-----------------------------------------------------------------------------
(* finish_automatic of the run r with the candidate p and the scan s: the   *)
(* tentative point is taken back, and a candidate that was never checked    *)
(* is dropped.  Only a first check with gaps keeps it, for diagnosis.       *)

\* Mutant: the tentative point stays in the candidate.
KeepsEdit(r, p) == p

RolledBack(r, p) == IF r.undo THEN [p EXCEPT !.edits = @ - 1] ELSE p

FinishAs(r, p, s) ==
    /\ run' = [r EXCEPT !.phase = "review", !.undo = FALSE]
    /\ pending' = p
    /\ scan' = s
    /\ quality' = Quality(s)
    /\ refine' = Nothing
    /\ Silent
    /\ UNCHANGED profile

Finish(r, p) ==
    FinishAs(r, IF r.best = Nothing THEN Nothing ELSE RolledBack(r, p), r.best)

\* REVIEW - INCOMPLETE CHECK
KeepForReview(r, p, s) == FinishAs(r, p, s)

-----------------------------------------------------------------------------
(* begin_auto_check of the candidate p: around the new boundary after a     *)
(* trim, over the whole range otherwise.                                    *)

BeginCheck(r, p) ==
    \/ \E kind \in {"full"} \union (IF r.regional THEN {"regional"} ELSE {}) :
          /\ run' = [r EXCEPT !.regional = kind = "regional"]
          /\ scan' = NewScan(p, kind)
          /\ pending' = p
          /\ refine' = Nothing
          /\ verifying' = TRUE /\ driven' = TRUE /\ sweeping' = FALSE
          /\ UNCHANGED <<profile, quality>>
    \/ Finish([r EXCEPT !.regional = FALSE], p)

\* The preconditions shared by the recoveries: recover_grid_regions and
\* recover_completed_inner.
Recoverable(r, p) ==
    /\ ~r.precise
    /\ r.recoveries < RecoveryLimit
    /\ p.size > MinSize

\* A trimmed candidate starts over with a check of its own.
Recover(r, p) ==
    /\ Recoverable(r, p)
    /\ \E n \in MinSize..(p.size - 1) :
          BeginCheck([r EXCEPT !.phase = "verify", !.best = Nothing, !.regional = TRUE,
                               !.recoveries = @ + 1],
                     [p EXCEPT !.size = n])

-----------------------------------------------------------------------------
(* One target of a check, measured or missed.                               *)

\* The repeats follow a grid without gaps, unless it is known to be unstable or
\* has no target to repeat.
Repeats(s) == Complete(s) /\ ~s.missed /\ s.local = NoLocal

Visited(s, missed) ==
    IF s.local # NoLocal
    THEN [s EXCEPT !.local = @ + 1, !.missed = @ \/ missed]
    ELSE [s EXCEPT !.seen = @ + 1, !.missed = @ \/ missed]

MoreTargets(s) == ~Complete(s) \/ s.local < Local

\* The visit that does not end the check.
VisitNext(s) ==
    \/ MoreTargets(s) /\ scan' = s
    \/ Repeats(s) /\ scan' = [s EXCEPT !.local = 0]

\* The visit that does.
Ended(s) == Complete(s) /\ (s.local = NoLocal \/ s.local = Local)

\* The grade of an ended check.
Grades(s) == {[s EXCEPT !.safe = g] : g \in {FALSE} \union (IF Graded(s) THEN {TRUE} ELSE {})}

-----------------------------------------------------------------------------
(* What tick_automatic makes of the check s that has ended.                 *)

\* Mutant: without the limit on passes.
RefinesOn(s) == Points(s.of) >= Capacity

\* The limits of stop_reason; what it makes of the readings is left open.
StopsRefining(s) == run.passes >= MaxPasses \/ Points(s.of) >= Capacity

MayRefine(s) == ~StopsRefining(s) /\ s.local = Local

StartRefine(r) ==
    /\ run' = [r EXCEPT !.phase = "refine", !.passes = @ + 1]
    /\ refine' = [stage |-> "working", of |-> pending]
    /\ scan' = r.best
    /\ Apply
    /\ UNCHANGED <<profile, pending, quality>>

Certified(s) ==
    LET r == [run EXCEPT !.undo = FALSE, !.best = s]
    IN  \/ /\ run.phase = "reverify" /\ ~s.safe /\ run.trims < MaxTrims
           /\ Recover([r EXCEPT !.trims = @ + 1], pending)
        \/ Finish(r, pending)
        \/ MayRefine(s) /\ StartRefine(r)

\* The tentative point made the recheck worse.
Rejected ==
    /\ run.phase = "reverify"
    /\ LET r == [run EXCEPT !.undo = FALSE]
           p == RolledBack(run, pending)
       IN  \/ ~run.best.safe /\ Recover(r, p)
           \/ Finish(r, p)

\* Mutant: the next check is around the boundary again.
StaysRegional(s) == BeginCheck(run, pending)

FullCheckNext(s) == BeginCheck([run EXCEPT !.regional = FALSE], pending)

WithGaps(s) ==
    IF run.phase = "verify"
    THEN Recover(run, pending) \/ KeepForReview(run, pending, s)
    ELSE Finish(run, pending)

Decide(s) ==
    \/ s.missed /\ WithGaps(s)
    \/ ~s.missed /\ run.phase = "verify" /\ ~s.safe /\ Recover(run, pending)
    \/ ~s.missed /\ s.kind = "regional" /\ FullCheckNext(s)
    \/ ~s.missed /\ s.kind = "full" /\ (Certified(s) \/ Rejected)

-----------------------------------------------------------------------------
(* The automatic run, one action per kind of tick.                          *)

SweepEnds ==
    /\ sweeping
    /\ \/ \E n \in MinSize..MaxSize :
             BeginCheck([run EXCEPT !.phase = "verify"], [size |-> n, edits |-> 0])
       \/ Finish(run, Nothing)

AutoVisit ==
    /\ InPhase({"verify", "reverify"})
    /\ verifying
    /\ \E missed \in BOOLEAN :
          LET s == Visited(scan, missed)
          IN  \/ VisitNext(s) /\ Apply /\ UNCHANGED <<profile, pending, quality, run, refine>>
              \/ Ended(s) /\ \E g \in Grades(s) : Decide(g)

\* An output that faults, does not answer or cannot show the target.
AutoFault ==
    /\ InPhase({"verify", "reverify"})
    /\ Finish(run, pending)

RefineRetries ==
    /\ InPhase({"refine"}) /\ verifying
    /\ ~run.retried /\ run.passes < MaxPasses
    /\ run' = [run EXCEPT !.retried = TRUE, !.passes = @ + 1]
    /\ Apply
    /\ UNCHANGED <<profile, pending, quality, scan, refine>>

RefineSucceeds ==
    /\ InPhase({"refine"}) /\ verifying
    /\ BeginCheck([run EXCEPT !.undo = TRUE, !.phase = "reverify"],
                  [pending EXCEPT !.edits = @ + 1])

\* The time limit is taken for a gap of the check that is long over; the next
\* tick sees that the refinement failed.
RefineTimesOut ==
    /\ InPhase({"refine"}) /\ verifying
    /\ scan' = [scan EXCEPT !.missed = TRUE]
    /\ refine' = Nothing
    /\ Silent
    /\ UNCHANGED <<profile, pending, quality, run>>

RefineFails ==
    /\ InPhase({"refine"})
    /\ \/ ~run.best.safe /\ Recover(run, pending)
       \/ Finish(run, pending)

AutoTick ==
    \/ SweepEnds
    \/ AutoVisit \/ AutoFault
    \/ RefineRetries \/ RefineSucceeds \/ RefineTimesOut \/ RefineFails

-----------------------------------------------------------------------------
(* The read-only CHECK and the manual REFINE.                               *)

Manual == verifying /\ ~RunActive

\* stop_verify, which rejects a refinement at work.
StopVerify ==
    /\ refine' = IF refine # Nothing /\ refine.stage = "ready" THEN refine ELSE Nothing
    /\ Silent
    /\ UNCHANGED <<profile, pending, quality, run>>

CheckMeasure ==
    /\ Manual /\ refine = Nothing
    /\ LET s == Visited(scan, FALSE)
       IN  \/ VisitNext(s) /\ Apply /\ UNCHANGED <<profile, pending, quality, run, refine>>
           \/ Ended(s) /\ scan' \in Grades(s) /\ StopVerify

\* What is left of a run that failed keeps the check from going on.
CheckMiss ==
    /\ Manual /\ refine = Nothing
    /\ LET s == Visited(scan, TRUE)
       IN  \/ /\ run = Nothing /\ MoreTargets(s)
              /\ scan' = s /\ Apply
              /\ UNCHANGED <<profile, pending, quality, run, refine>>
           \/ run = Nothing /\ ~MoreTargets(s) /\ scan' = s /\ StopVerify
           \/ run # Nothing /\ UNCHANGED scan /\ StopVerify

ManualRefineEnds ==
    /\ Manual /\ refine # Nothing
    /\ refine' \in {Nothing, [refine EXCEPT !.stage = "ready"]}
    /\ Silent
    /\ UNCHANGED <<profile, pending, quality, run, scan>>

\* A fault of the output, RUN of either kind, or a page that overwrote the
\* captured settings.
ManualStops ==
    /\ Manual
    /\ StopVerify
    /\ UNCHANGED scan

ManualTick == CheckMeasure \/ CheckMiss \/ ManualRefineEnds

-----------------------------------------------------------------------------
(* The user.                                                                *)

Ready == refine # Nothing /\ refine.stage = "ready"

\* toggle_automatic while a run works.
PauseRun ==
    /\ RunActive /\ run.best # Nothing
    /\ Finish(run, pending)

\* Mutant: nothing is written to the port.
CancelQuietly == UNCHANGED driven /\ sweeping' = FALSE /\ verifying' = FALSE

SilencedByCancel == Silent

CancelRun ==
    /\ RunActive /\ run.best = Nothing
    /\ pending' = Nothing /\ run' = Nothing /\ scan' = Nothing /\ refine' = Nothing
    /\ SilencedByCancel
    /\ UNCHANGED <<profile, quality>>

StartRun ==
    /\ ~Active /\ ~Ready
    /\ \E precise \in BOOLEAN :
          run' = [precise |-> precise, phase |-> "sweep", passes |-> 0, retried |-> FALSE,
                  recoveries |-> 0, trims |-> 0, regional |-> FALSE, best |-> Nothing,
                  undo |-> FALSE]
    /\ pending' = Nothing /\ quality' = "none" /\ scan' = Nothing /\ refine' = Nothing
    /\ sweeping' = TRUE /\ driven' = TRUE
    /\ UNCHANGED <<profile, verifying>>

\* The refusal comes after the last run is forgotten.
RefuseRun ==
    /\ ~Active /\ Ready
    /\ run' = Nothing
    /\ UNCHANGED <<profile, pending, quality, scan, refine, sweeping, verifying, driven>>

CanAcceptImperfect ==
    /\ quality = "unsafe" /\ InPhase({"review"})
    /\ scan # Nothing /\ Graded(scan)

\* Only the candidate of an automatic run is asked for its quality.
MayAccept ==
    /\ ~Active /\ pending # Nothing
    /\ run # Nothing => quality = "safe" \/ CanAcceptImperfect

AcceptScan ==
    /\ MayAccept
    /\ profile' = pending
    /\ pending' = Nothing /\ quality' = "none" /\ run' = Nothing
    /\ UNCHANGED <<scan, refine, sweeping, verifying, driven>>

DiscardScan ==
    /\ ~Active /\ pending # Nothing
    /\ pending' = Nothing /\ quality' = "none" /\ run' = Nothing
    /\ UNCHANGED <<profile, scan, refine, sweeping, verifying, driven>>

StartCheck ==
    /\ ~Active /\ ~Ready /\ pending = Nothing /\ profile # Nothing
    /\ refine' = Nothing
    /\ scan' = NewScan(profile, "full")
    /\ Apply
    /\ UNCHANGED <<profile, pending, quality, run>>

StartRefinement ==
    /\ ~Active /\ ~Ready /\ pending = Nothing /\ profile # Nothing
    /\ scan # Nothing /\ Complete(scan) /\ scan.local = Local
    /\ Points(profile) < Capacity
    /\ refine' = [stage |-> "working", of |-> profile]
    /\ Apply
    /\ UNCHANGED <<profile, pending, quality, run, scan>>

AcceptRefinement ==
    /\ ~Active /\ Ready
    /\ profile' = [profile EXCEPT !.edits = @ + 1]
    /\ refine' = Nothing /\ scan' = Nothing
    /\ UNCHANGED <<pending, quality, run, sweeping, verifying, driven>>

\* Also while a run refines: the next tick sees that its refinement is gone.
DiscardRefinement ==
    /\ refine # Nothing
    /\ refine' = Nothing
    /\ Silent
    /\ UNCHANGED <<profile, pending, quality, run, scan>>

\* Mutant: the refinement of the earlier profile stays.
KeepsRefinement == refine

NoRefinement == Nothing

\* recall; the records kept are whatever was saved.
Recall ==
    /\ ~Active /\ pending = Nothing
    /\ \E n \in {MinSize, MaxSize} : profile' = [size |-> n, edits |-> 0]
    /\ run' = Nothing /\ scan' = Nothing /\ refine' = NoRefinement
    /\ UNCHANGED <<pending, quality, sweeping, verifying, driven>>

User ==
    \/ StartRun \/ RefuseRun \/ PauseRun \/ CancelRun
    \/ AcceptScan \/ DiscardScan
    \/ StartCheck \/ ManualStops
    \/ StartRefinement \/ AcceptRefinement \/ DiscardRefinement
    \/ Recall

-----------------------------------------------------------------------------
Tick == AutoTick \/ ManualTick

Next == Tick \/ User

Spec == Init /\ [][Next]_vars

\* Every target has a deadline, and the foreground loop keeps ticking.
FairSpec == Spec /\ WF_vars(Tick)

-----------------------------------------------------------------------------
(* Properties.                                                              *)

\* Curves keep to their capacity, runs to their budgets of passes, trims and
\* recoveries: an edit or a trim too many would leave its type.
TypeOK ==
    /\ profile \in Curves \union {Nothing}
    /\ pending \in Curves \union {Nothing}
    /\ quality \in {"none", "unsafe", "safe"}
    /\ run \in Runs \union {Nothing}
    /\ scan \in Scans \union {Nothing}
    /\ refine \in Stages \union {Nothing}
    /\ {sweeping, verifying, driven} \subseteq BOOLEAN

\* What a user can accept, however often the run was trimmed, edited, rolled back
\* or paused, is exactly the curve that a complete check of its whole range
\* measured (AUTO_CALIBRATION.md: "Neither the rejected edit nor the unverified
\* trimmed curve becomes an accepted profile").
OfferIsChecked ==
    MayAccept =>
        /\ scan # Nothing
        /\ scan.of = pending
        /\ scan.kind = "full"
        /\ Graded(scan)

\* A refinement is measured on, and inserted into, the curve it was proposed for.
RefinementFitsCurve == refine # Nothing => refine.of = Curve

\* The output is only driven for an operation at work: every end of a sweep, a
\* check or a refinement silences it.
SilentAtRest == driven => Active

\* Every operation comes to an end without the user.
OperationsEnd == Active ~> ~Active
=============================================================================
