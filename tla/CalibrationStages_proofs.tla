----------------------- MODULE CalibrationStages_proofs -----------------------
(***************************************************************************)
(* Proofs about CalibrationStages, for curves, checks and budgets of any    *)
(* size: what a user is offered was checked, a refinement is of the curve   *)
(* it goes into, and the output is silent when nothing is at work.          *)
(***************************************************************************)
EXTENDS CalibrationStages, TLAPS

-----------------------------------------------------------------------------
(* OfferIsChecked says what is true at the end of a run, so that the        *)
(* invariant has to say, in each phase, what the run would leave behind if  *)
(* it ended now: the best check, and the candidate without its tentative    *)
(* point.                                                                   *)

\* The check s was made of the whole range of the curve c.
Measured(c, s) == s \in Scans /\ s.of = c /\ s.kind = "full" /\ (s.safe => Graded(s))

\* What the run r with the candidate p falls back to.
Backed(r, p) ==
    /\ r.undo => p.edits > 0 /\ r.best # Nothing
    /\ r.best # Nothing => Measured(RolledBack(r, p), r.best)

SweepInv ==
    /\ sweeping => InPhase({"sweep"})
    /\ InPhase({"sweep"}) => /\ pending = Nothing /\ refine = Nothing
                             /\ run.best = Nothing /\ ~run.undo

CheckInv ==
    InPhase({"verify", "reverify"}) =>
        /\ pending \in Curves /\ refine = Nothing
        /\ scan \in Scans /\ scan.of = pending /\ MoreTargets(scan)
        /\ scan.kind = "regional" <=> run.regional
        /\ run.phase = "verify" => run.best = Nothing
        /\ run.phase = "reverify" => run.best # Nothing
        /\ Backed(run, pending)

RefineInv ==
    InPhase({"refine"}) =>
        /\ pending \in Curves /\ Points(pending) < Capacity
        /\ scan \in Scans
        /\ refine # Nothing => refine.of = pending
        /\ run.best # Nothing /\ ~run.undo
        /\ Backed(run, pending)

\* A candidate awaits its answer.
OfferInv ==
    ~RunActive /\ pending # Nothing =>
        /\ run # Nothing
        /\ refine = Nothing /\ ~verifying
        /\ scan \in Scans /\ scan.of = pending
        /\ quality = Quality(scan)
        /\ scan.safe => Graded(scan)
        /\ scan.missed \/ scan.kind = "full"

ManualInv ==
    /\ ~RunActive /\ refine # Nothing =>
           profile \in Curves /\ refine.of = profile /\ Points(profile) < Capacity
    /\ Manual /\ refine = Nothing => scan \in Scans /\ MoreTargets(scan)

IInv == TypeOK /\ SweepInv /\ CheckInv /\ RefineInv /\ OfferInv /\ ManualInv

-----------------------------------------------------------------------------
(* Curves, checks and runs.                                                 *)

LEMMA CurveParts ==
    ASSUME NEW c \in Curves
    PROVE  /\ c \in [size : MinSize..MaxSize, edits : 0..Capacity]
           /\ Points(c) \in Nat /\ Points(c) <= Capacity /\ c # Nothing
  BY StagesAssumption, NothingAssumption DEF Curves, Points

\* A point is added to a curve that has room for it, and taken back.
LEMMA PointAdded ==
    ASSUME NEW c \in Curves, Points(c) < Capacity
    PROVE  /\ [c EXCEPT !.edits = @ + 1] \in Curves
           /\ [c EXCEPT !.edits = @ + 1].edits > 0
           /\ [[c EXCEPT !.edits = @ + 1] EXCEPT !.edits = @ - 1] = c
<1> DEFINE d == [c EXCEPT !.edits = @ + 1]
<1>1. c \in [size : MinSize..MaxSize, edits : 0..Capacity] /\ c.size + c.edits < Capacity
  BY DEF Curves, Points
<1>2. c.size \in MinSize..MaxSize /\ c.edits \in 0..Capacity /\ c.edits + 1 \in 0..Capacity
  BY <1>1, StagesAssumption
<1>3. d.size = c.size /\ d.edits = c.edits + 1
  BY <1>1
<1>4. d \in [size : MinSize..MaxSize, edits : 0..Capacity]
  BY <1>1, <1>2
<1>5. d.size + d.edits <= Capacity
  BY <1>1, <1>2, <1>3, StagesAssumption
<1>6. d \in Curves
  BY <1>4, <1>5 DEF Curves
<1>7. [d EXCEPT !.edits = @ - 1] = [c EXCEPT !.edits = (c.edits + 1) - 1]
  BY <1>1, <1>3
<1>8. [c EXCEPT !.edits = (c.edits + 1) - 1] = c
  BY <1>1, <1>2, StagesAssumption
<1> QED
  BY <1>2, <1>3, <1>6, <1>7, <1>8, StagesAssumption

LEMMA RolledBackIsCurve ==
    ASSUME NEW r \in Runs, NEW p \in Curves, Backed(r, p)
    PROVE  RolledBack(r, p) \in Curves
<1> DEFINE d == [p EXCEPT !.edits = @ - 1]
<1>1. p \in [size : MinSize..MaxSize, edits : 0..Capacity] /\ p.size + p.edits <= Capacity
  BY DEF Curves
<1>2. CASE r.undo
  <2>1. p.size \in MinSize..MaxSize /\ p.edits \in 1..Capacity /\ p.edits - 1 \in 0..Capacity
    BY <1>1, <1>2, StagesAssumption DEF Backed
  <2>2. d.size = p.size /\ d.edits = p.edits - 1
    BY <1>1
  <2>3. d \in [size : MinSize..MaxSize, edits : 0..Capacity]
    BY <1>1, <2>1
  <2>4. d.size + d.edits <= Capacity
    BY <1>1, <2>1, <2>2, StagesAssumption
  <2> QED
    BY <1>2, <2>3, <2>4 DEF Curves, RolledBack
<1>3. CASE ~r.undo
  BY <1>3 DEF RolledBack
<1> QED
  BY <1>2, <1>3

\* A target of a check at work is one of the grid or a repeat.
LEMMA VisitedIsScan ==
    ASSUME NEW s \in Scans, MoreTargets(s), NEW missed \in BOOLEAN
    PROVE  /\ Visited(s, missed) \in Scans
           /\ Visited(s, missed).of = s.of
           /\ Visited(s, missed).kind = s.kind
<1>1. s.seen \in 0..Grid /\ s.local \in 0..NoLocal /\ s.missed \in BOOLEAN
  BY DEF Scans
<1>2. CASE s.local # NoLocal
  <2>1. s.local + 1 \in 0..NoLocal
    BY <1>1, <1>2, StagesAssumption DEF NoLocal
  <2>2. (s.missed \/ missed) \in BOOLEAN
    OBVIOUS
  <2> QED
    BY <1>2, <2>1, <2>2 DEF Visited, Scans
<1>3. CASE s.local = NoLocal
  <2>1. s.seen + 1 \in 0..Grid
    BY <1>1, <1>3, StagesAssumption DEF NoLocal, MoreTargets, Complete
  <2>2. (s.missed \/ missed) \in BOOLEAN
    OBVIOUS
  <2> QED
    BY <1>3, <2>1, <2>2 DEF Visited, Scans
<1> QED
  BY <1>2, <1>3

\* The check goes on with a target.
LEMMA RepeatsStart ==
    ASSUME NEW s \in Scans
    PROVE  /\ [s EXCEPT !.local = 0] \in Scans
           /\ [s EXCEPT !.local = 0].of = s.of
           /\ [s EXCEPT !.local = 0].kind = s.kind
           /\ MoreTargets([s EXCEPT !.local = 0])
  BY StagesAssumption DEF Scans, MoreTargets, NoLocal

LEMMA GradedScan ==
    ASSUME NEW s \in Scans, NEW g \in Grades(s)
    PROVE  /\ g \in Scans /\ g.of = s.of /\ g.kind = s.kind /\ g.missed = s.missed
           /\ g.local = s.local
           /\ g.safe => Graded(g)
  BY DEF Grades, Scans, Graded, Complete

LEMMA NewScanIsScan ==
    ASSUME NEW p \in Curves, NEW kind \in {"full", "regional"}
    PROVE  /\ NewScan(p, kind) \in Scans
           /\ NewScan(p, kind).of = p
           /\ NewScan(p, kind).kind = kind
           /\ MoreTargets(NewScan(p, kind))
  BY StagesAssumption DEF NewScan, Scans, NoLocal, MoreTargets, Complete

-----------------------------------------------------------------------------
(* The ways a run goes on, whatever led to them.                            *)

\* A run ends with what it falls back to, or with a check that has gaps.
LEMMA FinishAsKeeps ==
    ASSUME TypeOK, NEW r \in Runs,
           NEW p \in Curves \union {Nothing}, NEW s \in Scans \union {Nothing},
           p # Nothing => /\ s \in Scans /\ s.of = p
                          /\ s.safe => Graded(s)
                          /\ s.missed \/ s.kind = "full",
           FinishAs(r, p, s)
    PROVE  IInv'
<1>1. /\ run' = [r EXCEPT !.phase = "review", !.undo = FALSE]
      /\ pending' = p /\ scan' = s /\ quality' = Quality(s) /\ refine' = Nothing
      /\ sweeping' = FALSE /\ verifying' = FALSE /\ driven' = FALSE /\ profile' = profile
  BY DEF FinishAs, Silent
<1>2. run' \in Runs /\ run'.phase = "review"
  BY <1>1 DEF Runs
<1>3. run' # Nothing
  BY <1>2, NothingAssumption
<1>4. TypeOK'
  BY <1>1, <1>2 DEF TypeOK, Quality
<1>5. SweepInv' /\ CheckInv' /\ RefineInv' /\ ManualInv'
  BY <1>1, <1>2, <1>3 DEF SweepInv, CheckInv, RefineInv, ManualInv, InPhase, RunActive, Manual
<1>6. OfferInv'
  BY <1>1, <1>3 DEF OfferInv, Quality
<1> QED
  BY <1>4, <1>5, <1>6 DEF IInv

LEMMA FinishKeeps ==
    ASSUME TypeOK, NEW r \in Runs, NEW p \in Curves \union {Nothing},
           r.best # Nothing => p \in Curves, Backed(r, p),
           Finish(r, p)
    PROVE  IInv'
<1> DEFINE q == IF r.best = Nothing THEN Nothing ELSE RolledBack(r, p)
<1>1. q \in Curves \union {Nothing}
  BY RolledBackIsCurve
<1>2. r.best \in Scans \union {Nothing}
  BY DEF Runs
<1>3. q # Nothing => Measured(q, r.best)
  BY DEF Backed
<1>4. FinishAs(r, q, r.best)
  BY DEF Finish
<1> HIDE DEF q
<1> QED
  BY <1>1, <1>2, <1>3, <1>4, FinishAsKeeps DEF Measured

\* A check begins, or its first target cannot be shown and the run ends.
LEMMA BeginCheckKeeps ==
    ASSUME TypeOK, NEW r \in Runs, NEW p \in Curves,
           r.phase \in {"verify", "reverify"},
           r.phase = "verify" => r.best = Nothing,
           r.phase = "reverify" => r.best # Nothing,
           Backed(r, p),
           BeginCheck(r, p)
    PROVE  IInv'
<1>1. CASE Finish([r EXCEPT !.regional = FALSE], p)
  <2> DEFINE q == [r EXCEPT !.regional = FALSE]
  <2>1. q \in Runs /\ q.best = r.best /\ q.undo = r.undo
    BY DEF Runs
  <2>2. Backed(q, p)
    BY <2>1 DEF Backed, RolledBack
  <2>3. Finish(q, p)
    BY <1>1
  <2> HIDE DEF q
  <2> QED
    BY <2>1, <2>2, <2>3, FinishKeeps
<1>2. ASSUME NEW kind \in {"full", "regional"},
             run' = [r EXCEPT !.regional = kind = "regional"],
             scan' = NewScan(p, kind), pending' = p, refine' = Nothing,
             verifying' = TRUE, driven' = TRUE, sweeping' = FALSE,
             UNCHANGED <<profile, quality>>
      PROVE  IInv'
  <2>1. /\ run' \in Runs /\ run'.best = r.best /\ run'.undo = r.undo /\ run'.phase = r.phase
        /\ run'.regional = (kind = "regional")
    BY <1>2 DEF Runs
  <2>2. run' # Nothing /\ p # Nothing
    BY <2>1, NothingAssumption
  <2>3. scan' \in Scans /\ scan'.of = p /\ scan'.kind = kind /\ MoreTargets(scan')
    BY <1>2, NewScanIsScan
  <2>4. TypeOK'
    BY <1>2, <2>1, <2>3 DEF TypeOK
  <2>5. Backed(run', p)
    BY <2>1 DEF Backed, RolledBack
  <2>6. CheckInv'
    BY <1>2, <2>1, <2>3, <2>5 DEF CheckInv, InPhase, MoreTargets, Complete, Backed, RolledBack
  <2>7. SweepInv' /\ RefineInv' /\ OfferInv' /\ ManualInv'
    BY <1>2, <2>1, <2>2 DEF SweepInv, RefineInv, OfferInv, ManualInv, InPhase, RunActive, Manual
  <2> QED
    BY <2>4, <2>6, <2>7 DEF IInv
<1> QED
  BY <1>1, <1>2 DEF BeginCheck

\* A trimmed candidate starts over, with nothing to fall back to.
LEMMA RecoverKeeps ==
    ASSUME TypeOK, NEW r \in Runs, NEW p \in Curves, ~r.undo, Recover(r, p)
    PROVE  IInv'
<1>1. PICK n \in MinSize..(p.size - 1) :
         BeginCheck([r EXCEPT !.phase = "verify", !.best = Nothing, !.regional = TRUE,
                              !.recoveries = @ + 1], [p EXCEPT !.size = n])
  BY DEF Recover
<1> DEFINE q == [r EXCEPT !.phase = "verify", !.best = Nothing, !.regional = TRUE,
                          !.recoveries = @ + 1]
           c == [p EXCEPT !.size = n]
<1>2. q \in Runs /\ q.phase = "verify" /\ q.best = Nothing /\ ~q.undo
  <2>1. r.recoveries + 1 \in 0..RecoveryLimit
    BY StagesAssumption DEF Recover, Recoverable, Runs
  <2> QED
    BY <2>1 DEF Runs
<1>3. c \in Curves
  <2>1. p \in [size : MinSize..MaxSize, edits : 0..Capacity] /\ p.size + p.edits <= Capacity
    BY DEF Curves
  <2>2. n \in MinSize..MaxSize /\ n + p.edits <= Capacity
    BY <2>1, StagesAssumption
  <2>3. c.size = n /\ c.edits = p.edits /\ c \in [size : MinSize..MaxSize, edits : 0..Capacity]
    BY <2>1, <2>2
  <2> QED
    BY <2>2, <2>3 DEF Curves
<1>4. Backed(q, c)
  BY <1>2 DEF Backed
<1>5. BeginCheck(q, c)
  BY <1>1
<1> HIDE DEF q, c
<1> QED
  BY <1>2, <1>3, <1>4, <1>5, BeginCheckKeeps

\* The candidate that was checked as s becomes the best, and may be edited.
LEMMA StartRefineKeeps ==
    ASSUME TypeOK, NEW r \in Runs, NEW s \in Scans, pending \in Curves,
           Points(pending) < Capacity, r.passes < MaxPasses, ~r.undo,
           r.best = s, Measured(pending, s), sweeping = FALSE,
           StartRefine(r)
    PROVE  IInv'
<1>1. /\ run' = [r EXCEPT !.phase = "refine", !.passes = @ + 1]
      /\ refine' = [stage |-> "working", of |-> pending]
      /\ scan' = s /\ verifying' = TRUE /\ driven' = TRUE
      /\ UNCHANGED <<sweeping, profile, pending, quality>>
  BY DEF StartRefine, Apply
<1>2. r.passes + 1 \in 0..MaxPasses
  BY StagesAssumption DEF Runs
<1>3. /\ run' \in Runs /\ run'.phase = "refine" /\ run'.best = s /\ ~run'.undo
  BY <1>1, <1>2 DEF Runs
<1>4. run' # Nothing /\ s # Nothing
  BY <1>3, NothingAssumption
<1>5. refine' \in Stages /\ refine'.of = pending
  BY <1>1 DEF Stages
<1>6. TypeOK'
  BY <1>1, <1>3, <1>5 DEF TypeOK
<1>7. Backed(run', pending)
  BY <1>3 DEF Backed, RolledBack
<1>8. RefineInv'
  BY <1>1, <1>3, <1>4, <1>5, <1>7 DEF RefineInv, InPhase, Backed, RolledBack, Points
<1>9. SweepInv' /\ CheckInv' /\ OfferInv' /\ ManualInv'
  BY <1>1, <1>3, <1>4 DEF SweepInv, CheckInv, OfferInv, ManualInv, InPhase, RunActive, Manual
<1> QED
  BY <1>6, <1>8, <1>9 DEF IInv

-----------------------------------------------------------------------------
(* The ticks of a run.                                                      *)

LEMMA RunTypes ==
    ASSUME TypeOK, run # Nothing
    PROVE  run \in Runs
  BY DEF TypeOK

LEMMA SweepEndsKeeps ==
    ASSUME IInv, SweepEnds
    PROVE  IInv'
<1>1. run # Nothing /\ run \in Runs /\ run.phase = "sweep" /\ run.best = Nothing /\ ~run.undo
  BY RunTypes DEF IInv, SweepInv, SweepEnds, InPhase
<1>2. ASSUME NEW n \in MinSize..MaxSize,
             BeginCheck([run EXCEPT !.phase = "verify"], [size |-> n, edits |-> 0])
      PROVE  IInv'
  <2> DEFINE q == [run EXCEPT !.phase = "verify"]
             c == [size |-> n, edits |-> 0]
  <2>1. q \in Runs /\ q.phase = "verify" /\ q.best = Nothing /\ ~q.undo
    BY <1>1 DEF Runs
  <2>2. c \in Curves
    BY StagesAssumption DEF Curves
  <2>3. Backed(q, c) /\ BeginCheck(q, c)
    BY <1>2, <2>1 DEF Backed
  <2> HIDE DEF q, c
  <2> QED
    BY <2>1, <2>2, <2>3, BeginCheckKeeps DEF IInv
<1>3. CASE Finish(run, Nothing)
  BY <1>1, <1>3, FinishKeeps DEF Backed, IInv
<1> QED
  BY <1>2, <1>3 DEF SweepEnds

\* What a run makes of the check that has ended.
LEMMA DecideKeeps ==
    ASSUME IInv, InPhase({"verify", "reverify"}),
           NEW s \in Scans, s.of = pending, s.kind = scan.kind, s.safe => Graded(s),
           sweeping = FALSE, Decide(s)
    PROVE  IInv'
<1>1. /\ run # Nothing /\ run \in Runs /\ run.phase \in {"verify", "reverify"}
      /\ pending \in Curves /\ Backed(run, pending)
      /\ run.phase = "verify" => run.best = Nothing
      /\ run.phase = "reverify" => run.best # Nothing
      /\ TypeOK
  BY RunTypes DEF IInv, CheckInv, InPhase
<1>2. run.phase = "verify" => ~run.undo
  BY <1>1 DEF Backed
<1>3. ASSUME s.missed, WithGaps(s) PROVE IInv'
  <2>1. CASE run.phase = "verify" /\ Recover(run, pending)
    BY <1>1, <1>2, <2>1, RecoverKeeps
  <2>2. CASE run.phase = "verify" /\ KeepForReview(run, pending, s)
    BY <1>1, <1>3, <2>2, FinishAsKeeps DEF KeepForReview
  <2>3. CASE run.phase # "verify" /\ Finish(run, pending)
    BY <1>1, <2>3, FinishKeeps
  <2> QED
    BY <1>3, <2>1, <2>2, <2>3 DEF WithGaps
<1>4. ASSUME run.phase = "verify", Recover(run, pending) PROVE IInv'
  BY <1>1, <1>2, <1>4, RecoverKeeps
<1>5. ASSUME FullCheckNext(s) PROVE IInv'
  <2> DEFINE q == [run EXCEPT !.regional = FALSE]
  <2>1. q \in Runs /\ q.best = run.best /\ q.undo = run.undo /\ q.phase = run.phase
    BY <1>1 DEF Runs
  <2>2. Backed(q, pending) /\ BeginCheck(q, pending)
    BY <1>1, <1>5, <2>1 DEF Backed, RolledBack, FullCheckNext
  <2> HIDE DEF q
  <2> QED
    BY <1>1, <2>1, <2>2, BeginCheckKeeps
<1>6. ASSUME s.kind = "full", Certified(s) PROVE IInv'
  <2> DEFINE r == [run EXCEPT !.undo = FALSE, !.best = s]
  <2>1. r \in Runs /\ r.best = s /\ ~r.undo /\ r.passes = run.passes /\ r.trims = run.trims
    BY <1>1 DEF Runs
  <2>2. Measured(pending, s) /\ RolledBack(r, pending) = pending
    BY <1>6, <2>1 DEF Measured, RolledBack
  <2>3. Backed(r, pending)
    BY <2>1, <2>2 DEF Backed
  <2>4. ASSUME run.trims < MaxTrims, Recover([r EXCEPT !.trims = @ + 1], pending) PROVE IInv'
    <3>1. run.trims + 1 \in 0..MaxTrims
      BY <1>1, <2>4, StagesAssumption DEF Runs
    <3>2. [r EXCEPT !.trims = @ + 1] \in Runs /\ ~[r EXCEPT !.trims = @ + 1].undo
      BY <2>1, <3>1 DEF Runs
    <3> HIDE DEF r
    <3> QED
      BY <1>1, <2>4, <3>2, RecoverKeeps
  <2>5. ASSUME Finish(r, pending) PROVE IInv'
    <3> HIDE DEF r
    <3> QED
      BY <1>1, <2>1, <2>3, <2>5, FinishKeeps
  <2>6. ASSUME MayRefine(s), StartRefine(r) PROVE IInv'
    <3>1. run.passes < MaxPasses /\ Points(pending) < Capacity
      BY <1>1, <2>6, CurveParts, StagesAssumption DEF MayRefine, StopsRefining, Runs
    <3> HIDE DEF r
    <3> QED
      BY <1>1, <2>1, <2>2, <2>6, <3>1, StartRefineKeeps
  <2> QED
    BY <1>6, <2>4, <2>5, <2>6 DEF Certified
<1>7. ASSUME Rejected PROVE IInv'
  <2> DEFINE r == [run EXCEPT !.undo = FALSE]
             p == RolledBack(run, pending)
  <2>1. r \in Runs /\ ~r.undo /\ r.best = run.best
    BY <1>1 DEF Runs
  <2>2. p \in Curves
    BY <1>1, RolledBackIsCurve
  <2>3. Backed(r, p)
    BY <1>1, <2>1 DEF Backed, RolledBack
  <2>4. Recover(r, p) \/ Finish(r, p)
    BY <1>7 DEF Rejected
  <2> HIDE DEF r, p
  <2> QED
    BY <1>1, <2>1, <2>2, <2>3, <2>4, RecoverKeeps, FinishKeeps
<1> QED
  BY <1>3, <1>4, <1>5, <1>6, <1>7 DEF Decide

LEMMA RunKeepsStill ==
    ASSUME IInv, InPhase({"verify", "reverify", "refine"})
    PROVE  sweeping = FALSE
  BY DEF IInv, TypeOK, SweepInv, InPhase

LEMMA AutoVisitKeeps ==
    ASSUME IInv, AutoVisit
    PROVE  IInv'
<1>1. /\ run # Nothing /\ run \in Runs /\ run.phase \in {"verify", "reverify"}
      /\ scan \in Scans /\ scan.of = pending /\ MoreTargets(scan) /\ TypeOK
      /\ sweeping = FALSE /\ refine = Nothing /\ verifying
  BY RunTypes, RunKeepsStill DEF IInv, CheckInv, AutoVisit, InPhase
<1>2. PICK missed \in BOOLEAN :
         LET s == Visited(scan, missed)
         IN  \/ VisitNext(s) /\ Apply /\ UNCHANGED <<profile, pending, quality, run, refine>>
             \/ Ended(s) /\ \E g \in Grades(s) : Decide(g)
  BY DEF AutoVisit
<1> DEFINE s == Visited(scan, missed)
<1>3. s \in Scans /\ s.of = pending /\ s.kind = scan.kind
  BY <1>1, VisitedIsScan
<1> HIDE DEF s
<1>4. ASSUME VisitNext(s), Apply, UNCHANGED <<profile, pending, quality, run, refine>>
      PROVE  IInv'
  <2>1. scan' \in Scans /\ scan'.of = pending /\ scan'.kind = scan.kind /\ MoreTargets(scan')
    BY <1>3, <1>4, RepeatsStart DEF VisitNext
  <2>2. TypeOK'
    BY <1>1, <1>4, <2>1 DEF TypeOK, Apply
  <2>3. CheckInv'
    BY <1>1, <1>4, <2>1 DEF IInv, CheckInv, InPhase, Backed, RolledBack, MoreTargets, Complete
  <2>4. SweepInv' /\ RefineInv' /\ OfferInv' /\ ManualInv'
    BY <1>1, <1>4 DEF SweepInv, RefineInv, OfferInv, ManualInv, InPhase, RunActive, Manual, Apply
  <2> QED
    BY <2>2, <2>3, <2>4 DEF IInv
<1>5. ASSUME NEW g \in Grades(s), Decide(g) PROVE IInv'
  BY <1>1, <1>3, <1>5, GradedScan, DecideKeeps DEF InPhase
<1> QED
  BY <1>2, <1>4, <1>5 DEF s

LEMMA AutoFaultKeeps ==
    ASSUME IInv, AutoFault
    PROVE  IInv'
<1>1. run \in Runs /\ pending \in Curves /\ Backed(run, pending) /\ TypeOK
  BY RunTypes DEF IInv, CheckInv, AutoFault, InPhase
<1> QED
  BY <1>1, FinishKeeps DEF AutoFault

\* What holds while a point is sought.
LEMMA Refining ==
    ASSUME IInv, InPhase({"refine"})
    PROVE  /\ run # Nothing /\ run \in Runs /\ run.phase = "refine" /\ TypeOK
           /\ pending \in Curves /\ Points(pending) < Capacity /\ scan \in Scans
           /\ run.best # Nothing /\ ~run.undo /\ Backed(run, pending)
           /\ refine # Nothing => refine.of = pending
           /\ sweeping = FALSE
  BY RunTypes, RunKeepsStill DEF IInv, RefineInv, InPhase

LEMMA RefineRetriesKeeps ==
    ASSUME IInv, RefineRetries
    PROVE  IInv'
<1>1. InPhase({"refine"}) /\ run.passes < MaxPasses
      /\ run' = [run EXCEPT !.retried = TRUE, !.passes = @ + 1]
      /\ verifying' = TRUE /\ driven' = TRUE
      /\ UNCHANGED <<sweeping, profile, pending, quality, scan, refine>>
  BY Refining, StagesAssumption DEF RefineRetries, Runs, Apply
<1>2. run.passes + 1 \in 0..MaxPasses
  BY <1>1, Refining, StagesAssumption DEF Runs
<1>3. /\ run' \in Runs /\ run'.phase = "refine" /\ run'.best = run.best
      /\ run'.undo = run.undo
  BY <1>1, <1>2, Refining DEF Runs
<1>4. run' # Nothing
  BY <1>3, NothingAssumption
<1>5. TypeOK'
  BY <1>1, <1>3, Refining DEF TypeOK
<1>6. RefineInv'
  BY <1>1, <1>3, Refining DEF RefineInv, Backed, RolledBack, Points
<1>7. SweepInv' /\ CheckInv' /\ OfferInv' /\ ManualInv'
  BY <1>1, <1>3, <1>4, Refining
     DEF SweepInv, CheckInv, OfferInv, ManualInv, InPhase, RunActive, Manual
<1> QED
  BY <1>5, <1>6, <1>7 DEF IInv

LEMMA RefineSucceedsKeeps ==
    ASSUME IInv, RefineSucceeds
    PROVE  IInv'
<1> DEFINE r == [run EXCEPT !.undo = TRUE, !.phase = "reverify"]
           p == [pending EXCEPT !.edits = @ + 1]
<1>0. InPhase({"refine"})
  BY DEF RefineSucceeds
<1>1. r \in Runs /\ r.phase = "reverify" /\ r.best = run.best /\ r.undo
  BY <1>0, Refining DEF Runs
<1>2. p \in Curves /\ p.edits > 0 /\ [p EXCEPT !.edits = @ - 1] = pending
  BY <1>0, Refining, PointAdded
<1>3. Measured(pending, r.best)
  BY <1>0, <1>1, Refining DEF Backed, RolledBack
<1>4. RolledBack(r, p) = pending
  BY <1>1, <1>2 DEF RolledBack
<1>5. BeginCheck(r, p)
  BY DEF RefineSucceeds
<1> HIDE DEF r, p
<1>6. Backed(r, p) /\ r.best # Nothing
  BY <1>0, <1>1, <1>2, <1>3, <1>4, Refining DEF Backed
<1> QED
  BY <1>0, <1>1, <1>2, <1>5, <1>6, Refining, BeginCheckKeeps

LEMMA RefineTimesOutKeeps ==
    ASSUME IInv, RefineTimesOut
    PROVE  IInv'
<1>0. InPhase({"refine"})
  BY DEF RefineTimesOut
<1>1. /\ scan' = [scan EXCEPT !.missed = TRUE] /\ refine' = Nothing
      /\ sweeping' = FALSE /\ verifying' = FALSE /\ driven' = FALSE
      /\ UNCHANGED <<profile, pending, quality, run>>
  BY DEF RefineTimesOut, Silent
<1>2. scan' \in Scans
  BY <1>0, <1>1, Refining DEF Scans
<1>3. TypeOK'
  BY <1>0, <1>1, <1>2, Refining DEF TypeOK
<1>4. RefineInv'
  BY <1>0, <1>1, <1>2, Refining DEF RefineInv, Backed, RolledBack, Points
<1>5. SweepInv' /\ CheckInv' /\ OfferInv' /\ ManualInv'
  BY <1>0, <1>1, Refining
     DEF SweepInv, CheckInv, OfferInv, ManualInv, InPhase, RunActive, Manual
<1> QED
  BY <1>3, <1>4, <1>5 DEF IInv

LEMMA RefineFailsKeeps ==
    ASSUME IInv, RefineFails
    PROVE  IInv'
<1>0. InPhase({"refine"}) /\ (Recover(run, pending) \/ Finish(run, pending))
  BY DEF RefineFails
<1> QED
  BY <1>0, Refining, RecoverKeeps, FinishKeeps

-----------------------------------------------------------------------------
(* The read-only operations.                                                *)

\* An operation outside a run that ends leaves the candidate of a run alone.
LEMMA StopVerifyKeeps ==
    ASSUME IInv, ~RunActive, verifying, StopVerify, scan' \in Scans \union {Nothing}
    PROVE  IInv'
<1>1. /\ sweeping' = FALSE /\ verifying' = FALSE /\ driven' = FALSE
      /\ UNCHANGED <<profile, pending, quality, run>>
      /\ refine' = Nothing \/ refine' = refine
  BY DEF StopVerify, Silent
<1>2. pending = Nothing
  BY DEF IInv, OfferInv
<1>3. TypeOK'
  BY <1>1 DEF IInv, TypeOK
<1> QED
  BY <1>1, <1>2, <1>3
     DEF IInv, SweepInv, CheckInv, RefineInv, OfferInv, ManualInv, InPhase, RunActive, Manual, Points

LEMMA CheckVisited ==
    ASSUME IInv, Manual, refine = Nothing, NEW missed \in BOOLEAN
    PROVE  Visited(scan, missed) \in Scans
  BY VisitedIsScan DEF IInv, ManualInv

\* A check that goes on has a target.
LEMMA CheckGoesOn ==
    ASSUME IInv, Manual, refine = Nothing, scan' \in Scans, MoreTargets(scan'), Apply,
           UNCHANGED <<profile, pending, quality, run, refine>>
    PROVE  IInv'
<1>1. pending = Nothing /\ ~RunActive
  BY DEF IInv, OfferInv, Manual
<1>2. TypeOK'
  BY DEF IInv, TypeOK, Apply
<1>3. ManualInv'
  BY <1>1 DEF ManualInv, Apply, RunActive, InPhase, Points, MoreTargets, Complete
<1> QED
  BY <1>1, <1>2, <1>3 DEF IInv, SweepInv, CheckInv, RefineInv, OfferInv, InPhase, RunActive, Apply

LEMMA CheckMeasureKeeps ==
    ASSUME IInv, CheckMeasure
    PROVE  IInv'
<1> DEFINE s == Visited(scan, FALSE)
<1>1. s \in Scans /\ Manual /\ refine = Nothing
  BY CheckVisited DEF CheckMeasure
<1>2. \/ VisitNext(s) /\ Apply /\ UNCHANGED <<profile, pending, quality, run, refine>>
      \/ Ended(s) /\ scan' \in Grades(s) /\ StopVerify
  BY DEF CheckMeasure
<1> HIDE DEF s
<1>3. VisitNext(s) => scan' \in Scans /\ MoreTargets(scan')
  BY <1>1, RepeatsStart DEF VisitNext
<1>4. scan' \in Grades(s) => scan' \in Scans
  BY <1>1, GradedScan
<1> QED
  BY <1>1, <1>2, <1>3, <1>4, CheckGoesOn, StopVerifyKeeps DEF Manual

LEMMA CheckMissKeeps ==
    ASSUME IInv, CheckMiss
    PROVE  IInv'
<1> DEFINE s == Visited(scan, TRUE)
<1>1. s \in Scans /\ Manual /\ refine = Nothing
  BY CheckVisited DEF CheckMiss
<1>2. \/ /\ run = Nothing /\ MoreTargets(s)
         /\ scan' = s /\ Apply
         /\ UNCHANGED <<profile, pending, quality, run, refine>>
      \/ scan' = s /\ StopVerify
      \/ UNCHANGED scan /\ StopVerify
  BY DEF CheckMiss
<1> HIDE DEF s
<1>3. scan \in Scans \union {Nothing}
  BY DEF IInv, TypeOK
<1> QED
  BY <1>1, <1>2, <1>3, CheckGoesOn, StopVerifyKeeps DEF Manual

LEMMA ManualRefineEndsKeeps ==
    ASSUME IInv, ManualRefineEnds
    PROVE  IInv'
<1>1. /\ ~RunActive /\ refine # Nothing /\ pending = Nothing
      /\ sweeping' = FALSE /\ verifying' = FALSE /\ driven' = FALSE
      /\ UNCHANGED <<profile, pending, quality, run, scan>>
      /\ refine' = Nothing \/ refine' = [refine EXCEPT !.stage = "ready"]
  BY DEF ManualRefineEnds, Manual, IInv, OfferInv, Silent
<1>2. refine \in Stages
  BY <1>1 DEF IInv, TypeOK
<1>3. refine' = Nothing \/ (refine' \in Stages /\ refine'.of = refine.of)
  BY <1>1, <1>2 DEF Stages
<1>4. TypeOK'
  BY <1>1, <1>3 DEF IInv, TypeOK
<1> QED
  BY <1>1, <1>3, <1>4
     DEF IInv, SweepInv, CheckInv, RefineInv, OfferInv, ManualInv, InPhase, RunActive, Manual, Points

LEMMA ManualStopsKeeps ==
    ASSUME IInv, ManualStops
    PROVE  IInv'
  BY StopVerifyKeeps DEF ManualStops, Manual, IInv, TypeOK

-----------------------------------------------------------------------------
(* The user.                                                                *)

LEMMA PauseRunKeeps ==
    ASSUME IInv, PauseRun
    PROVE  IInv'
<1>1. RunActive /\ run.best # Nothing /\ Finish(run, pending)
  BY DEF PauseRun
<1>2. run \in Runs /\ pending \in Curves /\ Backed(run, pending) /\ TypeOK
  BY <1>1, RunTypes DEF IInv, SweepInv, CheckInv, RefineInv, RunActive, InPhase
<1> QED
  BY <1>1, <1>2, FinishKeeps

LEMMA CancelRunKeeps ==
    ASSUME IInv, CancelRun
    PROVE  IInv'
<1>1. /\ pending' = Nothing /\ run' = Nothing /\ scan' = Nothing /\ refine' = Nothing
      /\ sweeping' = FALSE /\ verifying' = FALSE /\ driven' = FALSE
      /\ UNCHANGED <<profile, quality>>
  BY DEF CancelRun, SilencedByCancel, Silent
<1>2. TypeOK'
  BY <1>1 DEF IInv, TypeOK
<1> QED
  BY <1>1, <1>2
     DEF IInv, SweepInv, CheckInv, RefineInv, OfferInv, ManualInv, InPhase, RunActive, Manual

LEMMA StartRunKeeps ==
    ASSUME IInv, StartRun
    PROVE  IInv'
<1>1. PICK precise \in BOOLEAN :
         run' = [precise |-> precise, phase |-> "sweep", passes |-> 0, retried |-> FALSE,
                 recoveries |-> 0, trims |-> 0, regional |-> FALSE, best |-> Nothing,
                 undo |-> FALSE]
  BY DEF StartRun
<1>2. run' \in Runs
  BY <1>1, StagesAssumption DEF Runs
<1>3. run' # Nothing
  BY <1>2, NothingAssumption
<1>4. /\ pending' = Nothing /\ quality' = "none" /\ scan' = Nothing /\ refine' = Nothing
      /\ sweeping' = TRUE /\ driven' = TRUE
      /\ UNCHANGED <<profile, verifying>>
  BY DEF StartRun
<1>5. TypeOK'
  BY <1>2, <1>4 DEF IInv, TypeOK
<1> QED
  BY <1>1, <1>3, <1>4, <1>5
     DEF IInv, SweepInv, CheckInv, RefineInv, OfferInv, ManualInv, InPhase, RunActive, Manual

LEMMA RefuseRunKeeps ==
    ASSUME IInv, RefuseRun
    PROVE  IInv'
<1>1. /\ ~RunActive /\ refine # Nothing /\ run' = Nothing
      /\ sweeping = FALSE /\ verifying = FALSE
      /\ UNCHANGED <<profile, pending, quality, scan, refine, sweeping, verifying, driven>>
  BY DEF RefuseRun, Active, Ready, IInv, TypeOK
<1>2. TypeOK'
  BY <1>1 DEF IInv, TypeOK
<1> QED
  BY <1>1, <1>2
     DEF IInv, SweepInv, CheckInv, RefineInv, OfferInv, ManualInv, InPhase, RunActive, Manual, Points

\* Accepting a candidate, or not, ends its run.
LEMMA AnswerKeeps ==
    ASSUME IInv, AcceptScan \/ DiscardScan
    PROVE  IInv'
<1>1. /\ ~RunActive /\ sweeping = FALSE /\ verifying = FALSE /\ pending # Nothing
      /\ profile' \in {profile, pending}
      /\ pending' = Nothing /\ quality' = "none" /\ run' = Nothing
      /\ UNCHANGED <<scan, refine, sweeping, verifying, driven>>
  BY DEF AcceptScan, DiscardScan, MayAccept, Active, IInv, TypeOK
<1>2. refine = Nothing
  BY <1>1 DEF IInv, OfferInv
<1>3. TypeOK'
  BY <1>1 DEF IInv, TypeOK
<1> QED
  BY <1>1, <1>2, <1>3
     DEF IInv, SweepInv, CheckInv, RefineInv, OfferInv, ManualInv, InPhase, RunActive, Manual

LEMMA StartCheckKeeps ==
    ASSUME IInv, StartCheck
    PROVE  IInv'
<1>1. /\ ~RunActive /\ sweeping = FALSE /\ pending = Nothing /\ profile \in Curves
      /\ refine' = Nothing /\ scan' = NewScan(profile, "full")
      /\ verifying' = TRUE /\ driven' = TRUE
      /\ UNCHANGED <<sweeping, profile, pending, quality, run>>
  BY DEF StartCheck, Active, Apply, IInv, TypeOK
<1>2. scan' \in Scans /\ MoreTargets(scan')
  BY <1>1, NewScanIsScan
<1>3. TypeOK'
  BY <1>1, <1>2 DEF IInv, TypeOK
<1>4. ManualInv'
  BY <1>1, <1>2 DEF ManualInv, MoreTargets, Complete
<1> QED
  BY <1>1, <1>3, <1>4 DEF IInv, SweepInv, CheckInv, RefineInv, OfferInv, InPhase, RunActive

LEMMA StartRefinementKeeps ==
    ASSUME IInv, StartRefinement
    PROVE  IInv'
<1>1. /\ ~RunActive /\ sweeping = FALSE /\ pending = Nothing
      /\ profile \in Curves /\ Points(profile) < Capacity
      /\ refine' = [stage |-> "working", of |-> profile]
      /\ verifying' = TRUE /\ driven' = TRUE
      /\ UNCHANGED <<sweeping, profile, pending, quality, run, scan>>
  BY DEF StartRefinement, Active, Apply, IInv, TypeOK
<1>2. refine' \in Stages /\ refine'.of = profile
  BY <1>1 DEF Stages
<1>3. refine' # Nothing
  BY <1>2, NothingAssumption
<1>4. TypeOK'
  BY <1>1, <1>2 DEF IInv, TypeOK
<1>5. ManualInv'
  BY <1>1, <1>2, <1>3 DEF ManualInv, Points
<1> QED
  BY <1>1, <1>4, <1>5 DEF IInv, SweepInv, CheckInv, RefineInv, OfferInv, InPhase, RunActive

LEMMA AcceptRefinementKeeps ==
    ASSUME IInv, AcceptRefinement
    PROVE  IInv'
<1>1. /\ ~RunActive /\ sweeping = FALSE /\ verifying = FALSE
      /\ refine # Nothing /\ pending = Nothing
      /\ profile' = [profile EXCEPT !.edits = @ + 1]
      /\ refine' = Nothing /\ scan' = Nothing
      /\ UNCHANGED <<pending, quality, run, sweeping, verifying, driven>>
  BY DEF AcceptRefinement, Active, Ready, IInv, TypeOK, OfferInv
<1>2. profile \in Curves /\ Points(profile) < Capacity
  BY <1>1 DEF IInv, ManualInv
<1>3. profile' \in Curves
  BY <1>1, <1>2, PointAdded
<1>4. TypeOK'
  BY <1>1, <1>3 DEF IInv, TypeOK
<1> QED
  BY <1>1, <1>4
     DEF IInv, SweepInv, CheckInv, RefineInv, OfferInv, ManualInv, InPhase, RunActive, Manual

LEMMA DiscardRefinementKeeps ==
    ASSUME IInv, DiscardRefinement
    PROVE  IInv'
<1>1. /\ refine # Nothing /\ refine' = Nothing
      /\ sweeping' = FALSE /\ verifying' = FALSE /\ driven' = FALSE
      /\ UNCHANGED <<profile, pending, quality, run, scan>>
  BY DEF DiscardRefinement, Silent
<1>2. TypeOK'
  BY <1>1 DEF IInv, TypeOK
<1>3. InPhase({"refine"}) \/ (~RunActive /\ pending = Nothing)
  BY <1>1 DEF IInv, SweepInv, CheckInv, OfferInv, RunActive, InPhase
<1>4. RefineInv'
  BY <1>1 DEF IInv, RefineInv, InPhase, Backed, RolledBack, Points
<1> QED
  BY <1>1, <1>2, <1>3, <1>4
     DEF IInv, SweepInv, CheckInv, OfferInv, ManualInv, InPhase, RunActive, Manual

LEMMA RecallKeeps ==
    ASSUME IInv, Recall
    PROVE  IInv'
<1>1. /\ sweeping = FALSE /\ verifying = FALSE /\ pending = Nothing
      /\ run' = Nothing /\ scan' = Nothing /\ refine' = Nothing
      /\ UNCHANGED <<pending, quality, sweeping, verifying, driven>>
  BY DEF Recall, Active, NoRefinement, IInv, TypeOK
<1>2. profile' \in Curves
  BY StagesAssumption DEF Recall, Curves
<1>3. TypeOK'
  BY <1>1, <1>2 DEF IInv, TypeOK
<1> QED
  BY <1>1, <1>3
     DEF IInv, SweepInv, CheckInv, RefineInv, OfferInv, ManualInv, InPhase, RunActive, Manual

-----------------------------------------------------------------------------
LEMMA InitIInv == Init => IInv
  BY NothingAssumption
     DEF Init, IInv, TypeOK, SweepInv, CheckInv, RefineInv, OfferInv, ManualInv, InPhase,
         RunActive, Manual

LEMMA NextIInv ==
    ASSUME IInv, [Next]_vars
    PROVE  IInv'
<1>1. ASSUME AutoTick PROVE IInv'
  BY <1>1, SweepEndsKeeps, AutoVisitKeeps, AutoFaultKeeps, RefineRetriesKeeps,
     RefineSucceedsKeeps, RefineTimesOutKeeps, RefineFailsKeeps DEF AutoTick
<1>2. ASSUME ManualTick PROVE IInv'
  BY <1>2, CheckMeasureKeeps, CheckMissKeeps, ManualRefineEndsKeeps DEF ManualTick
<1>3. ASSUME User PROVE IInv'
  BY <1>3, StartRunKeeps, RefuseRunKeeps, PauseRunKeeps, CancelRunKeeps, AnswerKeeps,
     StartCheckKeeps, ManualStopsKeeps, StartRefinementKeeps, AcceptRefinementKeeps,
     DiscardRefinementKeeps, RecallKeeps DEF User
<1>4. ASSUME UNCHANGED vars PROVE IInv'
  BY <1>4
     DEF vars, IInv, TypeOK, SweepInv, CheckInv, RefineInv, OfferInv, ManualInv, InPhase,
         RunActive, Manual, MoreTargets, Complete, Backed, Measured, RolledBack, Graded,
         Quality, Points
<1> QED
  BY <1>1, <1>2, <1>3, <1>4 DEF Next, Tick

\* However a run goes, each phase knows what it would leave behind.
THEOREM Inductive == Spec => []IInv
  BY InitIInv, NextIInv, PTL DEF Spec

\* Curves keep to their capacity, and runs to their budgets of passes, trims
\* and recoveries.
THEOREM StageTypes == Spec => []TypeOK
<1>1. IInv => TypeOK
  BY DEF IInv
<1> QED
  BY <1>1, Inductive, PTL

\* What can be accepted is exactly the curve that a complete check of its whole
\* range measured.
THEOREM OffersAreChecked == Spec => []OfferIsChecked
<1>1. IInv => OfferIsChecked
  BY DEF IInv, OfferInv, OfferIsChecked, MayAccept, CanAcceptImperfect, Active, Quality, Graded
<1> QED
  BY <1>1, Inductive, PTL

\* A refinement is of the curve it is inserted into.
THEOREM RefinementsFit == Spec => []RefinementFitsCurve
<1>1. IInv => RefinementFitsCurve
  BY DEF IInv, SweepInv, CheckInv, RefineInv, ManualInv, RefinementFitsCurve, Curve, RunActive,
         InPhase
<1> QED
  BY <1>1, Inductive, PTL

-----------------------------------------------------------------------------
(* Silence needs no more than itself.                                       *)

LEMMA FinishSilences ==
    ASSUME NEW r, NEW p, Finish(r, p)
    PROVE  driven' = FALSE
  BY DEF Finish, FinishAs, Silent

LEMMA BeginCheckDrives ==
    ASSUME NEW r, NEW p, BeginCheck(r, p)
    PROVE  SilentAtRest'
  BY FinishSilences DEF BeginCheck, SilentAtRest, Active

LEMMA RecoverDrives ==
    ASSUME NEW r, NEW p, Recover(r, p)
    PROVE  SilentAtRest'
  BY BeginCheckDrives DEF Recover

LEMMA StartRefineDrives ==
    ASSUME NEW r, StartRefine(r)
    PROVE  SilentAtRest'
  BY DEF StartRefine, Apply, SilentAtRest, Active

LEMMA DecideDrives ==
    ASSUME NEW s, Decide(s)
    PROVE  SilentAtRest'
<1>1. WithGaps(s) => SilentAtRest'
  BY RecoverDrives, FinishSilences DEF WithGaps, KeepForReview, FinishAs, Silent, SilentAtRest
<1>2. FullCheckNext(s) => SilentAtRest'
  BY BeginCheckDrives DEF FullCheckNext
<1>3. Certified(s) => SilentAtRest'
  BY RecoverDrives, FinishSilences, StartRefineDrives DEF Certified, SilentAtRest
<1>4. Rejected => SilentAtRest'
  BY RecoverDrives, FinishSilences DEF Rejected, SilentAtRest
<1> QED
  BY <1>1, <1>2, <1>3, <1>4, RecoverDrives DEF Decide

LEMMA NextSilence ==
    ASSUME SilentAtRest, [Next]_vars
    PROVE  SilentAtRest'
<1>1. Apply \/ Silent => SilentAtRest'
  BY DEF Apply, Silent, SilentAtRest, Active
<1>2. ASSUME AutoTick PROVE SilentAtRest'
  <2>1. SweepEnds => SilentAtRest'
    BY BeginCheckDrives, FinishSilences DEF SweepEnds, SilentAtRest
  <2>2. AutoVisit => SilentAtRest'
    BY <1>1, DecideDrives DEF AutoVisit
  <2>3. RefineSucceeds => SilentAtRest'
    BY BeginCheckDrives DEF RefineSucceeds
  <2>4. AutoFault \/ RefineFails => SilentAtRest'
    BY RecoverDrives, FinishSilences DEF AutoFault, RefineFails, SilentAtRest
  <2>5. RefineRetries \/ RefineTimesOut => SilentAtRest'
    BY <1>1 DEF RefineRetries, RefineTimesOut
  <2> QED
    BY <1>2, <2>1, <2>2, <2>3, <2>4, <2>5 DEF AutoTick
<1>3. ASSUME ManualTick PROVE SilentAtRest'
  BY <1>1, <1>3 DEF ManualTick, CheckMeasure, CheckMiss, ManualRefineEnds, StopVerify
<1>4. ASSUME User PROVE SilentAtRest'
  <2>1. PauseRun => SilentAtRest'
    BY FinishSilences DEF PauseRun, SilentAtRest
  <2>2. CancelRun \/ ManualStops \/ DiscardRefinement => SilentAtRest'
    BY <1>1 DEF CancelRun, SilencedByCancel, ManualStops, StopVerify, DiscardRefinement
  <2>3. StartRun => SilentAtRest'
    BY DEF StartRun, SilentAtRest, Active
  <2>4. StartCheck \/ StartRefinement => SilentAtRest'
    BY <1>1 DEF StartCheck, StartRefinement
  <2>5. RefuseRun \/ AcceptScan \/ DiscardScan \/ AcceptRefinement \/ Recall => SilentAtRest'
    BY DEF RefuseRun, AcceptScan, MayAccept, DiscardScan, AcceptRefinement, Recall, SilentAtRest
  <2> QED
    BY <1>4, <2>1, <2>2, <2>3, <2>4, <2>5 DEF User
<1>5. ASSUME UNCHANGED vars PROVE SilentAtRest'
  BY <1>5 DEF vars, SilentAtRest, Active, RunActive, InPhase
<1> QED
  BY <1>2, <1>3, <1>4, <1>5 DEF Next, Tick

\* Nothing drives the output unless an operation is at work.
THEOREM OutputIsSilent == Spec => []SilentAtRest
<1>1. Init => SilentAtRest
  BY DEF Init, SilentAtRest
<1> QED
  BY <1>1, NextSilence, PTL DEF Spec
===============================================================================
