------------------------ MODULE RouteService_proofs ------------------------
(***************************************************************************)
(* Proofs about RouteService for every set of jacks and routes.            *)
(*                                                                         *)
(* JackExclusion is not inductive by itself: a claim stays disjoint from   *)
(* the others because each claim is checked when it is made, but that a    *)
(* route's lanes and claim end together needs the layout to have stayed as *)
(* it was, and that the shared port is silent when an owner leaves needs   *)
(* the phases of the reference and of calibration.  Inv says all of this.  *)
(***************************************************************************)
EXTENDS RouteService, TLAPS

-----------------------------------------------------------------------------
(* Type correctness.                                                       *)

\* Gateware values stay gateware values.
LEMMA GatewareTypes ==
    /\ LaneOff \in Lane
    /\ \A p \in Port : PortOff(p) \in Port
    /\ \A p \in Port, n \in Outputs : PortOn(p, n) \in Port
    /\ TypeOK => \A n \in Outputs : LaneOn(n) \in Lane
BY DEF LaneOff, Lane, Port, PortOff, PortOn, LaneOn, TypeOK, Inhibited, Quiet

\* Claiming well-formed rows and releasing keep the table a table.
LEMMA ClaimTypes ==
    ASSUME claims \in [Owners -> Row]
    PROVE  /\ \A os : Released(claims, os) \in [Owners -> Row]
           /\ \A o \in Owners, ins \in SUBSET Inputs, outs \in SUBSET Outputs :
                 Claimed(claims, o, ins, outs) \in [Owners -> Row]
BY DEF Released, Claimed, Row, NoJacks

\* The initial state has its types.
LEMMA InitType == Init => TypeOK
<1> SUFFICES ASSUME Init PROVE TypeOK
  OBVIOUS
<1>1. claims \in [Owners -> Row]
  BY DEF Init, NoClaims, NoJacks, Row
<1>2. lanes \in [Outputs -> Lane]
  BY GatewareTypes DEF Init
<1>3. cal \in [on : BOOLEAN, input : Inputs, output : Outputs]
  BY DEF Init
<1>4. ref \in [phase : 0..3, output : Outputs]
  BY DEF Init
<1> QED
  BY <1>1, <1>2, <1>3, <1>4 DEF Init, TypeOK, Turns

\* The interrupt keeps the types.
LEMMA IsrType == TypeOK /\ Isr => TypeOK'
<1> SUFFICES ASSUME TypeOK, Isr PROVE TypeOK'
  OBVIOUS
<1> USE GatewareTypes
<1>1. CASE IsrGap
  BY <1>1 DEF IsrGap, TypeOK, StopAll
<1>2. CASE IsrIdle
  BY <1>2 DEF IsrIdle, TypeOK, gateware
<1>3. CASE IsrIdleOverrun
  BY <1>3 DEF IsrIdleOverrun, TypeOK, StopAll
<1>4. ASSUME NEW failed \in SUBSET (Batch \intersect active),
             NEW sent \in SUBSET ((Batch \intersect active) \ failed),
             IsrService(failed, sent)
      PROVE  TypeOK'
  <2>1. Ticked(failed, sent) \in [Outputs -> Lane]
    BY DEF Ticked, TypeOK
  <2>2. claims' \in [Owners -> Row]
    BY <1>4, ClaimTypes DEF IsrService, TypeOK
  <2>3. lanes' \in [Outputs -> Lane] /\ active' \in SUBSET Outputs
    BY <1>4, <2>1 DEF IsrService, StopGroups, TypeOK
  <2>4. running' \in BOOLEAN /\ commit' \in BOOLEAN /\ phase' \in {0, 1}
    BY <1>4 DEF IsrService, OtherBatch, TypeOK
  <2> QED
    BY <1>4, <2>2, <2>3, <2>4 DEF IsrService, TypeOK
<1>5. ASSUME NEW failed \in SUBSET (Batch \intersect active),
             NEW sent \in SUBSET ((Batch \intersect active) \ failed),
             NEW late \in BOOLEAN, IsrOverrun(failed, sent, late)
      PROVE  TypeOK'
  <2>1. claims' \in [Owners -> Row]
    BY <1>5, ClaimTypes DEF IsrOverrun, TypeOK
  <2> QED
    BY <1>5, <2>1 DEF IsrOverrun, StopAll, TypeOK
<1> QED
  BY <1>1, <1>2, <1>3, <1>4, <1>5 DEF Isr

\* A DAC sample and a watchdog keep the types.
LEMMA GatewareType == TypeOK /\ Gateware => TypeOK'
<1> SUFFICES ASSUME TypeOK, Gateware PROVE TypeOK'
  OBVIOUS
<1>1. CASE DacSample
  <2>1. port' \in Port
    BY <1>1 DEF DacSample, TypeOK, Port
  <2>2. lanes' \in [Outputs -> Lane]
    BY <1>1, GatewareTypes DEF DacSample, TypeOK, LaneOff, Lane
  <2> QED
    BY <1>1, <2>1, <2>2 DEF DacSample, TypeOK, software
<1>2. CASE PortWatchdog
  <2>1. port' \in Port
    BY <1>2 DEF PortWatchdog, TypeOK, Port, PortOff
  <2> QED
    BY <1>2, <2>1 DEF PortWatchdog, TypeOK, software
<1>3. ASSUME NEW n \in Outputs, LaneWatchdog(n) PROVE TypeOK'
  <2>1. lanes' \in [Outputs -> Lane]
    BY <1>3 DEF LaneWatchdog, TypeOK, LaneOff, Lane
  <2> QED
    BY <1>3, <2>1 DEF LaneWatchdog, TypeOK, software
<1> QED
  BY <1>1, <1>2, <1>3 DEF Gateware

\* Editing keeps a layout a layout.
LEMMA LayoutTypes ==
    ASSUME groups \in Layouts, NEW r \in Routes, NEW i \in Inputs
    PROVE  /\ WithSource(r, i) \in Layouts
           /\ \A g \in Layouts, n \in Outputs, enabled \in BOOLEAN :
                 Assign(g, r, n, enabled) \in Layouts
BY DEF WithSource, Assign, Layouts

\* A route edit keeps the types.
LEMMA EditType == TypeOK /\ Edit => TypeOK'
<1> SUFFICES ASSUME TypeOK, NEW r \in Routes, NEW i \in Inputs,
                    NEW n \in Outputs, NEW assign \in BOOLEAN,
                    EditRoute(r, i, n, assign)
             PROVE  TypeOK'
  BY DEF Edit
<1>1. groups \in Layouts /\ turn' \in Turns
  BY DEF TypeOK, EditRoute, Stage, Turns
<1>2. WithSource(r, i) \in Layouts
  BY <1>1, LayoutTypes
<1>3. Assign(WithSource(r, i), r, n, ~(n \in WithSource(r, i)[r].outputs)) \in Layouts
  BY <1>1, <1>2, LayoutTypes
<1>4. groups' \in Layouts
  BY <1>2, <1>3 DEF EditRoute
<1> QED
  BY <1>1, <1>4 DEF EditRoute, TypeOK, gateware

\* START and STOP keep the types.
LEMMA PlayType == TypeOK /\ Play => TypeOK'
<1> SUFFICES ASSUME TypeOK, NEW r \in Routes,
                    ToggleStop(r) \/ ToggleStart(r) \/ ToggleFailed(r)
             PROVE  TypeOK'
  BY DEF Play
<1> USE GatewareTypes
<1>0. turn' \in Turns
  BY DEF ToggleStop, ToggleStart, ToggleFailed, Startable, Stage, Turns
<1>1. CASE ToggleStop(r)
  <2>1. claims' \in [Owners -> Row]
    BY <1>1, ClaimTypes DEF ToggleStop, TypeOK
  <2> QED
    BY <1>0, <1>1, <2>1 DEF ToggleStop, StopGroups, TypeOK
<1>2. CASE ToggleStart(r)
  <2>1. groups[r].input \in Inputs /\ Members(r) \in SUBSET Outputs
    BY DEF TypeOK, Layouts, Members
  <2>2. claims' \in [Owners -> Row]
    BY <1>2, <2>1, ClaimTypes DEF ToggleStart, Claim, TypeOK, Owners
  <2>3. active' \in SUBSET Outputs /\ lanes' \in [Outputs -> Lane]
    BY <1>2, <2>1 DEF ToggleStart, TypeOK
  <2> QED
    BY <1>0, <1>2, <2>2, <2>3 DEF ToggleStart, BeginService, TypeOK
<1>3. CASE ToggleFailed(r)
  BY <1>0, <1>3 DEF ToggleFailed, BeginService, StopGroups, TypeOK
<1> QED
  BY <1>1, <1>2, <1>3

\* A write to the shared port keeps the gateware typed.
LEMMA PortWriteTypes ==
    ASSUME TypeOK, NEW n \in Outputs, PortWrite(n)
    PROVE  port' \in Port /\ lanes' \in [Outputs -> Lane]
BY GatewareTypes DEF PortWrite, TypeOK

\* The reference keeps the types.
LEMMA ReferenceType == TypeOK /\ ReferencePoll => TypeOK'
<1> SUFFICES ASSUME TypeOK, ReferencePoll PROVE TypeOK'
  OBVIOUS
<1> USE GatewareTypes DEF TypeOK
<1>0. turn' \in Turns
  <2>1. AfterPoll
    BY DEF ReferencePoll, ReferenceDrain, ReferenceStop, ReferenceStart,
           ReferenceRetarget, ReferenceAcked, ReferenceIdle
  <2> QED
    BY <2>1 DEF AfterPoll, Turns
<1>1. CASE ReferenceDrain
  <2>1. claims' \in [Owners -> Row]
    BY <1>1, ClaimTypes DEF ReferenceDrain
  <2>2. port' \in Port
    BY <1>1 DEF ReferenceDrain
  <2>3. ref' \in [phase : 0..3, output : Outputs]
    BY <1>1 DEF ReferenceDrain
  <2> QED
    BY <1>0, <1>1, <2>1, <2>2, <2>3 DEF ReferenceDrain
<1>2. CASE ReferenceStop
  <2>1. ref' \in [phase : 0..3, output : Outputs] /\ port' \in Port
    BY <1>2 DEF ReferenceStop
  <2> QED
    BY <1>0, <1>2, <2>1 DEF ReferenceStop, software
<1>3. ASSUME NEW n \in Outputs, ReferenceStart(n) PROVE TypeOK'
  <2>1. claims' \in [Owners -> Row]
    <3>1. Reference \in Owners /\ {} \in SUBSET Inputs /\ {n} \in SUBSET Outputs
      BY DEF Owners
    <3> QED
      BY <1>3, <3>1, ClaimTypes DEF ReferenceStart, Claim
  <2>2. port' \in Port /\ lanes' \in [Outputs -> Lane]
    BY <1>3, PortWriteTypes DEF ReferenceStart
  <2>3. ref' \in [phase : 0..3, output : Outputs]
    BY <1>3 DEF ReferenceStart
  <2> QED
    BY <1>0, <1>3, <2>1, <2>2, <2>3 DEF ReferenceStart
<1>4. CASE ReferenceRetarget
  <2>1. port' \in Port /\ lanes' \in [Outputs -> Lane]
    <3>1. ref.output \in Outputs /\ PortWrite(ref.output)
      BY <1>4 DEF ReferenceRetarget
    <3> QED
      BY <3>1, PortWriteTypes
  <2>2. ref' \in [phase : 0..3, output : Outputs]
    <3> HIDE DEF TypeOK
    <3>1. ref \in [phase : 0..3, output : Outputs] /\ ref' = [ref EXCEPT !.phase = 1]
      BY <1>4 DEF ReferenceRetarget, TypeOK
    <3> QED
      BY <3>1
  <2> QED
    BY <1>0, <1>4, <2>1, <2>2 DEF ReferenceRetarget, software
<1>5. CASE ReferenceAcked
  BY <1>0, <1>5 DEF ReferenceAcked, software, gateware
<1>6. CASE ReferenceIdle
  BY <1>0, <1>6 DEF ReferenceIdle, software, gateware
<1> QED
  BY <1>1, <1>2, <1>3, <1>4, <1>5, <1>6 DEF ReferencePoll

\* The calibration slot keeps the types.
LEMMA CalibrationType == TypeOK /\ CalibrationPoll => TypeOK'
<1> SUFFICES ASSUME TypeOK, CalibrationPoll PROVE TypeOK'
  OBVIOUS
<1> USE GatewareTypes DEF TypeOK
<1>0. turn' \in Turns
  BY DEF CalibrationPoll, CalibrationStart, CalibrationTarget,
         CalibrationDisable, Stage, Turns
<1>1. ASSUME NEW i \in Inputs, NEW n \in Outputs, NEW accepted \in BOOLEAN,
             CalibrationStart(i, n, accepted)
      PROVE  TypeOK'
  <2>1. claims' \in [Owners -> Row]
    <3>1. Calibration \in Owners /\ {i} \in SUBSET Inputs /\ {n} \in SUBSET Outputs
      BY DEF Owners
    <3> QED
      BY <1>1, <3>1, ClaimTypes DEF CalibrationStart, Claim
  <2>2. port' \in Port
    BY <1>1 DEF CalibrationStart
  <2>3. cal' \in [on : BOOLEAN, input : Inputs, output : Outputs]
    BY <1>1 DEF CalibrationStart
  <2> QED
    BY <1>0, <1>1, <2>1, <2>2, <2>3 DEF CalibrationStart
<1>2. CASE CalibrationTarget
  <2>1. port' \in Port /\ lanes' \in [Outputs -> Lane]
    BY <1>2, PortWriteTypes DEF CalibrationTarget
  <2> QED
    BY <1>0, <1>2, <2>1 DEF CalibrationTarget, software
<1>3. ASSUME NEW ends \in BOOLEAN, CalibrationDisable(ends) PROVE TypeOK'
  BY <1>0, <1>3 DEF CalibrationDisable, software
<1> QED
  BY <1>1, <1>2, <1>3 DEF CalibrationPoll

\* The foreground keeps the types.
LEMMA ForegroundType == TypeOK /\ Foreground => TypeOK'
<1> SUFFICES ASSUME TypeOK, Foreground PROVE TypeOK'
  OBVIOUS
<1>1. CASE Reconcile
  <2>1. claims' \in [Owners -> Row]
    BY <1>1, ClaimTypes DEF Reconcile, TypeOK
  <2>2. active' \in SUBSET Outputs /\ lanes' \in [Outputs -> Lane]
    BY <1>1, GatewareTypes DEF Reconcile, StopGroups, TypeOK
  <2>3. running' \in BOOLEAN /\ turn' \in Turns
    BY <1>1 DEF Reconcile, TypeOK, Stage, Turns
  <2> QED
    BY <1>1, <2>1, <2>2, <2>3 DEF Reconcile, TypeOK
<1>2. CASE Recall
  BY <1>2 DEF Recall, RecallBegin, RecallFinish, Stage, Turns, TypeOK,
              software, gateware
<1>3. CASE Pass
  BY <1>3 DEF Pass, Stage, Turns, TypeOK, software, gateware
<1> QED
  BY <1>1, <1>2, <1>3, ReferenceType, EditType, PlayType, CalibrationType
     DEF Foreground

\* Every variable keeps its type, whatever the jacks, the routes and the batch.
THEOREM TypeCorrect == Spec => []TypeOK
<1>1. TypeOK /\ [Next]_vars => TypeOK'
  <2>1. TypeOK /\ UNCHANGED vars => TypeOK'
    BY DEF TypeOK, vars
  <2> QED
    BY <2>1, IsrType, ForegroundType, GatewareType DEF Next
<1> QED
  BY <1>1, InitType, PTL DEF Spec

-----------------------------------------------------------------------------
(* The inductive invariant.                                                *)

\* The reference and calibration hold what they drive, and the port is silent
\* between them.
PortDiscipline ==
    /\ claims[Reference] =
         IF ref.phase = 0 THEN NoJacks
         ELSE [inputs |-> {}, outputs |-> {ref.output}]
    /\ cal.on => claims[Calibration] =
                   [inputs |-> {cal.input}, outputs |-> {cal.output}]
    /\ ~cal.on /\ ref.phase \in {0, 3} => port = PortOff(port)

\* A recall replaces the layout only while no route depends on it.
RecallIsAlone ==
    turn = "loading" => \A r \in Routes : ~Held(claims, r)

Inv ==
    /\ TypeOK
    /\ JackExclusion
    /\ HeldMatchesLayout
    /\ PlaysAsAGroup
    /\ PlayingIsServiced
    /\ DrivenByItsOwner
    /\ PortDiscipline
    /\ RecallIsAlone
-----------------------------------------------------------------------------
(* What the steps are made of.                                             *)

\* A disabled port drives nothing, and disabling it again changes nothing.
LEMMA DisabledIsSilent ==
    ASSUME NEW p \in Port
    PROVE  /\ PortOff(PortOff(p)) = PortOff(p)
           /\ Quiet(PortOff(p)) /\ ~PortOff(p).enabled /\ ~PortOff(p).staged
BY DEF Port, PortOff, Quiet

\* Giving jacks back keeps the rows apart and the remaining routes as they are.
LEMMA ReleaseKeepsClaims ==
    ASSUME NEW os, claims \in [Owners -> Row], claims' = Released(claims, os)
    PROVE  /\ JackExclusion => JackExclusion'
           /\ HeldMatchesLayout /\ groups' = groups => HeldMatchesLayout'
           /\ \A o \in Owners : claims'[o] = IF o \in os THEN NoJacks ELSE claims[o]
<1>1. \A o \in Owners : claims'[o] = IF o \in os THEN NoJacks ELSE claims[o]
  BY DEF Released
<1>2. JackExclusion => JackExclusion'
  BY <1>1 DEF JackExclusion, Overlaps, NoJacks
<1>3. HeldMatchesLayout /\ groups' = groups => HeldMatchesLayout'
  BY <1>1 DEF HeldMatchesLayout, Held, Members, Owners, LayoutValid
<1> QED
  BY <1>1, <1>2, <1>3

\* A granted claim overlaps no other row, whether it is new or repeated.
LEMMA ClaimKeepsExclusion ==
    ASSUME TypeOK, JackExclusion, NEW o \in Owners, NEW ins, NEW outs,
           CanClaim(claims, o, ins, outs), Claim(o, ins, outs)
    PROVE  /\ JackExclusion'
           /\ claims'[o] = [inputs |-> ins, outputs |-> outs]
           /\ \A p \in Owners \ {o} : claims'[p] = claims[p]
<1>1. /\ claims'[o] = [inputs |-> ins, outputs |-> outs]
      /\ \A p \in Owners \ {o} : claims'[p] = claims[p]
  BY DEF Claim, Claimed, TypeOK
<1>2. \A p \in Owners \ {o} : /\ ~Overlaps(claims[p], ins, outs)
                              /\ ~Overlaps([inputs |-> ins, outputs |-> outs],
                                           claims[p].inputs, claims[p].outputs)
  <2>1. CASE Held(claims, o)
    BY <2>1 DEF CanClaim, JackExclusion, Overlaps
  <2>2. CASE ~Held(claims, o)
    BY <2>2 DEF CanClaim, Overlaps
  <2> QED
    BY <2>1, <2>2
<1>3. JackExclusion'
  BY <1>1, <1>2 DEF JackExclusion
<1> QED
  BY <1>1, <1>3

\* Stopping routes does not touch the rows of calibration and the reference.
LEMMA ReleaseLeavesOperations ==
    ASSUME NEW rs \in SUBSET Routes, claims' = Released(claims, rs)
    PROVE  claims'[Calibration] = claims[Calibration] /\ claims'[Reference] = claims[Reference]
BY JacksAssumption DEF Released, Owners

\* Routes of a valid layout have no output in common.
LEMMA RoutesAreDisjoint ==
    ASSUME HeldMatchesLayout, NEW r \in Routes, NEW s \in Routes, r # s
    PROVE  Members(r) \intersect Members(s) = {}
BY DEF HeldMatchesLayout, LayoutValid, Members

\* A running route's row, read off its layout.
LEMMA HeldRow ==
    ASSUME HeldMatchesLayout, NEW r \in Routes, Held(claims, r)
    PROVE  claims[r].inputs = {groups[r].input} /\ claims[r].outputs = Members(r)
<1>1. claims[r] = [inputs |-> {groups[r].input}, outputs |-> Members(r)]
  BY DEF HeldMatchesLayout
<1> QED
  BY <1>1

\* Only held routes play, so the outputs of the others are silent.
LEMMA UnheldIsSilent ==
    ASSUME HeldMatchesLayout, PlaysAsAGroup, NEW r \in Routes, ~Held(claims, r)
    PROVE  Members(r) \intersect active = {}
BY RoutesAreDisjoint DEF PlaysAsAGroup, MembersOf

\* Stopping groups keeps groups whole: every route that is broken by what went
\* silent is among those stopped.
LEMMA GroupStop ==
    ASSUME TypeOK, HeldMatchesLayout, PlaysAsAGroup,
           NEW rs \in SUBSET Routes,
           NEW playing \in SUBSET active,
           \A s \in Routes \ rs : Members(s) \intersect playing \in {{}, Members(s)},
           \A s \in Routes : claims'[s] = IF s \in rs THEN NoJacks ELSE claims[s],
           groups' = groups, active' = playing \ MembersOf(rs)
    PROVE  PlaysAsAGroup'
<1>1. \A s \in Routes : Members(s)' = Members(s)
  BY DEF Members
<1>2. \A s \in Routes \ rs : Held(claims', s) <=> Held(claims, s)
  BY DEF Held
<1>3. \A s \in rs : Members(s) \intersect active' = {}
  BY DEF MembersOf
<1>4. \A s \in Routes \ rs : Members(s) \intersect active' = Members(s) \intersect playing
  <2> TAKE s \in Routes \ rs
  <2>1. \A r \in rs : Members(s) \intersect Members(r) = {}
    BY RoutesAreDisjoint
  <2> QED
    BY <2>1 DEF MembersOf
<1>5. active' \subseteq MembersOf({r \in Routes : Held(claims, r)})'
  <2> SUFFICES ASSUME NEW n \in active'
               PROVE  \E r \in Routes : Held(claims', r) /\ n \in Members(r)
    BY <1>1 DEF MembersOf
  <2>1. PICK r \in Routes : Held(claims, r) /\ n \in Members(r)
    BY DEF PlaysAsAGroup, MembersOf
  <2>2. r \notin rs
    BY <1>3, <2>1
  <2> QED
    BY <1>2, <2>1, <2>2
<1> QED
  BY <1>1, <1>3, <1>4, <1>5 DEF PlaysAsAGroup

\* After its broken routes are taken out, what still plays is whole groups.
LEMMA UnbrokenIsWhole ==
    ASSUME HeldMatchesLayout, PlaysAsAGroup, NEW playing \in SUBSET active,
           NEW s \in Routes \ Broken(playing)
    PROVE  Members(s) \intersect playing \in {{}, Members(s)}
<1>1. CASE Held(claims, s)
  BY <1>1 DEF Broken
<1>2. CASE ~Held(claims, s)
  BY <1>2, UnheldIsSilent
<1> QED
  BY <1>1, <1>2

\* Stopped lanes are written off; the others follow what still plays.
LEMMA StopFollows ==
    ASSUME NEW rs, NEW playing, NEW hw, LanesFollow(hw, playing),
           StopGroups(rs, playing, hw)
    PROVE  LanesFollow(lanes', active')
BY DEF LanesFollow, StopGroups, LaneOff

-----------------------------------------------------------------------------
(* The steps preserve the invariant.                                       *)

\* Initially nothing is claimed, so nothing can disagree.
LEMMA InitInv == Init => Inv
<1> SUFFICES ASSUME Init PROVE Inv
  OBVIOUS
<1>1. \A o \in Owners : claims[o] = NoJacks
  BY DEF Init, NoClaims
<1>2. \A r \in Routes : ~Held(claims, r) /\ Members(r) = {}
  BY <1>1 DEF Init, Held, Members, Owners, Layouts
<1>3. JackExclusion
  BY <1>1 DEF JackExclusion, Overlaps, NoJacks
<1>4. HeldMatchesLayout
  BY <1>2 DEF HeldMatchesLayout, LayoutValid, Members
<1>5. PlaysAsAGroup /\ PlayingIsServiced
  BY <1>2 DEF Init, PlaysAsAGroup, PlayingIsServiced
<1>6. Quiet(port) /\ port.staged = FALSE /\ port = PortOff(port)
  BY DisabledIsSilent DEF Init, Port
<1>7. DrivenByItsOwner
  BY <1>6 DEF Init, DrivenByItsOwner, LanesFollow, PortFollows, LaneOff
<1>8. PortDiscipline /\ RecallIsAlone
  BY <1>1, <1>6 DEF Init, PortDiscipline, RecallIsAlone, Owners
<1> QED
  BY <1>3, <1>4, <1>5, <1>7, <1>8, InitType DEF Inv

\* A step that leaves the reference, calibration, their rows and the port alone
\* keeps what is said of them.
LEMMA PortUntouched ==
    ASSUME PortFollows, PortDiscipline, ~(cal.on /\ ref.phase # 0),
           UNCHANGED <<port, cal, ref>>,
           claims'[Calibration] = claims[Calibration] \/ ~cal.on,
           claims'[Reference] = claims[Reference]
    PROVE  PortFollows' /\ PortDiscipline' /\ ~(cal.on /\ ref.phase # 0)'
<1>1. PortUser' = PortUser
  BY DEF PortUser, PortDiscipline
<1> QED
  BY <1>1 DEF PortFollows, Quiet, PortDiscipline, PortOff

\* A step of the interrupt or the gateware does not take part in a recall.
LEMMA RecallUndisturbed ==
    ASSUME NEW os, TypeOK, RecallIsAlone, turn' = turn, claims' = Released(claims, os)
    PROVE  RecallIsAlone'
BY DEF RecallIsAlone, Released, Held, Owners

\* The interrupt keeps the invariant: what it silences it also releases, or leaves
\* for the foreground to release.
LEMMA IsrInv == Inv /\ Isr => Inv'
<1> SUFFICES ASSUME Inv, Isr PROVE Inv'
  OBVIOUS
<1> USE DEF Inv
<1>0. TypeOK'
  BY IsrType
<1>a. ASSUME StopAll, UNCHANGED <<claims, groups, port, cal, ref, turn>>,
             last' \in {last, "stale"}
      PROVE  Inv'
  <2>1. JackExclusion' /\ HeldMatchesLayout' /\ RecallIsAlone'
    BY <1>a DEF JackExclusion, HeldMatchesLayout, LayoutValid, Members, RecallIsAlone
  <2>2. PlaysAsAGroup' /\ PlayingIsServiced'
    BY <1>a DEF StopAll, PlaysAsAGroup, PlayingIsServiced
  <2>3. LanesFollow(lanes', active')
    BY <1>a DEF StopAll, LanesFollow, LaneOff
  <2> QED
    BY <1>0, <1>a, <2>1, <2>2, <2>3, PortUntouched DEF DrivenByItsOwner
<1>1. CASE IsrGap
  BY <1>1, <1>a DEF IsrGap
<1>2. CASE IsrIdle
  <2>1. JackExclusion' /\ HeldMatchesLayout' /\ RecallIsAlone' /\ PlaysAsAGroup'
    BY <1>2 DEF IsrIdle, JackExclusion, HeldMatchesLayout, LayoutValid, Members,
                RecallIsAlone, PlaysAsAGroup, MembersOf
  <2>2. PlayingIsServiced' /\ LanesFollow(lanes', active')
    BY <1>2 DEF IsrIdle, gateware, PlayingIsServiced, DrivenByItsOwner
  <2> QED
    BY <1>0, <1>2, <2>1, <2>2, PortUntouched DEF IsrIdle, gateware, DrivenByItsOwner
<1>3. CASE IsrIdleOverrun
  BY <1>3, <1>a DEF IsrIdleOverrun
<1>4. ASSUME NEW failed \in SUBSET (Batch \intersect active),
             NEW sent \in SUBSET ((Batch \intersect active) \ failed),
             IsrService(failed, sent)
      PROVE  Inv'
  <2> DEFINE playing == active \ failed
             rs == Broken(playing)
  <2>1. /\ claims' = Released(claims, rs)
        /\ StopGroups(rs, playing, Ticked(failed, sent))
        /\ UNCHANGED <<groups, port, cal, ref, turn>>
    BY <1>4 DEF IsrService
  <2>2. rs \in SUBSET Routes /\ playing \in SUBSET active
    BY DEF Broken
  <2>3. \A s \in Routes \ rs : Members(s) \intersect playing \in {{}, Members(s)}
    BY <2>2, UnbrokenIsWhole
  <2>4. PlaysAsAGroup'
    <3>1. \A s \in Routes : claims'[s] = IF s \in rs THEN NoJacks ELSE claims[s]
      BY <2>1 DEF Released, Owners
    <3>2. active' = playing \ MembersOf(rs)
      BY <2>1 DEF StopGroups
    <3> QED
      BY <2>1, <2>2, <2>3, <3>1, <3>2, GroupStop
  <2>5. LanesFollow(Ticked(failed, sent), playing)
    BY DEF Ticked, LaneOn, LaneOff, LanesFollow, DrivenByItsOwner, TypeOK, Lane
  <2>6. LanesFollow(lanes', active')
    BY <2>1, <2>5, StopFollows
  <2>7. PlayingIsServiced'
    BY <1>4 DEF IsrService, PlayingIsServiced
  <2>8. JackExclusion' /\ HeldMatchesLayout' /\ RecallIsAlone'
    BY <2>1, ReleaseKeepsClaims, RecallUndisturbed DEF TypeOK
  <2>9. claims'[Calibration] = claims[Calibration] /\ claims'[Reference] = claims[Reference]
    BY <2>1, <2>2, ReleaseLeavesOperations
  <2> QED
    BY <1>0, <2>1, <2>4, <2>6, <2>7, <2>8, <2>9, PortUntouched DEF DrivenByItsOwner
<1>5. ASSUME NEW failed \in SUBSET (Batch \intersect active),
             NEW sent \in SUBSET ((Batch \intersect active) \ failed),
             NEW late \in BOOLEAN, IsrOverrun(failed, sent, late)
      PROVE  Inv'
  <2> DEFINE rs == Broken(active \ failed)
  <2>1. /\ claims' = Released(claims, rs) /\ StopAll
        /\ UNCHANGED <<groups, port, cal, ref, turn>>
    BY <1>5 DEF IsrOverrun
  <2>2. PlaysAsAGroup' /\ PlayingIsServiced'
    BY <2>1 DEF StopAll, PlaysAsAGroup, PlayingIsServiced
  <2>3. LanesFollow(lanes', active')
    BY <2>1 DEF StopAll, LanesFollow, LaneOff
  <2>4. JackExclusion' /\ HeldMatchesLayout' /\ RecallIsAlone'
    BY <2>1, ReleaseKeepsClaims, RecallUndisturbed DEF TypeOK
  <2>5. rs \in SUBSET Routes
    BY DEF Broken
  <2>6. claims'[Calibration] = claims[Calibration] /\ claims'[Reference] = claims[Reference]
    BY <2>1, <2>5, ReleaseLeavesOperations
  <2> QED
    BY <1>0, <2>1, <2>2, <2>3, <2>4, <2>6, PortUntouched DEF DrivenByItsOwner
<1> QED
  BY <1>1, <1>2, <1>3, <1>4, <1>5 DEF Isr

\* A step that leaves the claims and the layout alone leaves alone what is said
\* of them; so does one that leaves the players alone.
LEMMA Untouched ==
    /\ UNCHANGED claims => (JackExclusion => JackExclusion')
    /\ UNCHANGED <<claims, groups>> => (HeldMatchesLayout => HeldMatchesLayout')
    /\ UNCHANGED <<claims, groups, active>> => (PlaysAsAGroup => PlaysAsAGroup')
    /\ UNCHANGED <<active, running, last>> => (PlayingIsServiced => PlayingIsServiced')
BY DEF JackExclusion, HeldMatchesLayout, LayoutValid, Members, PlaysAsAGroup,
       MembersOf, PlayingIsServiced

\* A DAC sample and a watchdog only take from what their owners asked for.
LEMMA GatewareInv == Inv /\ Gateware => Inv'
<1> SUFFICES ASSUME Inv, Gateware PROVE Inv'
  OBVIOUS
<1> USE DEF Inv
<1>0. TypeOK'
  BY GatewareType
<1>1. UNCHANGED <<claims, groups, active, running, last, cal, ref, turn>>
  BY DEF Gateware, DacSample, PortWatchdog, LaneWatchdog, software
<1>2. /\ JackExclusion' /\ HeldMatchesLayout' /\ PlaysAsAGroup'
      /\ PlayingIsServiced' /\ RecallIsAlone'
  BY <1>1, Untouched DEF RecallIsAlone
<1>3. PortUser' = PortUser
  BY <1>1 DEF PortUser
<1>4. CASE DacSample
  <2>1. PortFollows'
    BY <1>3, <1>4 DEF DacSample, PortFollows, Quiet, DrivenByItsOwner, TypeOK, Port
  <2>2. LanesFollow(lanes', active')
    BY <1>1, <1>4 DEF DacSample, LanesFollow, DrivenByItsOwner, LaneOff
  <2>3. PortDiscipline'
    BY <1>1, <1>4 DEF DacSample, PortDiscipline, PortOff, TypeOK, Port
  <2> QED
    BY <1>0, <1>1, <1>2, <2>1, <2>2, <2>3 DEF DrivenByItsOwner
<1>5. CASE PortWatchdog
  <2>1. PortFollows'
    <3>1. port'.at = port.at /\ port'.staged = FALSE /\ ~Quiet(port)
      BY <1>5 DEF PortWatchdog, PortOff, TypeOK, Port, Quiet
    <3> QED
      BY <1>3, <3>1 DEF PortFollows, DrivenByItsOwner
  <2>2. LanesFollow(lanes', active')
    BY <1>1, <1>5 DEF PortWatchdog, DrivenByItsOwner
  <2>3. PortDiscipline'
    BY <1>1, <1>5 DEF PortWatchdog, PortDiscipline, PortOff, TypeOK, Port
  <2> QED
    BY <1>0, <1>1, <1>2, <2>1, <2>2, <2>3 DEF DrivenByItsOwner
<1>6. ASSUME NEW n \in Outputs, LaneWatchdog(n) PROVE Inv'
  <2>1. LanesFollow(lanes', active')
    BY <1>1, <1>6 DEF LaneWatchdog, LanesFollow, DrivenByItsOwner, LaneOff, TypeOK
  <2>2. PortFollows' /\ PortDiscipline'
    BY <1>1, <1>6, PortUntouched DEF LaneWatchdog, DrivenByItsOwner
  <2> QED
    BY <1>0, <1>1, <1>2, <2>1, <2>2 DEF DrivenByItsOwner
<1> QED
  BY <1>4, <1>5, <1>6 DEF Gateware

\* Reconciliation returns claims of what is silent.
LEMMA ReconcileInv == Inv /\ Reconcile => Inv'
<1> SUFFICES ASSUME Inv, Reconcile PROVE Inv'
  OBVIOUS
<1> USE DEF Inv
<1> DEFINE rs == Broken(active)
<1>1. /\ claims' = Released(claims, rs \union Ended)
      /\ StopGroups(rs, active, lanes)
      /\ running' = IF rs = {} THEN running ELSE active' # {}
      /\ UNCHANGED <<groups, last, port, cal, ref>>
      /\ turn' = "edit"
  BY DEF Reconcile, Stage
<1>2. rs \in SUBSET Routes /\ active \in SUBSET active
  BY DEF Broken
<1>3. \A s \in Routes \ rs : Members(s) \intersect active \in {{}, Members(s)}
  BY <1>2, UnbrokenIsWhole
<1>4. \A s \in Routes : claims'[s] = IF s \in rs THEN NoJacks ELSE claims[s]
  BY <1>1, JacksAssumption DEF Released, Owners, Ended
<1>5. PlaysAsAGroup'
  <2>1. active' = active \ MembersOf(rs)
    BY <1>1 DEF StopGroups
  <2> QED
    BY <1>1, <1>2, <1>3, <1>4, <2>1, GroupStop
<1>6. LanesFollow(lanes', active')
  BY <1>1, StopFollows DEF DrivenByItsOwner
<1>7. PlayingIsServiced'
  <2>1. rs = {} => active' = active
    BY <1>1 DEF StopGroups, MembersOf
  <2>2. active' \subseteq active
    BY <1>1 DEF StopGroups
  <2> QED
    BY <1>1, <2>1, <2>2 DEF PlayingIsServiced
<1>8. JackExclusion' /\ HeldMatchesLayout'
  BY <1>1, ReleaseKeepsClaims DEF TypeOK
<1>9. /\ claims'[Calibration] = claims[Calibration] \/ ~cal.on
      /\ claims'[Reference] = claims[Reference]
  BY <1>1, <1>2, JacksAssumption DEF Released, Owners, Ended
<1>10. RecallIsAlone'
  BY <1>1 DEF RecallIsAlone
<1>11. PortFollows' /\ PortDiscipline' /\ ~(cal.on /\ ref.phase # 0)'
  BY <1>1, <1>9, PortUntouched DEF DrivenByItsOwner
<1> QED
  BY <1>5, <1>6, <1>7, <1>8, <1>10, <1>11, ForegroundType DEF DrivenByItsOwner, Foreground

\* An edit changes one route and keeps the layout valid.
LEMMA SourceKeepsLayout ==
    ASSUME groups \in Layouts, LayoutValid(groups), NEW r \in Routes, NEW i \in Inputs
    PROVE  /\ LayoutValid(WithSource(r, i))
           /\ \A s \in Routes : WithSource(r, i)[s].outputs = groups[s].outputs
           /\ \A s \in Routes \ {r} : WithSource(r, i)[s] = groups[s]
<1> DEFINE g == WithSource(r, i)
<1>1. /\ \A s \in Routes : g[s].outputs = groups[s].outputs
      /\ \A s \in Routes \ {r} : g[s] = groups[s]
  BY DEF WithSource, Layouts
<1>2. CASE AvailableInput(groups, claims, r, i)
  <2>1. g[r].input = i
    BY <1>2 DEF WithSource, Layouts
  <2>2. \A s \in Routes \ {r} : groups[s].outputs # {} => groups[s].input # i
    BY <1>2 DEF AvailableInput
  <2> QED
    BY <1>1, <2>1, <2>2 DEF LayoutValid
<1>3. CASE ~AvailableInput(groups, claims, r, i)
  BY <1>1, <1>3 DEF WithSource
<1> QED
  BY <1>1, <1>2, <1>3

\* ADD and REMOVE of an output keep the layout disjoint, and leave the routes alone
\* that hold a claim.
LEMMA AssignKeepsLayout ==
    ASSUME NEW g \in Layouts, LayoutValid(g), NEW r \in Routes,
           NEW n \in Outputs, NEW enabled \in BOOLEAN
    PROVE  /\ LayoutValid(Assign(g, r, n, enabled))
           /\ \A s \in Routes \ {r} : Assign(g, r, n, enabled)[s] = g[s]
           /\ Assign(g, r, n, enabled)[r].outputs \subseteq
                g[r].outputs \union (IF enabled THEN {n} ELSE {})
<1> DEFINE h == Assign(g, r, n, enabled)
<1>1. CASE ~enabled
  <2>1. /\ \A s \in Routes \ {r} : h[s] = g[s]
        /\ h[r].outputs = g[r].outputs \ {n} /\ h[r].input = g[r].input
    BY <1>1 DEF Assign, Layouts
  <2> QED
    BY <1>1, <2>1 DEF LayoutValid
<1>2. CASE enabled /\ (OwnedByOther(g, r, n) \/ SharesSource(g, r))
  BY <1>2 DEF Assign
<1>3. CASE enabled /\ ~OwnedByOther(g, r, n) /\ ~SharesSource(g, r)
  <2>1. /\ \A s \in Routes \ {r} : h[s] = g[s]
        /\ h[r].outputs = g[r].outputs \union {n} /\ h[r].input = g[r].input
    BY <1>3 DEF Assign, Layouts
  <2>2. \A s \in Routes \ {r} : n \notin g[s].outputs
    BY <1>3 DEF OwnedByOther
  <2>3. \A s \in Routes \ {r} : g[s].outputs # {} => g[s].input # g[r].input
    BY <1>3 DEF SharesSource
  <2>4. \A s \in Routes \ {r} : h[s].outputs # {} =>
           h[r].outputs \intersect h[s].outputs = {} /\ h[r].input # h[s].input
    <3> TAKE s \in Routes \ {r}
    <3>1. g[r].outputs \intersect g[s].outputs = {}
      BY DEF LayoutValid
    <3> QED
      BY <2>1, <2>2, <2>3, <3>1
  <2>5. \A s, t \in Routes \ {r} : (s # t /\ h[s].outputs # {} /\ h[t].outputs # {})
           => h[s].outputs \intersect h[t].outputs = {} /\ h[s].input # h[t].input
    BY <2>1 DEF LayoutValid
  <2>6. LayoutValid(h)
    <3> HIDE DEF h
    <3> QED
      BY <2>4, <2>5 DEF LayoutValid
  <2> QED
    BY <1>3, <2>1, <2>6
<1> QED
  BY <1>1, <1>2, <1>3

\* A change of the layout that keeps it valid, keeps the held routes and gives
\* the others no playing output is a change nobody playing notices.
LEMMA EditUnnoticed ==
    ASSUME HeldMatchesLayout, PlaysAsAGroup, LayoutValid(groups)',
           UNCHANGED <<claims, active>>,
           \A r \in Routes : Held(claims, r) => groups'[r] = groups[r],
           \A r \in Routes : ~Held(claims, r) => groups'[r].outputs \intersect active = {}
    PROVE  HeldMatchesLayout' /\ PlaysAsAGroup'
<1>1. \A r \in Routes : Held(claims, r) => Members(r)' = Members(r)
  BY DEF Members
<1>2. \A r \in Routes : ~Held(claims, r) => Members(r)' \intersect active = {}
  BY DEF Members
<1>3. HeldMatchesLayout'
  BY <1>1 DEF HeldMatchesLayout
<1>4. active' \subseteq MembersOf({r \in Routes : Held(claims, r)})'
  <2> SUFFICES ASSUME NEW n \in active
               PROVE  \E r \in Routes : Held(claims, r) /\ n \in Members(r)'
    BY DEF MembersOf
  <2>1. PICK r \in Routes : Held(claims, r) /\ n \in Members(r)
    BY DEF PlaysAsAGroup, MembersOf
  <2> QED
    BY <1>1, <2>1
<1> QED
  BY <1>1, <1>2, <1>3, <1>4 DEF PlaysAsAGroup

\* A route edit keeps the invariant: it changes no route that holds a claim.
LEMMA EditInv == Inv /\ Edit => Inv'
<1> SUFFICES ASSUME Inv, NEW r \in Routes, NEW i \in Inputs,
                    NEW n \in Outputs, NEW assign \in BOOLEAN,
                    EditRoute(r, i, n, assign)
             PROVE  Inv'
  BY DEF Edit
<1> USE DEF Inv
<1> DEFINE g == WithSource(r, i)
           member == n \in g[r].outputs
           adds == assign /\ (member \/ AvailableOutput(g, claims, r, n))
<1>1. /\ ~Held(claims, r)
      /\ groups' = IF adds THEN Assign(g, r, n, ~member) ELSE g
      /\ UNCHANGED <<claims, active, running, last, lanes, port, cal, ref>>
      /\ turn' = "play"
  BY DEF EditRoute, Stage, Editable, gateware
<1>2. /\ g \in Layouts /\ LayoutValid(g)
      /\ \A s \in Routes : g[s].outputs = groups[s].outputs
      /\ \A s \in Routes \ {r} : g[s] = groups[s]
  BY SourceKeepsLayout, LayoutTypes DEF TypeOK, HeldMatchesLayout
<1>3. LayoutValid(groups)' /\ \A s \in Routes \ {r} : groups'[s] = groups[s]
  <2>1. CASE adds
    <3>1. /\ LayoutValid(Assign(g, r, n, ~member))
          /\ \A s \in Routes \ {r} : Assign(g, r, n, ~member)[s] = g[s]
      <4> DEFINE enabled == ~member
      <4>1. enabled \in BOOLEAN
        OBVIOUS
      <4> HIDE DEF g, member, enabled
      <4>2. /\ LayoutValid(Assign(g, r, n, enabled))
            /\ \A s \in Routes \ {r} : Assign(g, r, n, enabled)[s] = g[s]
        BY <1>2, <4>1, AssignKeepsLayout
      <4> QED
        BY <4>2 DEF enabled
    <3> QED
      BY <1>1, <1>2, <2>1, <3>1 DEF LayoutValid
  <2>2. CASE ~adds
    BY <1>1, <1>2, <2>2 DEF LayoutValid
  <2> QED
    BY <2>1, <2>2
<1>4. groups'[r].outputs \intersect active = {}
  <2>1. groups[r].outputs \intersect active = {}
    BY <1>1, UnheldIsSilent DEF Members
  <2>2. CASE adds /\ ~member
    <3>1. groups'[r].outputs \subseteq groups[r].outputs \union {n}
      BY <1>1, <1>2, <2>2, AssignKeepsLayout
    <3>2. n \notin active
      <4>1. \A p \in Owners \ {r} : n \notin claims[p].outputs
        BY <2>2 DEF AvailableOutput, FreeOutputs
      <4>2. ASSUME NEW s \in Routes, Held(claims, s) PROVE n \notin Members(s)
        <5>1. claims[s].outputs = Members(s)
          BY <4>2, HeldRow
        <5>2. s # r /\ s \in Owners
          BY <1>1, <4>2 DEF Owners
        <5> QED
          BY <4>1, <5>1, <5>2
      <4> QED
        BY <4>2 DEF PlaysAsAGroup, MembersOf
    <3> QED
      BY <2>1, <3>1, <3>2
  <2>3. CASE adds /\ member
    <3>1. groups'[r].outputs \subseteq groups[r].outputs
      BY <1>1, <1>2, <2>3, AssignKeepsLayout
    <3> QED
      BY <2>1, <3>1
  <2>4. CASE ~adds
    BY <1>1, <1>2, <2>1, <2>4
  <2> QED
    BY <2>2, <2>3, <2>4
<1>5. HeldMatchesLayout' /\ PlaysAsAGroup'
  <2>1. \A s \in Routes : Held(claims, s) => groups'[s] = groups[s]
    BY <1>1, <1>3
  <2>2. \A s \in Routes : ~Held(claims, s) => groups'[s].outputs \intersect active = {}
    <3> TAKE s \in Routes
    <3> HAVE ~Held(claims, s)
    <3>1. CASE s = r
      BY <1>4, <3>1
    <3>2. CASE s # r
      BY <1>3, <3>2, UnheldIsSilent DEF Members
    <3> QED
      BY <3>1, <3>2
  <2> QED
    BY <1>1, <1>3, <2>1, <2>2, EditUnnoticed
<1>6. JackExclusion' /\ PlayingIsServiced'
  BY <1>1, Untouched
<1>7. DrivenByItsOwner' /\ PortDiscipline' /\ RecallIsAlone'
  BY <1>1, PortUntouched DEF DrivenByItsOwner, RecallIsAlone
<1> QED
  BY <1>5, <1>6, <1>7, EditType DEF Edit

\* START and STOP of route r: stopped, started, or refused by a member that
\* cannot arm.
LEMMA PlayInv == Inv /\ Play => Inv'
<1> SUFFICES ASSUME Inv, NEW r \in Routes,
                    ToggleStop(r) \/ ToggleStart(r) \/ ToggleFailed(r)
             PROVE  Inv'
  BY DEF Play
<1> USE DEF Inv
<1>0. TypeOK'
  BY PlayType DEF Play
<1>1. /\ UNCHANGED <<groups, port, cal, ref>>
      /\ turn' # "loading"
  BY DEF ToggleStop, ToggleStart, ToggleFailed, Startable, Stage
<1>2. RecallIsAlone'
  BY <1>1 DEF RecallIsAlone
<1>3. \A s \in Routes \ {r} : Members(s) \intersect active \in {{}, Members(s)}
  BY DEF PlaysAsAGroup
<1>4. CASE ToggleStop(r)
  <2>1. /\ claims' = Released(claims, {r}) /\ StopGroups({r}, active, lanes)
        /\ running' = (active' # {}) /\ last' = last
    BY <1>4 DEF ToggleStop
  <2>2. PlaysAsAGroup'
    <3>1. \A s \in Routes : claims'[s] = IF s \in {r} THEN NoJacks ELSE claims[s]
      BY <2>1 DEF Released, Owners
    <3>2. active' = active \ MembersOf({r})
      BY <2>1 DEF StopGroups
    <3> QED
      BY <1>1, <1>3, <3>1, <3>2, GroupStop
  <2>3. LanesFollow(lanes', active')
    BY <2>1, StopFollows DEF DrivenByItsOwner
  <2>4. PlayingIsServiced'
    BY <2>1 DEF StopGroups, PlayingIsServiced
  <2>5. JackExclusion' /\ HeldMatchesLayout'
    BY <1>1, <2>1, ReleaseKeepsClaims DEF TypeOK
  <2>6. claims'[Calibration] = claims[Calibration] /\ claims'[Reference] = claims[Reference]
    BY <2>1, ReleaseLeavesOperations
  <2> QED
    BY <1>0, <1>1, <1>2, <2>2, <2>3, <2>4, <2>5, <2>6, PortUntouched DEF DrivenByItsOwner
<1>5. CASE ToggleStart(r)
  <2>1. /\ ~Held(claims, r)
        /\ CanClaim(claims, r, {groups[r].input}, Members(r))
        /\ Claim(r, {groups[r].input}, Members(r))
        /\ active' = active \union Members(r)
        /\ lanes' = [n \in Outputs |-> IF n \in Members(r) THEN LaneOff ELSE lanes[n]]
        /\ running' = TRUE
        /\ last' = IF running THEN last ELSE "none"
    BY <1>5 DEF ToggleStart, Startable, BeginService
  <2>2. r \in Owners /\ r # Calibration /\ r # Reference
    BY JacksAssumption DEF Owners
  <2>3. /\ JackExclusion'
        /\ claims'[r] = [inputs |-> {groups[r].input}, outputs |-> Members(r)]
        /\ \A p \in Owners \ {r} : claims'[p] = claims[p]
    BY <2>1, <2>2, ClaimKeepsExclusion
  <2>4. \A s \in Routes : Members(s)' = Members(s)
    BY <1>1 DEF Members
  <2>5. HeldMatchesLayout'
    <3>1. LayoutValid(groups)'
      BY <1>1 DEF HeldMatchesLayout, LayoutValid
    <3>2. ASSUME NEW s \in Routes, Held(claims', s)
          PROVE  claims'[s] = [inputs |-> {groups[s].input}, outputs |-> Members(s)]
      <4>1. CASE s = r
        BY <2>3, <4>1
      <4>2. CASE s # r
        BY <2>3, <3>2, <4>2 DEF HeldMatchesLayout, Held, Owners
      <4> QED
        BY <4>1, <4>2
    <3> QED
      BY <1>1, <2>4, <3>1, <3>2 DEF HeldMatchesLayout
  <2>6. PlaysAsAGroup'
    <3>1. Held(claims', r)
      BY <2>1, <2>3 DEF Held, NoJacks, CanClaim, WellFormed, Singleton
    <3>2. \A s \in Routes : Held(claims, s) => Held(claims', s)
      BY <2>3, <3>1 DEF Held, Owners
    <3>3. active' \subseteq MembersOf({s \in Routes : Held(claims, s)})'
      <4> SUFFICES ASSUME NEW n \in active'
                   PROVE  \E s \in Routes : Held(claims', s) /\ n \in Members(s)
        BY <2>4 DEF MembersOf
      <4>1. CASE n \in Members(r)
        BY <3>1, <4>1
      <4>2. CASE n \in active
        BY <3>2, <4>2 DEF PlaysAsAGroup, MembersOf
      <4> QED
        BY <2>1, <4>1, <4>2
    <3>4. \A s \in Routes : Members(s) \intersect active' \in {{}, Members(s)}
      <4> TAKE s \in Routes
      <4>1. CASE s = r
        BY <2>1, <4>1
      <4>2. CASE s # r
        <5>1. Members(s) \intersect Members(r) = {}
          BY <4>2, RoutesAreDisjoint
        <5> QED
          BY <1>3, <2>1, <4>2, <5>1
      <4> QED
        BY <4>1, <4>2
    <3> QED
      BY <2>4, <3>3, <3>4 DEF PlaysAsAGroup
  <2>7. LanesFollow(lanes', active') /\ PlayingIsServiced'
    BY <2>1 DEF LanesFollow, LaneOff, DrivenByItsOwner, PlayingIsServiced
  <2>8. claims'[Calibration] = claims[Calibration] /\ claims'[Reference] = claims[Reference]
    BY <2>2, <2>3 DEF Owners
  <2> QED
    BY <1>0, <1>1, <1>2, <2>3, <2>5, <2>6, <2>7, <2>8, PortUntouched DEF DrivenByItsOwner
<1>6. CASE ToggleFailed(r)
  <2>1. /\ ~Held(claims, r)
        /\ StopGroups({r}, active, lanes)
        /\ running' = (active' # {})
        /\ last' = IF running THEN last ELSE "none"
        /\ claims' = claims
    BY <1>6 DEF ToggleFailed, Startable, BeginService
  <2>2. PlaysAsAGroup'
    <3>1. \A s \in Routes : claims'[s] = IF s \in {r} THEN NoJacks ELSE claims[s]
      BY <2>1 DEF Held
    <3>2. active' = active \ MembersOf({r})
      BY <2>1 DEF StopGroups
    <3> QED
      BY <1>1, <1>3, <3>1, <3>2, GroupStop
  <2>3. LanesFollow(lanes', active')
    BY <2>1, StopFollows DEF DrivenByItsOwner
  <2>4. PlayingIsServiced'
    BY <2>1 DEF StopGroups, PlayingIsServiced
  <2> QED
    BY <1>0, <1>1, <1>2, <2>1, <2>2, <2>3, <2>4, Untouched, PortUntouched DEF DrivenByItsOwner
<1> QED
  BY <1>4, <1>5, <1>6

\* A recall installs a layout only while no route holds a claim.
LEMMA RecallInv == Inv /\ Recall => Inv'
<1> SUFFICES ASSUME Inv, Recall PROVE Inv'
  OBVIOUS
<1> USE DEF Inv
<1>0. TypeOK'
  BY ForegroundType DEF Foreground
<1>1. UNCHANGED <<claims, active, running, phase, last, lanes, port, cal, ref>>
  BY DEF Recall, RecallBegin, RecallFinish, software, gateware
<1>2. JackExclusion' /\ PlayingIsServiced' /\ DrivenByItsOwner' /\ PortDiscipline'
  BY <1>1, Untouched, PortUntouched DEF DrivenByItsOwner
<1>3. CASE RecallBegin
  <2>1. HeldMatchesLayout' /\ PlaysAsAGroup'
    BY <1>1, <1>3, Untouched DEF RecallBegin, software
  <2>2. RecallIsAlone'
    BY <1>1, <1>3 DEF RecallBegin, RecallIsAlone
  <2> QED
    BY <1>0, <1>2, <2>1, <2>2
<1>4. ASSUME NEW g \in Layouts, RecallFinish(g) PROVE Inv'
  <2>1. \A r \in Routes : ~Held(claims, r)
    BY <1>4 DEF RecallFinish, Stage, RecallIsAlone
  <2>2. active = {}
    BY <2>1 DEF PlaysAsAGroup, MembersOf
  <2>3. LayoutValid(groups)' /\ turn' # "loading"
    BY <1>4 DEF RecallFinish, Stage, LayoutValid
  <2>4. HeldMatchesLayout' /\ PlaysAsAGroup'
    BY <1>1, <2>1, <2>2, <2>3, EditUnnoticed
  <2>5. RecallIsAlone'
    BY <2>3 DEF RecallIsAlone
  <2> QED
    BY <1>0, <1>2, <2>4, <2>5
<1> QED
  BY <1>3, <1>4 DEF Recall

\* What the routes say of themselves survives a step that leaves them alone,
\* when at most the row of calibration or the reference changes.
LEMMA RoutesUntouched ==
    ASSUME HeldMatchesLayout, PlaysAsAGroup, PlayingIsServiced,
           UNCHANGED <<groups, active, running, last>>,
           \A r \in Routes : claims'[r] = claims[r]
    PROVE  HeldMatchesLayout' /\ PlaysAsAGroup' /\ PlayingIsServiced'
<1>1. \A r \in Routes : (Held(claims', r) <=> Held(claims, r)) /\ Members(r)' = Members(r)
  BY DEF Held, Members
<1>2. HeldMatchesLayout'
  BY <1>1 DEF HeldMatchesLayout, LayoutValid
<1>3. PlaysAsAGroup' /\ PlayingIsServiced'
  BY <1>1 DEF PlaysAsAGroup, MembersOf, PlayingIsServiced
<1> QED
  BY <1>2, <1>3

\* Switching a lane off on behalf of the port leaves no lane driven by nobody.
LEMMA PortWriteFollows ==
    ASSUME NEW n, LanesFollow(lanes, active), TypeOK, PortWrite(n), active' = active
    PROVE  LanesFollow(lanes', active')
BY DEF LanesFollow, PortWrite, LaneOff, TypeOK

\* One poll of the reference.
LEMMA ReferenceInv == Inv /\ ReferencePoll => Inv'
<1> SUFFICES ASSUME Inv, ReferencePoll PROVE Inv'
  OBVIOUS
<1> USE DEF Inv
<1>0. TypeOK'
  BY ReferenceType
<1>1. UNCHANGED <<groups, active, running, last, cal>> /\ turn' # "loading"
  BY DEF ReferencePoll, ReferenceDrain, ReferenceStop, ReferenceStart,
         ReferenceRetarget, ReferenceAcked, ReferenceIdle, AfterPoll,
         software, gateware
<1>2. RecallIsAlone'
  BY <1>1 DEF RecallIsAlone
<1>3. \A r \in Routes : r # Reference /\ r # Calibration
  BY JacksAssumption
<1>4. LanesFollow(lanes, active) /\ PortFollows /\ ~(cal.on /\ ref.phase # 0)
  BY DEF DrivenByItsOwner
<1>a. ASSUME UNCHANGED claims
      PROVE  JackExclusion' /\ HeldMatchesLayout' /\ PlaysAsAGroup' /\ PlayingIsServiced'
  BY <1>1, <1>a, RoutesUntouched, Untouched
<1>5. CASE ReferenceDrain
  <2>1. CASE Quiet(port)
    <3>1. /\ claims' = Released(claims, {Reference})
          /\ ref' = [ref EXCEPT !.phase = 0] /\ ref.phase = 3
          /\ UNCHANGED <<port, lanes>>
      BY <1>5, <2>1 DEF ReferenceDrain
    <3>2. claims'[Reference] = NoJacks /\ \A o \in Owners \ {Reference} : claims'[o] = claims[o]
      BY <3>1 DEF Released, Owners
    <3>3. JackExclusion' /\ HeldMatchesLayout' /\ PlaysAsAGroup' /\ PlayingIsServiced'
      BY <1>1, <1>3, <3>1, <3>2, ReleaseKeepsClaims, RoutesUntouched DEF TypeOK, Owners
    <3>4. ref'.phase = 0
      BY <3>1 DEF TypeOK
    <3>5. ~cal.on /\ port = PortOff(port) /\ Quiet(port) /\ ~port.staged
      BY <1>4, <3>1, DisabledIsSilent DEF PortDiscipline, TypeOK
    <3>6. PortDiscipline'
      BY <1>1, <3>1, <3>2, <3>4, <3>5 DEF PortDiscipline
    <3>7. PortFollows' /\ LanesFollow(lanes', active')
      BY <1>1, <1>4, <3>1, <3>5 DEF PortFollows
    <3> QED
      BY <1>0, <1>1, <1>2, <3>3, <3>4, <3>6, <3>7 DEF DrivenByItsOwner
  <2>2. CASE ~Quiet(port)
    <3>1. port' = PortOff(port) /\ UNCHANGED <<ref, claims, lanes>>
      BY <1>5, <2>2 DEF ReferenceDrain
    <3>2. PortFollows' /\ PortDiscipline'
      BY <1>1, <3>1 DEF PortFollows, Quiet, PortDiscipline, PortOff, TypeOK, Port
    <3> QED
      BY <1>0, <1>1, <1>2, <1>4, <1>a, <3>1, <3>2 DEF DrivenByItsOwner
  <2> QED
    BY <2>1, <2>2
<1>6. CASE ReferenceStop
  <2>1. /\ port' = PortOff(port) /\ UNCHANGED <<claims, lanes>>
        /\ ref' = [ref EXCEPT !.phase = 3] /\ ref.phase # 0
    BY <1>6 DEF ReferenceStop, software
  <2>2. ref'.phase = 3 /\ ref'.output = ref.output
    BY <2>1 DEF TypeOK
  <2>3. port' = PortOff(port') /\ Quiet(port') /\ ~port'.staged
    BY <2>1, DisabledIsSilent DEF TypeOK
  <2>4. PortFollows' /\ PortDiscipline'
    BY <1>1, <1>4, <2>1, <2>2, <2>3 DEF PortFollows, PortDiscipline
  <2> QED
    BY <1>0, <1>1, <1>2, <1>4, <1>a, <2>1, <2>4 DEF DrivenByItsOwner
<1>7. ASSUME NEW n \in Outputs, ReferenceStart(n) PROVE Inv'
  <2>1. /\ ref.phase = 0 /\ ~cal.on /\ ref' = [phase |-> 1, output |-> n]
        /\ CanClaim(claims, Reference, {}, {n}) /\ Claim(Reference, {}, {n})
        /\ PortWrite(n)
    BY <1>7 DEF ReferenceStart
  <2>2. /\ JackExclusion' /\ claims'[Reference] = [inputs |-> {}, outputs |-> {n}]
        /\ \A o \in Owners \ {Reference} : claims'[o] = claims[o]
    BY <2>1, ClaimKeepsExclusion DEF Owners
  <2>3. HeldMatchesLayout' /\ PlaysAsAGroup' /\ PlayingIsServiced'
    BY <1>1, <1>3, <2>2, RoutesUntouched DEF Owners
  <2>4. port' = PortOn(port, n) /\ port = PortOff(port)
    BY <2>1 DEF PortWrite, PortDiscipline
  <2>5. port'.next = n /\ Quiet(port')
    BY <2>4 DEF PortOn, PortOff, TypeOK, Port, Quiet
  <2>6. PortFollows' /\ PortDiscipline'
    BY <1>1, <2>1, <2>2, <2>5 DEF PortFollows, PortUser, PortDiscipline
  <2>7. LanesFollow(lanes', active')
    BY <1>1, <1>4, <2>1, PortWriteFollows
  <2> QED
    BY <1>0, <1>1, <1>2, <2>1, <2>2, <2>3, <2>6, <2>7 DEF DrivenByItsOwner
<1>8. CASE ReferenceRetarget
  <2>1. /\ ref.phase \in {1, 2} /\ ref' = [ref EXCEPT !.phase = 1]
        /\ ~cal.on /\ PortWrite(ref.output) /\ claims' = claims
    BY <1>8 DEF ReferenceRetarget, software
  <2>2. ref'.phase = 1 /\ ref'.output = ref.output
    BY <2>1 DEF TypeOK
  <2>3. claims[Reference].outputs = {ref.output}
    BY <2>1 DEF PortDiscipline
  <2>4. PortFollows' /\ PortDiscipline'
    BY <1>1, <1>4, <2>1, <2>2, <2>3
       DEF PortWrite, PortOn, PortFollows, Quiet, PortUser, PortDiscipline, TypeOK, Port
  <2>5. LanesFollow(lanes', active')
    BY <1>1, <1>4, <2>1, PortWriteFollows
  <2> QED
    BY <1>0, <1>1, <1>2, <1>a, <2>1, <2>4, <2>5 DEF DrivenByItsOwner
<1>9. CASE ReferenceAcked
  <2>1. /\ ref.phase = 1 /\ ref' = [ref EXCEPT !.phase = 2]
        /\ UNCHANGED <<claims, lanes, port>>
    BY <1>9 DEF ReferenceAcked, software, gateware
  <2>2. ref'.phase = 2 /\ ref'.output = ref.output
    BY <2>1 DEF TypeOK
  <2>3. PortFollows' /\ PortDiscipline'
    BY <1>1, <1>4, <2>1, <2>2 DEF PortFollows, Quiet, PortUser, PortDiscipline
  <2> QED
    BY <1>0, <1>1, <1>2, <1>4, <1>a, <2>1, <2>3 DEF DrivenByItsOwner
<1>10. CASE ReferenceIdle
  <2>1. UNCHANGED <<claims, lanes, port, ref>>
    BY <1>10 DEF ReferenceIdle, software, gateware
  <2> QED
    BY <1>0, <1>1, <1>2, <1>4, <1>a, <2>1, PortUntouched DEF DrivenByItsOwner
<1> QED
  BY <1>5, <1>6, <1>7, <1>8, <1>9, <1>10 DEF ReferencePoll

\* One tick of the operation slot.
LEMMA CalibrationInv == Inv /\ CalibrationPoll => Inv'
<1> SUFFICES ASSUME Inv, CalibrationPoll PROVE Inv'
  OBVIOUS
<1> USE DEF Inv
<1>0. TypeOK'
  BY CalibrationType
<1>1. UNCHANGED <<groups, active, running, last, ref>> /\ turn' # "loading"
  BY DEF CalibrationPoll, CalibrationStart, CalibrationTarget,
         CalibrationDisable, Stage, software
<1>2. RecallIsAlone'
  BY <1>1 DEF RecallIsAlone
<1>3. /\ \A r \in Routes : r # Calibration
      /\ Reference # Calibration
  BY JacksAssumption
<1>4. LanesFollow(lanes, active) /\ PortFollows /\ ~(cal.on /\ ref.phase # 0)
  BY DEF DrivenByItsOwner
<1>a. ASSUME UNCHANGED claims
      PROVE  JackExclusion' /\ HeldMatchesLayout' /\ PlaysAsAGroup' /\ PlayingIsServiced'
  BY <1>1, <1>a, RoutesUntouched, Untouched
<1>5. ASSUME NEW i \in Inputs, NEW n \in Outputs, NEW accepted \in BOOLEAN,
             CalibrationStart(i, n, accepted)
      PROVE  Inv'
  <2>1. /\ ref.phase = 0 /\ ~cal.on /\ lanes' = lanes
        /\ CanClaim(claims, Calibration, {i}, {n}) /\ Claim(Calibration, {i}, {n})
        /\ cal' = IF accepted THEN [on |-> TRUE, input |-> i, output |-> n] ELSE cal
        /\ port' = IF accepted THEN PortOff(port) ELSE port
    BY <1>5 DEF CalibrationStart
  <2>2. /\ JackExclusion' /\ claims'[Calibration] = [inputs |-> {i}, outputs |-> {n}]
        /\ \A o \in Owners \ {Calibration} : claims'[o] = claims[o]
    BY <2>1, ClaimKeepsExclusion DEF Owners
  <2>3. HeldMatchesLayout' /\ PlaysAsAGroup' /\ PlayingIsServiced'
    BY <1>1, <1>3, <2>2, RoutesUntouched DEF Owners
  <2>4. claims'[Reference] = NoJacks
    BY <1>3, <2>1, <2>2 DEF PortDiscipline, Owners
  <2>5. Quiet(port') /\ ~port'.staged /\ port' = PortOff(port')
    <3>1. port' = PortOff(port)
      BY <2>1 DEF PortDiscipline
    <3> QED
      BY <3>1, DisabledIsSilent DEF TypeOK
  <2>6. PortFollows' /\ PortDiscipline'
    BY <1>1, <2>1, <2>2, <2>4, <2>5 DEF PortFollows, PortDiscipline
  <2> QED
    BY <1>0, <1>1, <1>2, <1>4, <2>1, <2>2, <2>3, <2>6 DEF DrivenByItsOwner
<1>6. CASE CalibrationTarget
  <2>1. cal.on /\ PortWrite(cal.output) /\ UNCHANGED <<claims, cal>>
    BY <1>6 DEF CalibrationTarget, software
  <2>2. PortFollows' /\ PortDiscipline'
    BY <1>1, <1>4, <2>1
       DEF PortWrite, PortOn, PortFollows, Quiet, PortUser, PortDiscipline, TypeOK, Port
  <2>3. LanesFollow(lanes', active')
    BY <1>1, <1>4, <2>1, PortWriteFollows
  <2> QED
    BY <1>0, <1>1, <1>2, <1>4, <1>a, <2>1, <2>2, <2>3 DEF DrivenByItsOwner
<1>7. ASSUME NEW ends \in BOOLEAN, CalibrationDisable(ends) PROVE Inv'
  <2>1. /\ cal.on /\ cal' = [cal EXCEPT !.on = ~ends]
        /\ port' = PortOff(port) /\ UNCHANGED <<claims, lanes>>
    BY <1>7 DEF CalibrationDisable, software
  <2>2. cal'.input = cal.input /\ cal'.output = cal.output
    BY <2>1 DEF TypeOK
  <2>3. PortFollows' /\ PortDiscipline'
    BY <1>1, <1>4, <2>1, <2>2 DEF PortFollows, Quiet, PortDiscipline, PortOff, TypeOK, Port
  <2> QED
    BY <1>0, <1>1, <1>2, <1>4, <1>a, <2>1, <2>3 DEF DrivenByItsOwner
<1> QED
  BY <1>5, <1>6, <1>7 DEF CalibrationPoll

\* Every step keeps the invariant.
LEMMA NextInv == Inv /\ [Next]_vars => Inv'
<1> SUFFICES ASSUME Inv, [Next]_vars PROVE Inv'
  OBVIOUS
<1>1. CASE UNCHANGED vars
  <2>1. /\ JackExclusion' /\ HeldMatchesLayout' /\ PlaysAsAGroup' /\ PlayingIsServiced'
    BY <1>1, Untouched DEF Inv, vars
  <2>2. TypeOK' /\ RecallIsAlone'
    BY <1>1 DEF Inv, vars, TypeOK, RecallIsAlone
  <2>3. DrivenByItsOwner' /\ PortDiscipline'
    BY <1>1, PortUntouched DEF Inv, vars, DrivenByItsOwner
  <2> QED
    BY <2>1, <2>2, <2>3 DEF Inv
<1>2. CASE Pass
  <2>1. UNCHANGED <<claims, groups, active, running, last, lanes, port, cal, ref>>
        /\ turn' # "loading"
    BY <1>2 DEF Pass, Stage, software, gateware
  <2>2. /\ JackExclusion' /\ HeldMatchesLayout' /\ PlaysAsAGroup' /\ PlayingIsServiced'
    BY <2>1, Untouched DEF Inv
  <2>3. TypeOK' /\ RecallIsAlone'
    BY <1>2, <2>1, ForegroundType DEF Inv, RecallIsAlone, Foreground
  <2>4. DrivenByItsOwner' /\ PortDiscipline'
    BY <2>1, PortUntouched DEF Inv, DrivenByItsOwner
  <2> QED
    BY <2>2, <2>3, <2>4 DEF Inv
<1>3. CASE Foreground /\ ~Pass
  BY <1>3, ReferenceInv, ReconcileInv, EditInv, PlayInv, RecallInv, CalibrationInv DEF Foreground
<1> QED
  BY <1>1, <1>2, <1>3, IsrInv, GatewareInv DEF Next

-----------------------------------------------------------------------------
(* The theorems.                                                           *)

\* Every reachable state satisfies the invariant.
LEMMA Invariance == Spec => []Inv
BY InitInv, NextInv, PTL DEF Spec

\* No jack ever has two owners, whatever the two threads and the DAC do.
THEOREM Exclusion == Spec => []JackExclusion
<1>1. Inv => JackExclusion
  BY DEF Inv
<1> QED
  BY <1>1, Invariance, PTL

\* A running route owns what its layout names.
THEOREM LayoutIsLocked == Spec => []HeldMatchesLayout
<1>1. Inv => HeldMatchesLayout
  BY DEF Inv
<1> QED
  BY <1>1, Invariance, PTL

\* A route plays as a whole or not at all.
THEOREM Groups == Spec => []PlaysAsAGroup
<1>1. Inv => PlaysAsAGroup
  BY DEF Inv
<1> QED
  BY <1>1, Invariance, PTL

\* What plays is serviced and no start takes idle time for a gap.
THEOREM Serviced == Spec => []PlayingIsServiced
<1>1. Inv => PlayingIsServiced
  BY DEF Inv
<1> QED
  BY <1>1, Invariance, PTL

\* The hardware drives an output only for its present owner.
THEOREM Driven == Spec => []DrivenByItsOwner
<1>1. Inv => DrivenByItsOwner
  BY DEF Inv
<1> QED
  BY <1>1, Invariance, PTL

-----------------------------------------------------------------------------
(***************************************************************************)
(* The route service implements the allocator, for every set of jacks and  *)
(* routes: owners take jacks that nobody holds, hardware drives only held  *)
(* jacks, and what an owner gives back is silent in that very step.        *)
(*                                                                         *)
(* Every step is of one of three kinds (StepKinds): some owners leave and  *)
(* the outputs that fall silent include theirs; one owner that held nothing*)
(* enters and nothing is driven; or the claims stay and a DAC sample drives*)
(* more.  Inv supplies what the kinds rest on.                             *)
(***************************************************************************)

\* A guard drives output n, or will at the next DAC sample.
Driving(n) ==
    \/ lanes[n].enabled \/ lanes[n].staged
    \/ port.enabled /\ port.at = n
    \/ port.staged /\ port.next = n

DrivenAreClaimed ==
    \A n \in Outputs : Driving(n) => \E o \in Owners : n \in claims[o].outputs

-----------------------------------------------------------------------------
(* What the invariant says of driven outputs.                              *)

\* The port serves one output at a time.
LEMMA OnePortUser ==
    ASSUME Inv
    PROVE  \A m, n \in PortUser : m = n
<1>1. CASE cal.on
  <2>1. claims[Calibration].outputs = {cal.output}
    BY <1>1 DEF Inv, PortDiscipline
  <2> QED
    BY <1>1, <2>1 DEF PortUser
<1>2. CASE ~cal.on
  <2>1. claims[Reference].outputs \in {{}, {ref.output}}
    BY DEF Inv, PortDiscipline, NoJacks
  <2> QED
    BY <1>2, <2>1 DEF PortUser
<1> QED
  BY <1>1, <1>2

\* A playing lane's output belongs to a route.
LEMMA PlayingIsClaimed ==
    ASSUME Inv, NEW n \in active
    PROVE  \E r \in Routes : n \in claims[r].outputs
<1>1. PICK r \in Routes : Held(claims, r) /\ n \in Members(r)
  BY DEF Inv, PlaysAsAGroup, MembersOf
<1> QED
  BY <1>1, HeldRow DEF Inv

\* No output is driven that nobody holds.
LEMMA DrivenIsClaimed == Inv => DrivenAreClaimed
<1> SUFFICES ASSUME Inv, NEW n \in Outputs, Driving(n)
             PROVE  \E o \in Owners : n \in claims[o].outputs
  BY DEF DrivenAreClaimed
<1>1. CASE lanes[n].enabled \/ lanes[n].staged
  <2>1. n \in active
    BY <1>1 DEF Inv, DrivenByItsOwner, LanesFollow
  <2> QED
    BY <2>1, PlayingIsClaimed DEF Owners
<1>2. CASE (port.enabled /\ port.at = n) \/ (port.staged /\ port.next = n)
  <2>1. n \in PortUser
    BY <1>2 DEF Inv, DrivenByItsOwner, PortFollows, Quiet
  <2> QED
    BY <2>1 DEF PortUser, Owners
<1> QED
  BY <1>1, <1>2 DEF Driving

\* The port never has the output of a playing lane.
LEMMA PortAvoidsLanes ==
    ASSUME Inv, NEW n \in active
    PROVE  n \notin PortUser
<1>1. PICK r \in Routes : n \in claims[r].outputs
  BY PlayingIsClaimed
<1>2. /\ ~Overlaps(claims[r], claims[Calibration].inputs, claims[Calibration].outputs)
      /\ ~Overlaps(claims[r], claims[Reference].inputs, claims[Reference].outputs)
  BY JacksAssumption DEF Inv, JackExclusion, Owners
<1> QED
  BY <1>1, <1>2 DEF Overlaps, PortUser

\* An output that nobody plays carries no lane voltage.
LEMMA UnplayedLaneIsOff ==
    ASSUME Inv, NEW n \in Outputs, n \notin active
    PROVE  ~lanes[n].enabled /\ ~lanes[n].staged
BY DEF Inv, DrivenByItsOwner, LanesFollow

-----------------------------------------------------------------------------
(* The three kinds of step.                                                *)

\* Owners leave, or none do, and nothing new is driven.
Leaves == \E os \in SUBSET Owners : claims' = Released(claims, os) /\ Live' \subseteq Live

\* One owner that held nothing enters.
Enters ==
    \E o \in Owners, ins \in SUBSET Inputs, outs \in SUBSET Outputs :
        /\ ~Held(claims, o) /\ CanClaim(claims, o, ins, outs) /\ Claim(o, ins, outs)
        /\ UNCHANGED Live

\* The DAC drives more outputs for the same owners.
Drives == UNCHANGED claims /\ Live \subseteq Live'

\* Keeping every claim is releasing none.
LEMMA KeepsIsLeaves ==
    ASSUME TypeOK, UNCHANGED claims, Live' \subseteq Live
    PROVE  Leaves
<1>1. claims' = Released(claims, {})
  BY DEF TypeOK, Released
<1> QED
  BY <1>1 DEF Leaves

\* Lanes and the port that are at most switched off drive nothing new.
LEMMA SilencingShrinks ==
    ASSUME \A n \in Outputs : lanes'[n].enabled => lanes[n].enabled,
           port'.enabled => port.enabled /\ port'.at = port.at
    PROVE  Live' \subseteq Live
BY DEF Live

\* stop_group silences lanes and releases routes.
LEMMA StoppingShrinks ==
    ASSUME NEW rs, NEW playing, NEW hw,
           StopGroups(rs, playing, hw), port' = port,
           \A n \in Outputs : hw[n].enabled => lanes[n].enabled
    PROVE  Live' \subseteq Live
<1>1. \A n \in Outputs : lanes'[n].enabled => lanes[n].enabled
  BY DEF StopGroups, LaneOff
<1> QED
  BY <1>1, SilencingShrinks

\* stop silences every lane.
LEMMA StopAllShrinks ==
    ASSUME StopAll, port' = port
    PROVE  Live' \subseteq Live
<1>1. \A n \in Outputs : lanes'[n].enabled => lanes[n].enabled
  BY DEF StopAll, LaneOff
<1> QED
  BY <1>1, SilencingShrinks

\* The interrupt only ever stages commands, stops lanes and releases routes.
LEMMA IsrLeaves == Inv /\ Isr => Leaves
<1> SUFFICES ASSUME Inv, Isr PROVE Leaves
  OBVIOUS
<1>0. TypeOK
  BY DEF Inv
<1>1. CASE IsrGap \/ IsrIdleOverrun
  BY <1>0, <1>1, StopAllShrinks, KeepsIsLeaves DEF IsrGap, IsrIdleOverrun
<1>2. CASE IsrIdle
  BY <1>0, <1>2, SilencingShrinks, KeepsIsLeaves DEF IsrIdle, gateware
<1>3. \A playing : Broken(playing) \in SUBSET Owners
  BY DEF Broken, Owners
<1>4. ASSUME NEW failed \in SUBSET (Batch \intersect active),
             NEW sent \in SUBSET ((Batch \intersect active) \ failed),
             IsrService(failed, sent)
      PROVE  Leaves
  <2>1. \A n \in Outputs : Ticked(failed, sent)[n].enabled => lanes[n].enabled
    BY <1>0 DEF Ticked, LaneOn, LaneOff, TypeOK, Lane
  <2>2. Live' \subseteq Live
    BY <1>4, <2>1, StoppingShrinks DEF IsrService
  <2> QED
    BY <1>3, <1>4, <2>2 DEF IsrService, Leaves
<1>5. ASSUME NEW failed \in SUBSET (Batch \intersect active),
             NEW sent \in SUBSET ((Batch \intersect active) \ failed),
             NEW late \in BOOLEAN, IsrOverrun(failed, sent, late)
      PROVE  Leaves
  BY <1>3, <1>5, StopAllShrinks DEF IsrOverrun, Leaves
<1> QED
  BY <1>1, <1>2, <1>4, <1>5 DEF Isr

\* Reconciliation and STOP stop lanes and release owners; START enters.
LEMMA RouteKinds == Inv /\ (Reconcile \/ Play) => Leaves \/ Enters
<1> SUFFICES ASSUME Inv, Reconcile \/ Play PROVE Leaves \/ Enters
  OBVIOUS
<1>0. TypeOK
  BY DEF Inv
<1>1. CASE Reconcile
  <2>1. Broken(active) \union Ended \in SUBSET Owners
    BY DEF Broken, Ended, Owners
  <2>2. Live' \subseteq Live
    BY <1>1, StoppingShrinks DEF Reconcile
  <2>3. claims' = Released(claims, Broken(active) \union Ended)
    BY <1>1 DEF Reconcile
  <2> QED
    BY <2>1, <2>2, <2>3 DEF Leaves
<1>2. ASSUME NEW r \in Routes, ToggleStop(r) PROVE Leaves
  <2>1. {r} \in SUBSET Owners
    BY DEF Owners
  <2>2. Live' \subseteq Live
    BY <1>2, StoppingShrinks DEF ToggleStop
  <2> QED
    BY <1>2, <2>1, <2>2 DEF ToggleStop, Leaves
<1>3. ASSUME NEW r \in Routes, ToggleFailed(r) PROVE Leaves
  BY <1>0, <1>3, StoppingShrinks, KeepsIsLeaves DEF ToggleFailed
<1>4. ASSUME NEW r \in Routes, ToggleStart(r) PROVE Enters
  <2>1. /\ ~Held(claims, r) /\ port' = port
        /\ CanClaim(claims, r, {groups[r].input}, Members(r))
        /\ Claim(r, {groups[r].input}, Members(r))
        /\ lanes' = [n \in Outputs |-> IF n \in Members(r) THEN LaneOff ELSE lanes[n]]
    BY <1>4 DEF ToggleStart, Startable
  <2>2. /\ r \in Owners /\ {groups[r].input} \in SUBSET Inputs
        /\ Members(r) \in SUBSET Outputs
    BY <1>0 DEF Owners, TypeOK, Layouts, Members
  <2>3. \A n \in Outputs : lanes'[n].enabled <=> lanes[n].enabled
    <3>1. \A n \in Members(r) : ~lanes[n].enabled
      BY <2>1, <2>2, UnheldIsSilent, UnplayedLaneIsOff DEF Inv
    <3> QED
      BY <2>1, <3>1 DEF LaneOff
  <2>4. UNCHANGED Live
    BY <2>1, <2>3 DEF Live
  <2> QED
    BY <2>1, <2>2, <2>4 DEF Enters
<1> QED
  BY <1>1, <1>2, <1>3, <1>4 DEF Play

\* The reference enters with a staged command only; everything else it does
\* silences, or stages a command for the output it has.
LEMMA ReferenceKinds == Inv /\ ReferencePoll => Leaves \/ Enters
<1> SUFFICES ASSUME Inv, ReferencePoll PROVE Leaves \/ Enters
  OBVIOUS
<1>0. TypeOK
  BY DEF Inv
<1>a. port.enabled \in BOOLEAN /\ \A p \in Port : PortOff(p).enabled = FALSE
  BY <1>0 DEF TypeOK, Port, PortOff
<1>1. CASE ReferenceDrain
  <2>1. CASE Quiet(port)
    <3>1. claims' = Released(claims, {Reference}) /\ UNCHANGED <<port, lanes>>
      BY <1>1, <2>1 DEF ReferenceDrain
    <3>2. {Reference} \in SUBSET Owners
      BY DEF Owners
    <3> QED
      BY <3>1, <3>2, SilencingShrinks DEF Leaves
  <2>2. CASE ~Quiet(port)
    <3>1. port' = PortOff(port) /\ UNCHANGED <<claims, lanes>>
      BY <1>1, <2>2 DEF ReferenceDrain
    <3>2. ~port'.enabled
      BY <1>0, <1>a, <3>1 DEF TypeOK
    <3> QED
      BY <1>0, <3>1, <3>2, SilencingShrinks, KeepsIsLeaves
  <2> QED
    BY <2>1, <2>2
<1>2. CASE ReferenceStop
  <2>1. port' = PortOff(port) /\ UNCHANGED <<claims, lanes>>
    BY <1>2 DEF ReferenceStop, software
  <2>2. ~port'.enabled
    BY <1>0, <1>a, <2>1 DEF TypeOK
  <2> QED
    BY <1>0, <2>1, <2>2, SilencingShrinks, KeepsIsLeaves
<1>3. ASSUME NEW n \in Outputs, PortWrite(n)
      PROVE  /\ port'.enabled = port.enabled /\ port'.at = port.at
             /\ \A m \in Outputs \ {n} : lanes'[m] = lanes[m]
             /\ lanes'[n] = LaneOff
  BY <1>0, <1>3 DEF PortWrite, PortOn, TypeOK, Port
<1>4. ASSUME NEW n \in Outputs, ReferenceStart(n) PROVE Enters
  <2>1. /\ ref.phase = 0 /\ PortWrite(n) /\ n \in FreeOutputs(claims, Reference)
        /\ CanClaim(claims, Reference, {}, {n}) /\ Claim(Reference, {}, {n})
    BY <1>4 DEF ReferenceStart
  <2>2. ~Held(claims, Reference)
    BY <2>1 DEF Inv, PortDiscipline, Held
  <2>3. n \notin active
    <3>1. \A r \in Routes : n \notin claims[r].outputs
      BY <2>1, JacksAssumption DEF FreeOutputs, Owners
    <3> QED
      BY <3>1, PlayingIsClaimed
  <2>4. UNCHANGED Live
    <3>1. ~lanes[n].enabled
      BY <2>3, UnplayedLaneIsOff
    <3>2. \A m \in Outputs : lanes'[m].enabled <=> lanes[m].enabled
      BY <1>3, <2>1, <3>1 DEF LaneOff
    <3> QED
      BY <1>3, <2>1, <3>2 DEF Live
  <2>5. Reference \in Owners /\ {} \in SUBSET Inputs /\ {n} \in SUBSET Outputs
    BY DEF Owners
  <2> QED
    BY <2>1, <2>2, <2>4, <2>5 DEF Enters
<1>5. CASE ReferenceRetarget
  <2>1. PortWrite(ref.output) /\ ref.output \in Outputs /\ UNCHANGED claims
    BY <1>0, <1>5 DEF ReferenceRetarget, software, TypeOK
  <2>2. \A m \in Outputs : lanes'[m].enabled => lanes[m].enabled
    BY <1>3, <2>1 DEF LaneOff
  <2> QED
    BY <1>0, <1>3, <2>1, <2>2, SilencingShrinks, KeepsIsLeaves
<1>6. CASE ReferenceAcked \/ ReferenceIdle
  BY <1>0, <1>6, SilencingShrinks, KeepsIsLeaves
     DEF ReferenceAcked, ReferenceIdle, software, gateware
<1> QED
  BY <1>1, <1>2, <1>4, <1>5, <1>6 DEF ReferencePoll

\* So does calibration, which enters with the port already silent.
LEMMA CalibrationKinds == Inv /\ CalibrationPoll => Leaves \/ Enters
<1> SUFFICES ASSUME Inv, CalibrationPoll PROVE Leaves \/ Enters
  OBVIOUS
<1>0. TypeOK
  BY DEF Inv
<1>1. ASSUME NEW i \in Inputs, NEW n \in Outputs, NEW accepted \in BOOLEAN,
             CalibrationStart(i, n, accepted)
      PROVE  Leaves \/ Enters
  <2>1. /\ ref.phase = 0 /\ ~cal.on /\ lanes' = lanes
        /\ CanClaim(claims, Calibration, {i}, {n}) /\ Claim(Calibration, {i}, {n})
        /\ port' = IF accepted THEN PortOff(port) ELSE port
    BY <1>1 DEF CalibrationStart
  <2>2. port' = port
    BY <2>1 DEF Inv, PortDiscipline
  <2>3. UNCHANGED Live
    BY <2>1, <2>2 DEF Live
  <2>4. Calibration \in Owners /\ {i} \in SUBSET Inputs /\ {n} \in SUBSET Outputs
    BY DEF Owners
  <2>5. CASE Held(claims, Calibration)
    <3>1. claims[Calibration] = [inputs |-> {i}, outputs |-> {n}]
      BY <2>1, <2>5 DEF CanClaim
    <3>2. UNCHANGED claims
      BY <1>0, <2>1, <2>4, <3>1 DEF Claim, Claimed, TypeOK
    <3> QED
      BY <1>0, <2>3, <3>2, KeepsIsLeaves
  <2>6. CASE ~Held(claims, Calibration)
    BY <2>1, <2>3, <2>4, <2>6 DEF Enters
  <2> QED
    BY <2>5, <2>6
<1>2. CASE CalibrationTarget
  <2>1. cal.on /\ PortWrite(cal.output) /\ cal.output \in Outputs /\ UNCHANGED claims
    BY <1>0, <1>2 DEF CalibrationTarget, software, TypeOK
  <2>2. /\ port'.enabled = port.enabled /\ port'.at = port.at
        /\ \A m \in Outputs : lanes'[m].enabled => lanes[m].enabled
    BY <1>0, <2>1 DEF PortWrite, PortOn, TypeOK, Port, LaneOff
  <2> QED
    BY <1>0, <2>1, <2>2, SilencingShrinks, KeepsIsLeaves
<1>3. ASSUME NEW ends \in BOOLEAN, CalibrationDisable(ends) PROVE Leaves
  <2>1. port' = PortOff(port) /\ UNCHANGED <<claims, lanes>>
    BY <1>3 DEF CalibrationDisable, software
  <2>2. ~port'.enabled
    BY <1>0, <2>1 DEF TypeOK, Port, PortOff
  <2> QED
    BY <1>0, <2>1, <2>2, SilencingShrinks, KeepsIsLeaves
<1> QED
  BY <1>1, <1>2, <1>3 DEF CalibrationPoll

\* A DAC sample drives more, because the port keeps its output and inhibits no
\* playing lane; a watchdog drives less.
LEMMA GatewareKinds == Inv /\ Gateware => Leaves \/ Drives
<1> SUFFICES ASSUME Inv, Gateware PROVE Leaves \/ Drives
  OBVIOUS
<1>0. TypeOK
  BY DEF Inv
<1>1. CASE DacSample
  <2>1. UNCHANGED claims
    BY <1>1 DEF DacSample, software
  <2>2. port.enabled => port'.enabled /\ port'.at = port.at
    <3>1. CASE port.staged
      <4>1. port'.enabled /\ port'.at = port.next
        BY <1>0, <1>1, <3>1 DEF DacSample, TypeOK, Port
      <4>2. port.enabled => port.at \in PortUser /\ port.next \in PortUser
        BY <3>1 DEF Inv, DrivenByItsOwner, PortFollows, Quiet
      <4> QED
        BY <4>1, <4>2, OnePortUser
    <3>2. CASE ~port.staged
      BY <1>1, <3>2 DEF DacSample
    <3> QED
      BY <3>1, <3>2
  <2>3. \A n \in Outputs : lanes[n].enabled => lanes'[n].enabled
    <3> SUFFICES ASSUME NEW n \in Outputs, lanes[n].enabled PROVE lanes'[n].enabled
      OBVIOUS
    <3>1. n \in active
      BY DEF Inv, DrivenByItsOwner, LanesFollow
    <3>2. n \notin PortUser
      BY <3>1, PortAvoidsLanes
    <3>3. ~Inhibited(n)
      BY <3>2 DEF Inhibited, Inv, DrivenByItsOwner, PortFollows
    <3> QED
      BY <1>1, <3>3 DEF DacSample, LaneOff
  <2> QED
    BY <2>1, <2>2, <2>3 DEF Drives, Live
<1>2. CASE PortWatchdog
  <2>1. ~port'.enabled /\ UNCHANGED <<claims, lanes>>
    BY <1>0, <1>2 DEF PortWatchdog, PortOff, TypeOK, Port, software
  <2> QED
    BY <1>0, <2>1, SilencingShrinks, KeepsIsLeaves
<1>3. ASSUME NEW n \in Outputs, LaneWatchdog(n) PROVE Leaves
  <2>1. UNCHANGED <<claims, port>>
    BY <1>3 DEF LaneWatchdog, software
  <2>2. \A m \in Outputs : lanes'[m].enabled => lanes[m].enabled
    BY <1>0, <1>3 DEF LaneWatchdog, LaneOff, TypeOK
  <2> QED
    BY <1>0, <2>1, <2>2, SilencingShrinks, KeepsIsLeaves
<1> QED
  BY <1>1, <1>2, <1>3 DEF Gateware

\* Every step, or none, is of one of the kinds.
LEMMA StepKinds == Inv /\ [Next]_vars => Leaves \/ Enters \/ Drives
<1> SUFFICES ASSUME Inv, [Next]_vars PROVE Leaves \/ Enters \/ Drives
  OBVIOUS
<1>1. CASE Edit \/ Recall \/ Pass \/ UNCHANGED vars
  <2>1. UNCHANGED <<claims, lanes, port>>
    BY <1>1 DEF Edit, EditRoute, Recall, RecallBegin, RecallFinish, Pass,
                software, gateware, vars
  <2> QED
    BY <2>1, SilencingShrinks, KeepsIsLeaves DEF Inv
<1> QED
  BY <1>1, IsrLeaves, RouteKinds, ReferenceKinds, CalibrationKinds, GatewareKinds
     DEF Next, Foreground

-----------------------------------------------------------------------------
(* What is given back is silent.                                           *)

\* One step of ReleasedOutputsAreSilent.
ReleasesInSilence ==
    \A o \in Owners :
        Held(claims, o) /\ claims'[o] = NoJacks =>
          \A n \in claims[o].outputs :
             /\ ~lanes'[n].enabled /\ ~lanes'[n].staged
             /\ ~(port'.enabled /\ port'.at = n)
             /\ ~(port'.staged /\ port'.next = n)

\* A step never hands a jack from one owner to another.
LEMMA NoHandover ==
    ASSUME Inv, [Next]_vars, NEW o \in Owners, Held(claims, o), claims'[o] = NoJacks
    PROVE  \A p \in Owners : claims'[p] \in {NoJacks, claims[p]}
<1>0. claims \in [Owners -> Row]
  BY DEF Inv, TypeOK
<1>1. CASE Leaves
  BY <1>1 DEF Leaves, Released
<1>2. CASE Enters
  <2>1. PICK q \in Owners, ins \in SUBSET Inputs, outs \in SUBSET Outputs :
           ~Held(claims, q) /\ CanClaim(claims, q, ins, outs) /\ Claim(q, ins, outs)
    BY <1>2 DEF Enters
  <2>2. claims' = [claims EXCEPT ![q] = [inputs |-> ins, outputs |-> outs]]
    BY <2>1 DEF Claim, Claimed
  <2>3. o # q
    BY <2>1
  <2>4. claims'[o] = claims[o]
    BY <1>0, <2>2, <2>3
  <2> QED
    BY <2>4 DEF Held
<1>3. CASE Drives
  BY <1>3 DEF Drives
<1> QED
  BY <1>1, <1>2, <1>3, StepKinds

\* What is still driven after the step belongs to an owner that stayed, and the
\* owners had no jack in common.
LEMMA StepIsSilent == Inv /\ [Next]_vars => ReleasesInSilence
<1>1. (Inv => DrivenAreClaimed)'
  BY DrivenIsClaimed, PTL
<1> SUFFICES ASSUME Inv, [Next]_vars,
                    NEW o \in Owners, Held(claims, o), claims'[o] = NoJacks,
                    NEW n \in claims[o].outputs
             PROVE  ~Driving(n)'
  BY DEF ReleasesInSilence, Driving
<1>2. n \in Outputs
  BY DEF Inv, TypeOK, Row
<1>3. SUFFICES ASSUME Driving(n)' PROVE FALSE
  OBVIOUS
<1>4. PICK p \in Owners : n \in claims'[p].outputs
  BY <1>1, <1>2, <1>3, NextInv DEF DrivenAreClaimed
<1>5. claims'[p] = claims[p] /\ p # o
  BY <1>4, NoHandover DEF NoJacks
<1>6. ~Overlaps(claims[o], claims[p].inputs, claims[p].outputs)
  BY <1>5 DEF Inv, JackExclusion
<1> QED
  BY <1>4, <1>5, <1>6 DEF Overlaps

\* A claim is given back only in a step after which no guard drives the outputs
\* it named, nor will at the next DAC sample.
THEOREM Silence == Spec => ReleasedOutputsAreSilent
<1>1. Inv /\ [Next]_vars => [ReleasesInSilence]_vars
  BY StepIsSilent
<1>2. Spec => [][ReleasesInSilence]_vars
  BY <1>1, Invariance, PTL DEF Spec
<1> QED
  BY <1>2 DEF ReleasedOutputsAreSilent, ReleasesInSilence

-----------------------------------------------------------------------------
(* Refinement.                                                             *)

\* An output the allocator counts among the jacks of os is in one of their
\* output rows, because no input is an output.
LEMMA OutputsOfOwners ==
    ASSUME TypeOK, NEW os \in SUBSET Owners, NEW n \in Outputs,
           n \in Allocator!JacksOf(os)
    PROVE  \E o \in os : n \in claims[o].outputs
<1>1. PICK o \in os : n \in claims[o].inputs \union claims[o].outputs
  BY DEF Allocator!JacksOf, Grant
<1>2. n \notin claims[o].inputs
  BY JacksAssumption DEF TypeOK, Row
<1> QED
  BY <1>1, <1>2

\* Initially nothing is granted and nothing is live.
LEMMA InitAllocates == Init => Allocator!Init
<1> SUFFICES ASSUME Init PROVE Allocator!Init
  OBVIOUS
<1>1. Grant = [o \in Owners |-> {}]
  BY DEF Init, Grant, NoClaims, NoJacks
<1>2. Live = {}
  <2>1. ~port.enabled
    BY DEF Init, Port, PortOff
  <2> QED
    BY <2>1 DEF Init, Live, LaneOff
<1> QED
  BY <1>1, <1>2 DEF Allocator!Init

\* Owners that leave release their jacks.
LEMMA LeavesReleases == Inv /\ [Next]_vars /\ Leaves => Allocator!Next
<1> SUFFICES ASSUME Inv, [Next]_vars,
                    NEW os \in SUBSET Owners,
                    claims' = Released(claims, os), Live' \subseteq Live
             PROVE  Allocator!Release(os)
  BY DEF Leaves, Allocator!Next
<1>1. Grant' = [o \in Owners |-> IF o \in os THEN {} ELSE Grant[o]]
  BY DEF Grant, Released, NoJacks
<1>2. \A n \in Live' : n \notin Allocator!JacksOf(os)
  <2> SUFFICES ASSUME NEW n \in Live', n \in Allocator!JacksOf(os) PROVE FALSE
    OBVIOUS
  <2>1. n \in Outputs /\ n \in Live
    BY DEF Live, Inv, TypeOK, Port
  <2>2. PICK o \in os : n \in claims[o].outputs
    BY <2>1, OutputsOfOwners DEF Inv
  <2>3. Held(claims, o) /\ claims'[o] = NoJacks
    BY <2>2 DEF Held, NoJacks, Released
  <2>4. ~lanes'[n].enabled /\ ~(port'.enabled /\ port'.at = n)
    BY <2>2, <2>3, StepIsSilent DEF ReleasesInSilence
  <2> QED
    BY <2>4 DEF Live
<1> QED
  BY <1>1, <1>2 DEF Allocator!Release

\* An owner that enters acquires jacks that nobody has.
LEMMA EntersAcquires == Inv /\ Enters => Allocator!Next
<1> SUFFICES ASSUME Inv, NEW o \in Owners,
                    NEW ins \in SUBSET Inputs, NEW outs \in SUBSET Outputs,
                    ~Held(claims, o), CanClaim(claims, o, ins, outs),
                    Claim(o, ins, outs), UNCHANGED Live
             PROVE  Allocator!Next
  BY DEF Enters
<1>0. claims \in [Owners -> Row]
  BY DEF Inv, TypeOK
<1>1. claims' = [claims EXCEPT ![o] = [inputs |-> ins, outputs |-> outs]]
  BY DEF Claim, Claimed
<1>2. Grant' = [Grant EXCEPT ![o] = ins \union outs]
  BY <1>0, <1>1 DEF Grant
<1>3. Grant[o] = {}
  BY DEF Held, NoJacks, Grant
<1>4. (ins \union outs) \intersect Allocator!JacksOf(Owners) = {}
  <2> SUFFICES ASSUME NEW j \in ins \union outs, NEW p \in Owners,
                      j \in claims[p].inputs \union claims[p].outputs
               PROVE  FALSE
    BY DEF Allocator!JacksOf, Grant
  <2>1. claims[p].inputs \subseteq Inputs /\ claims[p].outputs \subseteq Outputs
    BY <1>0 DEF Row
  <2>2. claims[p].inputs \intersect ins = {} /\ claims[p].outputs \intersect outs = {}
    BY DEF CanClaim, Overlaps
  <2> QED
    BY <2>1, <2>2, JacksAssumption
<1>5. Allocator!Acquire(o, ins \union outs)
  BY <1>2, <1>3, <1>4 DEF Allocator!Acquire
<1> QED
  BY <1>5 DEF Allocator!Next

\* A DAC sample energises held jacks.
LEMMA DrivesEnergises == Inv /\ [Next]_vars /\ Drives => Allocator!Next
<1>1. (Inv => DrivenAreClaimed)'
  BY DrivenIsClaimed, PTL
<1> SUFFICES ASSUME Inv, [Next]_vars, Drives PROVE Allocator!Next
  OBVIOUS
<1>2. Inv'
  BY NextInv
<1>3. \A n \in Live' : n \in Outputs /\ Driving(n)'
  BY <1>2 DEF Live, Driving, Inv, TypeOK, Port
<1>4. Live' \subseteq Allocator!JacksOf(Owners)
  BY <1>1, <1>2, <1>3 DEF DrivenAreClaimed, Drives, Allocator!JacksOf, Grant
<1>5. Allocator!Energise
  BY <1>4 DEF Drives, Allocator!Energise, Grant
<1> QED
  BY <1>5 DEF Allocator!Next

\* The two threads and the gateware together implement the jack allocator.
THEOREM Refinement == Spec => ImplementsAllocator
<1>1. Inv /\ [Next]_vars => [Allocator!Next]_(Allocator!vars)
  BY StepKinds, LeavesReleases, EntersAcquires, DrivesEnergises
<1> QED
  BY <1>1, InitAllocates, Invariance, PTL DEF Spec, ImplementsAllocator, Allocator!Spec
=============================================================================
