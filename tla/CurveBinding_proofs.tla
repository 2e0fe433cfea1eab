------------------------- MODULE CurveBinding_proofs -------------------------
(***************************************************************************)
(* Proofs about CurveBinding, for any outputs, routes, slots and curves:   *)
(* an output plays the curve that was applied to it, and plays it until it *)
(* stops.                                                                  *)
(***************************************************************************)
EXTENDS CurveBinding, TLAPS

-----------------------------------------------------------------------------
(* PlaysWhatWasApplied is not inductive: START only compares sources, so    *)
(* the curve of every binding has to be right before it is played.          *)

\* What is bound is what was last applied.
BoundAsApplied ==
    \A n \in RouteOutputs : bound[n] # None => applied[n] = <<bound[n], curve[n]>>

\* What plays is bound.
PlaysBound == \A n \in active : correction[n] # None => bound[n] = correction[n]

IInv == TypeOK /\ BoundAsApplied /\ PlaysBound

LEMMA PlayingOutputs ==
    ASSUME TypeOK
    PROVE  /\ active \subseteq RouteOutputs
           /\ held = {} => active = {}
  BY DEF TypeOK, RouteOutputs

LEMMA NoneIsASource == None \in Sources
  BY DEF Sources

-----------------------------------------------------------------------------
(* Types.                                                                   *)

LEMMA InitTypes == Init => TypeOK
  BY NoneIsASource DEF Init, ShelfInit, TypeOK, Unassigned

\* Writing a slot leaves something that can be read, or not, in it.
LEMMA WriteTypes ==
    ASSUME NEW s \in Slots, NEW c \in Curves, shelf \in [Slots -> Readings], Write(s, c)
    PROVE  shelf' \in [Slots -> Readings]
  BY DEF Write, Readings

LEMMA ApplyTypes ==
    ASSUME TypeOK, NEW n \in RouteOutputs, Apply(n)
    PROVE  TypeOK'
<1> DEFINE c == Offered(correction[n])
           ok == c \in Curves /\ n \notin active
<1>1. Binding(n, ok) \in Sources
  BY NoneIsASource DEF Binding, TypeOK
<1>2. bound' \in [RouteOutputs -> Sources]
  BY <1>1 DEF Apply, TypeOK
<1>3. curve' \in [RouteOutputs -> Curves \union {None}]
  BY DEF Apply, TypeOK
<1>4. applied' \in [RouteOutputs -> (Sources \X Curves) \union {None}]
  BY DEF Apply, TypeOK
<1> QED
  BY <1>2, <1>3, <1>4 DEF Apply, TypeOK, shelfVars, RouteOutputs, Sources, Readings

LEMMA ChooseTypes ==
    ASSUME TypeOK, NEW n \in RouteOutputs, NEW s \in Sources, Choose(n, s)
    PROVE  TypeOK'
<1>1. correction' \in [RouteOutputs -> Sources] /\ bound' \in [RouteOutputs -> Sources]
  BY NoneIsASource DEF Choose, Unbound, TypeOK
<1>2. applied' \in [RouteOutputs -> (Sources \X Curves) \union {None}]
  BY DEF Choose, TypeOK
<1> QED
  BY <1>1, <1>2 DEF Choose, TypeOK, shelfVars

LEMMA StartTypes ==
    ASSUME TypeOK, NEW g \in Routes, Start(g)
    PROVE  TypeOK'
<1>1. held' \subseteq Routes /\ active' \subseteq UNION held' /\ running'
  BY DEF Start, TypeOK
<1> QED
  BY <1>1 DEF Start, TypeOK, binding

\* Routes are disjoint, so what is left playing belongs to the others.
LEMMA StopRouteTypes ==
    ASSUME TypeOK, NEW g \in Routes, StopRoute(g)
    PROVE  TypeOK'
<1>1. active' \subseteq UNION held'
  <2> SUFFICES ASSUME NEW n \in active, n \notin g
               PROVE  \E h \in held \ {g} : n \in h
    BY DEF StopRoute
  <2>1. PICK h \in held : n \in h
    BY DEF TypeOK
  <2> QED
    BY <2>1
<1>2. running' \in BOOLEAN /\ (active' # {} => running')
  BY DEF StopRoute, StillRunning
<1>3. held' \subseteq Routes
  BY DEF StopRoute, TypeOK
<1> QED
  BY <1>1, <1>2, <1>3 DEF StopRoute, TypeOK, binding

LEMMA LibraryTypes ==
    ASSUME TypeOK, Library
    PROVE  TypeOK'
<1>1. CASE \E s \in Slots : Save(s)
  BY <1>1, WriteTypes DEF Save, TypeOK, Library, binding
<1>2. CASE \E s \in Slots : Load(s)
  BY <1>2 DEF Load, TypeOK, Library, binding
<1>3. CASE \E s \in Slots, c \in Curves : Import(s, c)
  BY <1>3, WriteTypes DEF Import, TypeOK, Library, binding
<1>4. CASE \E c \in Curves : Accept(c)
  BY <1>4 DEF Accept, TypeOK, Library, binding
<1>5. CASE Operate
  BY <1>5 DEF Operate, TypeOK, Library, binding
<1> QED
  BY <1>1, <1>2, <1>3, <1>4, <1>5 DEF Library

LEMMA PowerLossTypes ==
    ASSUME TypeOK, PowerLoss
    PROVE  TypeOK'
<1>1. shelf' \in [Slots -> Readings]
  BY WriteTypes DEF PowerLoss, Restart, TypeOK
<1> QED
  BY <1>1, NoneIsASource DEF PowerLoss, Restart, TypeOK, Unassigned

LEMMA NextTypes ==
    ASSUME TypeOK, [Next]_vars
    PROVE  TypeOK'
<1>1. ASSUME NEW n \in RouteOutputs, Apply(n) PROVE TypeOK'
  BY <1>1, ApplyTypes
<1>2. ASSUME NEW n \in RouteOutputs, StopLane(n) PROVE TypeOK'
  BY <1>2 DEF StopLane, TypeOK, shelfVars, binding
<1>3. ASSUME NEW n \in RouteOutputs, NEW s \in Sources, Choose(n, s) PROVE TypeOK'
  BY <1>3, ChooseTypes
<1>4. ASSUME NEW g \in Routes, Start(g) PROVE TypeOK'
  BY <1>4, StartTypes
<1>5. ASSUME NEW g \in Routes, StopRoute(g) PROVE TypeOK'
  BY <1>5, StopRouteTypes
<1>6. CASE StopAll
  BY <1>6 DEF StopAll, TypeOK, binding
<1>7. CASE RecallSetup
  BY <1>7, NoneIsASource DEF RecallSetup, RecalledBindings, TypeOK, shelfVars
<1>8. CASE Library
  BY <1>8, LibraryTypes
<1>9. CASE PowerLoss
  BY <1>9, PowerLossTypes
<1>10. CASE UNCHANGED vars
  BY <1>10 DEF vars, shelfVars, binding, TypeOK
<1> QED
  BY <1>1, <1>2, <1>3, <1>4, <1>5, <1>6, <1>7, <1>8, <1>9, <1>10 DEF Next

-----------------------------------------------------------------------------
(* The bindings.                                                            *)

LEMMA NextBindings ==
    ASSUME IInv, [Next]_vars
    PROVE  BoundAsApplied' /\ PlaysBound'
<1> USE DEF IInv
<1>0. active \subseteq RouteOutputs
  BY PlayingOutputs
<1>1. ASSUME NEW n \in RouteOutputs, Apply(n) PROVE BoundAsApplied' /\ PlaysBound'
  <2> DEFINE c == Offered(correction[n])
             ok == c \in Curves /\ n \notin active
  <2>1. /\ bound' = [bound EXCEPT ![n] = Binding(n, ok)]
        /\ curve' = IF ok THEN [curve EXCEPT ![n] = c] ELSE curve
        /\ applied' = [applied EXCEPT ![n] = IF ok THEN <<correction[n], c>> ELSE None]
        /\ n \notin active /\ correction' = correction /\ active' = active
    BY <1>1 DEF Apply, Appliable
  <2> HIDE DEF c, ok
  <2>2. BoundAsApplied'
    <3> SUFFICES ASSUME NEW o \in RouteOutputs, bound'[o] # None
                 PROVE  applied'[o] = <<bound'[o], curve'[o]>>
      BY DEF BoundAsApplied, RouteOutputs
    <3>1. CASE o = n
      BY <2>1, <3>1 DEF Binding, TypeOK, IInv
    <3>2. CASE o # n
      BY <2>1, <3>2 DEF BoundAsApplied, TypeOK, IInv
    <3> QED
      BY <3>1, <3>2
  <2>3. PlaysBound'
    BY <2>1 DEF PlaysBound, TypeOK
  <2> QED
    BY <2>2, <2>3
<1>2. ASSUME NEW n \in RouteOutputs, StopLane(n) PROVE BoundAsApplied' /\ PlaysBound'
  BY <1>2 DEF StopLane, BoundAsApplied, PlaysBound, binding
<1>3. ASSUME NEW n \in RouteOutputs, NEW s \in Sources, Choose(n, s)
      PROVE  BoundAsApplied' /\ PlaysBound'
  <2>1. PlaysBound'
    <3> SUFFICES ASSUME NEW o \in active, correction'[o] # None
                 PROVE  bound'[o] = correction'[o]
      BY <1>3 DEF Choose, PlaysBound
    <3>1. o # n /\ o \in RouteOutputs
      BY <1>0, <1>3 DEF Choose
    <3> QED
      BY <1>3, <3>1 DEF Choose, Unbound, PlaysBound, TypeOK
  <2>2. BoundAsApplied'
    <3> SUFFICES ASSUME NEW o \in RouteOutputs, bound'[o] # None
                 PROVE  applied'[o] = <<bound'[o], curve'[o]>>
      BY DEF BoundAsApplied, RouteOutputs
    <3>1. bound'[o] = bound[o] /\ applied'[o] = applied[o] /\ curve' = curve
      BY <1>3 DEF Choose, Unbound, TypeOK
    <3> QED
      BY <3>1 DEF BoundAsApplied
  <2> QED
    BY <2>1, <2>2
<1>4. ASSUME NEW g \in Routes, Start(g) PROVE BoundAsApplied' /\ PlaysBound'
  BY <1>4 DEF Start, Corrected, BoundAsApplied, PlaysBound, binding
<1>5. ASSUME NEW g \in Routes, StopRoute(g) PROVE BoundAsApplied' /\ PlaysBound'
  BY <1>5 DEF StopRoute, BoundAsApplied, PlaysBound, binding
<1>6. CASE StopAll
  BY <1>6 DEF StopAll, BoundAsApplied, PlaysBound, binding
<1>7. CASE RecallSetup
  BY <1>7, PlayingOutputs DEF RecallSetup, Recallable, RecalledBindings, BoundAsApplied, PlaysBound
<1>8. CASE Library
  BY <1>8 DEF Library, BoundAsApplied, PlaysBound, binding
<1>9. CASE PowerLoss
  BY <1>9 DEF PowerLoss, Unassigned, BoundAsApplied, PlaysBound
<1>10. CASE UNCHANGED vars
  BY <1>10 DEF vars, binding, BoundAsApplied, PlaysBound
<1> QED
  BY <1>1, <1>2, <1>3, <1>4, <1>5, <1>6, <1>7, <1>8, <1>9, <1>10 DEF Next

\* Whatever is applied, recalled, written or lost, the invariant holds.
THEOREM Inductive == Spec => []IInv
<1>1. Init => IInv
  BY InitTypes DEF Init, IInv, BoundAsApplied, PlaysBound, Unassigned
<1>2. IInv /\ [Next]_vars => IInv'
  BY NextTypes, NextBindings DEF IInv
<1> QED
  BY <1>1, <1>2, PTL DEF Spec

\* The variables of the bindings keep their types, and what plays belongs to
\* routes that hold their jacks while the service runs.
THEOREM BindingTypes == Spec => []TypeOK
<1>1. IInv => TypeOK
  BY DEF IInv
<1> QED
  BY <1>1, Inductive, PTL

\* No output plays a curve that was not the last one applied to it, from the
\* source that its channel names (bind_route, toggle, persist_setup).
THEOREM PlayedIsApplied == Spec => []PlaysWhatWasApplied
<1>1. IInv => PlaysWhatWasApplied
  <2> SUFFICES ASSUME IInv, NEW n \in active, correction[n] # None
               PROVE  applied[n] = <<correction[n], curve[n]>>
    BY DEF PlaysWhatWasApplied
  <2>1. n \in RouteOutputs
    BY PlayingOutputs DEF IInv
  <2> QED
    BY <2>1 DEF IInv, BoundAsApplied, PlaysBound
<1> QED
  BY <1>1, Inductive, PTL

-----------------------------------------------------------------------------
(* What plays stays.                                                        *)

LEMMA StepKeepsCurves ==
    ASSUME TypeOK, [Next]_vars, NEW n \in active, n \in active'
    PROVE  curve'[n] = curve[n] /\ correction'[n] = correction[n]
<1>0. n \in RouteOutputs /\ held # {}
  BY PlayingOutputs
<1>1. ASSUME NEW o \in RouteOutputs, Apply(o) PROVE curve'[n] = curve[n] /\ correction' = correction
  BY <1>0, <1>1 DEF Apply, Appliable, TypeOK
<1>2. ASSUME NEW o \in RouteOutputs, NEW s \in Sources, Choose(o, s)
      PROVE  curve' = curve /\ correction'[n] = correction[n]
  BY <1>0, <1>2 DEF Choose, TypeOK
<1>3. ASSUME NEW o \in RouteOutputs, StopLane(o) PROVE UNCHANGED binding
  BY <1>3 DEF StopLane
<1>4. ASSUME NEW g \in Routes, Start(g) \/ StopRoute(g) PROVE UNCHANGED binding
  BY <1>4 DEF Start, StopRoute
<1>5. CASE StopAll \/ Library \/ UNCHANGED vars
  BY <1>5 DEF StopAll, Library, vars, binding
<1>6. ~RecallSetup
  BY <1>0 DEF RecallSetup, Recallable
<1>7. ~PowerLoss
  BY DEF PowerLoss
<1> QED
  BY <1>1, <1>2, <1>3, <1>4, <1>5, <1>6, <1>7 DEF Next, binding

\* Accepting, loading, saving, recalling or applying elsewhere never changes
\* the curve or the source of an output that plays on.
THEOREM PlayedCurveStays == Spec => ActiveCurvesStay
<1>1. TypeOK /\ [Next]_vars
        => [\A n \in active \intersect active' :
              curve'[n] = curve[n] /\ correction'[n] = correction[n]]_vars
  BY StepKeepsCurves
<1> QED
  BY <1>1, BindingTypes, PTL DEF Spec, ActiveCurvesStay
===============================================================================
