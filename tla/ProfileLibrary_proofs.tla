------------------------ MODULE ProfileLibrary_proofs ------------------------
(***************************************************************************)
(* Proofs about ProfileLibrary, for any slots and curves: a slot reads as  *)
(* something the user was told it may hold, the name on the Profiles page  *)
(* is that of what a load would bring, and the two journals are one shelf. *)
(***************************************************************************)
EXTENDS ProfileLibrary, TLAPS

-----------------------------------------------------------------------------
(* The two journals as one shelf.                                          *)

LEMMA LookupIsCell ==
    ASSUME TypeOK, NEW s \in Slots
    PROVE  Lookup(s) \in Cells
  BY DEF TypeOK, Lookup, Cells

LEMMA CurvesAreCells ==
    /\ Curves \subseteq Cells /\ None \in Cells /\ Unreadable \in Cells
    /\ \A c \in Curves : c # None
  BY LibraryAssumption DEF Cells

\* A store changes one slot, to what it left there; an absent record shows the
\* older journal.
LEMMA StoreReads ==
    ASSUME TypeOK, NEW s \in Slots, NEW r \in Cells, NEW told, Stored(s, r, told)
    PROVE  /\ \A t \in Slots \ {s} : Lookup(t)' = Lookup(t) /\ possible'[t] = possible[t]
           /\ Lookup(s)' = IF r = None THEN legacy[s] ELSE r
           /\ r = expanded[s] => Lookup(s)' = Lookup(s)
           /\ possible'[s] = told
  BY DEF TypeOK, Stored, Lookup

\* What a write may leave behind is a cell, and a slot that was not written
\* reads as before.
LEMMA WriteReads ==
    ASSUME TypeOK, NEW s \in Slots, NEW c \in Curves, NEW r \in Left(s, c), NEW told,
           Stored(s, r, told)
    PROVE  /\ r \in Cells
           /\ Lookup(s)' \in {c, Unreadable, Lookup(s)}
           /\ r = c => Lookup(s)' = c
           /\ \A t \in Slots \ {s} : Lookup(t)' = Lookup(t) /\ possible'[t] = possible[t]
           /\ possible'[s] = told
<1>1. r \in Cells
  BY CurvesAreCells DEF Left, TypeOK
<1>2. CASE r = expanded[s]
  BY <1>1, <1>2, StoreReads, CurvesAreCells
<1>3. CASE r # expanded[s]
  BY <1>1, <1>3, StoreReads, CurvesAreCells, LibraryAssumption DEF Left
<1> QED
  BY <1>2, <1>3

-----------------------------------------------------------------------------
(* Types.                                                                  *)

LEMMA InitTypes == Init => TypeOK
<1> SUFFICES ASSUME Init PROVE TypeOK
  OBVIOUS
<1>1. \A s \in Slots : {Lookup(s)} \in SUBSET Cells
  BY DEF Init, Lookup, Cells
<1>2. possible \in [Slots -> SUBSET Cells]
  BY <1>1 DEF Init
<1> QED
  BY <1>2, CurvesAreCells DEF Init, TypeOK

LEMMA StoreTypes ==
    ASSUME TypeOK, NEW s \in Slots, NEW c \in Curves, NEW r \in Left(s, c),
           NEW told \in SUBSET Cells, Stored(s, r, told)
    PROVE  /\ expanded' \in [Slots -> Cells] /\ legacy' \in [Slots -> Cells]
           /\ possible' \in [Slots -> SUBSET Cells]
<1>1. r \in Cells
  BY WriteReads
<1> QED
  BY <1>1 DEF TypeOK, Stored

LEMMA UnsureIsCells ==
    ASSUME TypeOK, NEW s \in Slots, NEW c \in Curves
    PROVE  Unsure(s, c) \subseteq Cells
  BY CurvesAreCells DEF TypeOK, Unsure

LEMMA SaveTypes ==
    ASSUME TypeOK, NEW s \in Slots, SaveProfile(s)
    PROVE  TypeOK'
<1>1. ram \in Curves
  BY DEF TypeOK, SaveProfile, Saveable
<1>2. PICK r \in Left(s, ram) :
         /\ Stored(s, r, IF Verified(s, r) THEN {ram} ELSE Unsure(s, ram))
         /\ label' = Lookup(s)'
  BY DEF SaveProfile
<1>3. (IF Verified(s, r) THEN {ram} ELSE Unsure(s, ram)) \in SUBSET Cells
  BY <1>1, UnsureIsCells, CurvesAreCells
<1>4. /\ expanded' \in [Slots -> Cells] /\ legacy' \in [Slots -> Cells]
      /\ possible' \in [Slots -> SUBSET Cells]
  BY <1>1, <1>2, <1>3, StoreTypes
<1>5. label' \in Cells
  BY <1>2, <1>4 DEF Lookup
<1> QED
  BY <1>4, <1>5 DEF SaveProfile, TypeOK, measuring

LEMMA TransferTypes ==
    ASSUME TypeOK, NEW s \in Slots, NEW c \in Curves, TransferWrite(s, c)
    PROVE  TypeOK'
<1>1. PICK r \in Left(s, c), ok \in BOOLEAN :
         Stored(s, r, IF ok THEN {c} ELSE Unsure(s, c))
  BY DEF TransferWrite
<1>2. (IF ok THEN {c} ELSE Unsure(s, c)) \in SUBSET Cells
  BY UnsureIsCells, CurvesAreCells
<1>3. /\ expanded' \in [Slots -> Cells] /\ legacy' \in [Slots -> Cells]
      /\ possible' \in [Slots -> SUBSET Cells]
  BY <1>1, <1>2, StoreTypes
<1> QED
  BY <1>3 DEF TransferWrite, MarkChanged, TypeOK, measuring

LEMMA PowerTypes ==
    ASSUME TypeOK, PowerLoss
    PROVE  TypeOK'
<1>1. /\ expanded' \in [Slots -> Cells] /\ legacy' \in [Slots -> Cells]
      /\ possible' \in [Slots -> SUBSET Cells]
  <2>1. CASE UNCHANGED flash
    BY <2>1 DEF TypeOK, flash
  <2>2. CASE \E s \in Slots, c \in Curves :
               \E r \in {c, expanded[s]} : Stored(s, r, possible[s] \union {c})
    <3>1. PICK s \in Slots, c \in Curves :
            \E r \in {c, expanded[s]} : Stored(s, r, possible[s] \union {c})
      BY <2>2
    <3>2. PICK r \in Left(s, c) : Stored(s, r, possible[s] \union {c})
      BY <3>1 DEF Left
    <3>3. possible[s] \union {c} \in SUBSET Cells
      BY CurvesAreCells DEF TypeOK
    <3> QED
      BY <3>2, <3>3, StoreTypes
  <2> QED
    BY <2>1, <2>2 DEF PowerLoss
<1> QED
  BY <1>1, CurvesAreCells DEF PowerLoss, Restarted, TypeOK

\* What does not write.
LEMMA ShowTypes ==
    ASSUME TypeOK, NEW s \in Slots, NEW p \in {"profiles", "other"}, Show(p, s)
    PROVE  TypeOK'
<1>1. label' \in Cells /\ preview' \in Slots \union {None}
  BY LookupIsCell, CurvesAreCells DEF Show, Preview, TypeOK
<1> QED
  BY <1>1 DEF Show, TypeOK, flash, measuring

LEMMA RefuseTypes ==
    ASSUME TypeOK, NEW s \in Slots, RefuseSave(s)
    PROVE  TypeOK'
  BY LookupIsCell DEF RefuseSave, TypeOK, flash, measuring

LEMMA LoadTypes ==
    ASSUME TypeOK, NEW s \in Slots, LoadProfile(s)
    PROVE  TypeOK'
<1>1. label' \in Cells
  BY LookupIsCell DEF LoadProfile, TypeOK
<1> QED
  BY <1>1 DEF LoadProfile, Recalled, TypeOK, flash

LEMMA MeasuringTypes ==
    ASSUME TypeOK, StartScan \/ StartCheck \/ Finish \/ \E keep \in BOOLEAN : Answer(keep)
    PROVE  TypeOK'
<1>1. CASE StartScan
  BY <1>1 DEF StartScan, TypeOK, flash, shown
<1>2. CASE StartCheck
  BY <1>2 DEF StartCheck, TypeOK, flash, shown
<1>3. CASE Finish
  BY <1>3, CurvesAreCells DEF Finish, Active, TypeOK, flash, shown
<1>4. CASE \E keep \in BOOLEAN : Answer(keep)
  BY <1>4 DEF Answer, TypeOK, flash, shown
<1> QED
  BY <1>1, <1>2, <1>3, <1>4

LEMMA NextTypes == TypeOK /\ [Next]_vars => TypeOK'
<1> SUFFICES ASSUME TypeOK, [Next]_vars PROVE TypeOK'
  OBVIOUS
<1>1. CASE UNCHANGED vars
  BY <1>1 DEF vars, flash, measuring, shown, TypeOK
<1>2. CASE Outputs
  BY <1>2 DEF Outputs, flash, measuring, shown, TypeOK
<1> QED
  BY <1>1, <1>2, SaveTypes, TransferTypes, PowerTypes, ShowTypes, RefuseTypes, LoadTypes,
     MeasuringTypes DEF Next

-----------------------------------------------------------------------------
(* A slot reads as something the user may expect.                          *)

LEMMA StoreIsExpected ==
    ASSUME TypeOK, LoadsAreNewest, NEW s \in Slots, NEW c \in Curves, NEW r \in Left(s, c),
           NEW told, Stored(s, r, told), Lookup(s)' \in told
    PROVE  LoadsAreNewest'
  BY WriteReads DEF LoadsAreNewest

LEMMA SaveIsExpected ==
    ASSUME TypeOK, LoadsAreNewest, NEW s \in Slots, SaveProfile(s)
    PROVE  LoadsAreNewest'
<1> DEFINE told(r) == IF Verified(s, r) THEN {ram} ELSE Unsure(s, ram)
<1>1. ram \in Curves
  BY DEF TypeOK, SaveProfile, Saveable
<1>2. PICK r \in Left(s, ram) : Stored(s, r, told(r))
  BY DEF SaveProfile
<1>3. /\ Lookup(s)' \in {ram, Unreadable, Lookup(s)}
      /\ r = ram => Lookup(s)' = ram
  BY <1>1, <1>2, WriteReads
<1>4. Lookup(s)' \in told(r)
  BY <1>3 DEF Verified, Unsure, LoadsAreNewest
<1> QED
  BY <1>1, <1>2, <1>4, StoreIsExpected

LEMMA TransferIsExpected ==
    ASSUME TypeOK, LoadsAreNewest, NEW s \in Slots, NEW c \in Curves, TransferWrite(s, c)
    PROVE  LoadsAreNewest'
<1>1. PICK r \in Left(s, c), ok \in BOOLEAN :
         (ok => r = c) /\ Stored(s, r, IF ok THEN {c} ELSE Unsure(s, c))
  BY DEF TransferWrite
<1>2. Lookup(s)' \in {c, Unreadable, Lookup(s)} /\ (r = c => Lookup(s)' = c)
  BY <1>1, WriteReads
<1>3. Lookup(s)' \in IF ok THEN {c} ELSE Unsure(s, c)
  BY <1>1, <1>2 DEF Unsure, LoadsAreNewest
<1> QED
  BY <1>1, <1>3, StoreIsExpected

LEMMA PowerIsExpected ==
    ASSUME TypeOK, LoadsAreNewest, PowerLoss
    PROVE  LoadsAreNewest'
<1>1. CASE UNCHANGED flash
  BY <1>1 DEF flash, LoadsAreNewest, Lookup
<1>2. CASE \E s \in Slots, c \in Curves :
             \E r \in {c, expanded[s]} : Stored(s, r, possible[s] \union {c})
  <2>1. PICK s \in Slots, c \in Curves :
          \E r \in {c, expanded[s]} : Stored(s, r, possible[s] \union {c})
    BY <1>2
  <2>2. PICK r \in {c, expanded[s]} : Stored(s, r, possible[s] \union {c})
    BY <2>1
  <2>3. r \in Left(s, c) /\ r \in Cells
    BY CurvesAreCells DEF Left, TypeOK
  <2>4. Lookup(s)' \in possible[s] \union {c}
    BY <2>2, <2>3, WriteReads, StoreReads DEF LoadsAreNewest
  <2> QED
    BY <2>2, <2>3, <2>4, StoreIsExpected
<1> QED
  BY <1>1, <1>2 DEF PowerLoss

LEMMA NextIsExpected == TypeOK /\ LoadsAreNewest /\ [Next]_vars => LoadsAreNewest'
<1> SUFFICES ASSUME TypeOK, LoadsAreNewest, [Next]_vars PROVE LoadsAreNewest'
  OBVIOUS
<1>1. CASE UNCHANGED flash
  BY <1>1 DEF flash, LoadsAreNewest, Lookup
<1>2. CASE \/ UNCHANGED vars \/ StartScan \/ StartCheck \/ Finish \/ Outputs
           \/ \E keep \in BOOLEAN : Answer(keep)
           \/ \E s \in Slots : RefuseSave(s) \/ LoadProfile(s)
           \/ \E s \in Slots, p \in {"profiles", "other"} : Show(p, s)
  BY <1>1, <1>2 DEF vars, StartScan, StartCheck, Finish, Outputs, Answer, RefuseSave, LoadProfile,
     Show
<1> QED
  BY <1>2, SaveIsExpected, TransferIsExpected, PowerIsExpected DEF Next

-----------------------------------------------------------------------------
(* The name on the Profiles page.                                          *)

\* LabelIsCurrent is not inductive: a page that is entered must find no name
\* from an earlier visit.
NoNameElsewhere == page # "profiles" => preview = None

LabelInv == LabelIsCurrent /\ NoNameElsewhere

LEMMA NextLabel == TypeOK /\ LabelInv /\ [Next]_vars => LabelInv'
<1> SUFFICES ASSUME TypeOK, LabelInv, [Next]_vars PROVE LabelInv'
  OBVIOUS
<1> USE DEF LabelInv, LabelIsCurrent, NoNameElsewhere
<1>1. ASSUME NEW s \in Slots, SaveProfile(s) PROVE LabelInv'
  BY <1>1, LibraryAssumption DEF SaveProfile, Lookup
<1>2. ASSUME NEW s \in Slots, RefuseSave(s) PROVE LabelInv'
  BY <1>2, LibraryAssumption DEF RefuseSave, flash, Lookup
<1>3. ASSUME NEW s \in Slots, LoadProfile(s) PROVE LabelInv'
  BY <1>3, LibraryAssumption DEF LoadProfile, Preview, flash, Lookup
<1>4. ASSUME NEW s \in Slots, NEW c \in Curves, TransferWrite(s, c) PROVE LabelInv'
  BY <1>4 DEF TransferWrite, MarkChanged
<1>5. ASSUME NEW s \in Slots, NEW p \in {"profiles", "other"}, Show(p, s) PROVE LabelInv'
  BY <1>5, LibraryAssumption DEF Show, Preview, flash, Lookup
<1>6. CASE PowerLoss
  BY <1>6 DEF PowerLoss, Restarted
<1>7. CASE \/ UNCHANGED vars \/ StartScan \/ StartCheck \/ Finish \/ Outputs
           \/ \E keep \in BOOLEAN : Answer(keep)
  BY <1>7 DEF vars, StartScan, StartCheck, Finish, Outputs, Answer, flash, shown, Lookup
<1> QED
  BY <1>1, <1>2, <1>3, <1>4, <1>5, <1>6, <1>7 DEF Next

-----------------------------------------------------------------------------
(* The library is a shelf.                                                 *)

Slot == [s \in Slots |-> Lookup(s)]

\* A slot that changes alone changes the shelf in one place.
LEMMA SlotChanges ==
    ASSUME NEW s \in Slots, NEW d, Lookup(s)' = d,
           \A t \in Slots \ {s} : Lookup(t)' = Lookup(t)
    PROVE  [t \in Slots |-> Lookup(t)]' = [Slot EXCEPT ![s] = d]
  BY DEF Slot

LEMMA FlashIsShelf ==
    ASSUME UNCHANGED flash
    PROVE  [s \in Slots |-> Lookup(s)]' = Slot
  BY DEF flash, Lookup, Slot

\* A write, finished or not, writes its slot of the shelf or leaves it as it was.
LEMMA WriteOnShelf ==
    ASSUME TypeOK, ~Active, ~running, NEW s \in Slots, NEW c \in Curves, NEW r \in Left(s, c),
           NEW told, Stored(s, r, told)
    PROVE  \/ Shelf!Write(s, c)
           \/ [t \in Slots |-> Lookup(t)]' = Slot
<1>1. /\ Lookup(s)' \in {c, Unreadable, Lookup(s)}
      /\ \A t \in Slots \ {s} : Lookup(t)' = Lookup(t)
  BY WriteReads
<1>2. CASE Lookup(s)' = Lookup(s)
  BY <1>1, <1>2 DEF Slot
<1>3. CASE Lookup(s)' \in {c, Unreadable}
  BY <1>1, <1>3, SlotChanges DEF Shelf!Write, Slot
<1> QED
  BY <1>1, <1>2, <1>3

LEMMA SaveOnShelf ==
    ASSUME TypeOK, NEW s \in Slots, SaveProfile(s)
    PROVE  Shelf!Save(s) \/ UNCHANGED Shelf!shelfVars
<1>1. ram \in Curves /\ ram # None /\ ~Active /\ ~running
  BY DEF TypeOK, SaveProfile, Saveable
<1>2. PICK r \in Left(s, ram) : Stored(s, r, IF Verified(s, r) THEN {ram} ELSE Unsure(s, ram))
  BY DEF SaveProfile
<1>3. Shelf!Write(s, ram) \/ [t \in Slots |-> Lookup(t)]' = Slot
  BY <1>1, <1>2, WriteOnShelf
<1>4. ram' = ram /\ Active' = Active /\ running' = running
  BY DEF SaveProfile, measuring, Active
<1> QED
  BY <1>1, <1>3, <1>4 DEF Shelf!Save, Shelf!shelfVars, Slot

LEMMA TransferOnShelf ==
    ASSUME TypeOK, NEW s \in Slots, NEW c \in Curves, TransferWrite(s, c)
    PROVE  Shelf!Import(s, c) \/ UNCHANGED Shelf!shelfVars
<1>1. ~Active /\ ~running
  BY DEF TransferWrite
<1>2. PICK r \in Left(s, c), ok \in BOOLEAN : Stored(s, r, IF ok THEN {c} ELSE Unsure(s, c))
  BY DEF TransferWrite
<1>3. Shelf!Write(s, c) \/ [t \in Slots |-> Lookup(t)]' = Slot
  BY <1>1, <1>2, WriteOnShelf
<1>4. ram' = ram /\ Active' = Active /\ running' = running
  BY DEF TransferWrite, measuring, Active
<1> QED
  BY <1>3, <1>4 DEF Shelf!Import, Shelf!shelfVars, Slot

LEMMA PowerOnShelf ==
    ASSUME TypeOK, PowerLoss
    PROVE  Shelf!Restart
<1>1. ram' = None /\ Active' = FALSE /\ running' = FALSE
  BY DEF PowerLoss, Restarted, Active
<1>2. CASE UNCHANGED flash
  BY <1>1, <1>2, FlashIsShelf DEF Shelf!Restart, Slot
<1>3. CASE \E s \in Slots, c \in Curves :
             /\ ~Active /\ ~running
             /\ \E r \in {c, expanded[s]} : Stored(s, r, possible[s] \union {c})
  <2>1. PICK s \in Slots, c \in Curves :
          /\ ~Active /\ ~running
          /\ \E r \in {c, expanded[s]} : Stored(s, r, possible[s] \union {c})
    BY <1>3
  <2>2. PICK r \in {c, expanded[s]} : Stored(s, r, possible[s] \union {c})
    BY <2>1
  <2>3. r \in Left(s, c) /\ r \in Cells
    BY CurvesAreCells DEF Left, TypeOK
  <2>4. /\ Lookup(s)' \in {c, Lookup(s)}
        /\ \A t \in Slots \ {s} : Lookup(t)' = Lookup(t)
    BY <2>2, <2>3, WriteReads, StoreReads
  <2>5. CASE Lookup(s)' = Lookup(s)
    BY <1>1, <2>4, <2>5 DEF Shelf!Restart, Slot
  <2>6. CASE Lookup(s)' = c
    <3>1. [t \in Slots |-> Lookup(t)]' = [Slot EXCEPT ![s] = c]
      BY <2>4, <2>6, SlotChanges
    <3>2. Shelf!Write(s, c)
      BY <2>1, <3>1 DEF Shelf!Write, Slot
    <3> QED
      BY <1>1, <2>6, <3>2 DEF Shelf!Restart
  <2> QED
    BY <2>4, <2>5, <2>6
<1> QED
  BY <1>2, <1>3 DEF PowerLoss

LEMMA LoadOnShelf ==
    ASSUME TypeOK, NEW s \in Slots, LoadProfile(s)
    PROVE  Shelf!Load(s)
  BY FlashIsShelf DEF LoadProfile, Loadable, Recalled, Active, Shelf!Load, Slot

\* Measuring and playing open and close the shelf; an answer may replace the curve.
LEMMA OthersOnShelf ==
    ASSUME TypeOK, UNCHANGED flash,
           \/ StartScan \/ StartCheck \/ Finish \/ Outputs
           \/ \E keep \in BOOLEAN : Answer(keep)
    PROVE  Shelf!ShelfNext \/ UNCHANGED Shelf!shelfVars
<1>1. [s \in Slots |-> Lookup(s)]' = [s \in Slots |-> Lookup(s)]
  BY FlashIsShelf DEF Slot
<1>2. CASE StartScan
  BY <1>1, <1>2 DEF StartScan, Active, Shelf!ShelfNext, Shelf!Operate
<1>3. CASE StartCheck
  BY <1>1, <1>3 DEF StartCheck, Active, Shelf!ShelfNext, Shelf!Operate
<1>4. CASE Finish
  BY <1>1, <1>4 DEF Finish, Active, Shelf!ShelfNext, Shelf!Operate
<1>5. CASE Outputs
  BY <1>1, <1>5 DEF Outputs, measuring, Active, Shelf!ShelfNext, Shelf!Play
<1>6. CASE \E keep \in BOOLEAN : Answer(keep)
  <2>1. PICK keep \in BOOLEAN : Answer(keep)
    BY <1>6
  <2>2. Active = FALSE /\ Active' = FALSE /\ running' = running /\ pending \in Curves
    BY <2>1 DEF Answer, Active, TypeOK
  <2>3. CASE keep
    BY <1>1, <2>1, <2>2, <2>3 DEF Answer, Shelf!ShelfNext, Shelf!Accept
  <2>4. CASE ~keep
    BY <1>1, <2>1, <2>2, <2>4 DEF Answer, Shelf!shelfVars
  <2> QED
    BY <2>3, <2>4
<1> QED
  BY <1>2, <1>3, <1>4, <1>5, <1>6

LEMMA StepOnShelf == TypeOK /\ [Next]_vars => [Shelf!ShelfNext]_(Shelf!shelfVars)
<1> SUFFICES ASSUME TypeOK, [Next]_vars PROVE Shelf!ShelfNext \/ UNCHANGED Shelf!shelfVars
  OBVIOUS
<1>1. ASSUME NEW s \in Slots, SaveProfile(s) \/ LoadProfile(s)
      PROVE  Shelf!ShelfNext \/ UNCHANGED Shelf!shelfVars
  BY <1>1, SaveOnShelf, LoadOnShelf DEF Shelf!ShelfNext
<1>2. ASSUME NEW s \in Slots, NEW c \in Curves, TransferWrite(s, c)
      PROVE  Shelf!ShelfNext \/ UNCHANGED Shelf!shelfVars
  BY <1>2, TransferOnShelf DEF Shelf!ShelfNext
<1>3. CASE PowerLoss
  BY <1>3, PowerOnShelf DEF Shelf!ShelfNext
<1>4. CASE UNCHANGED flash /\ UNCHANGED <<ram, measuring, running>>
  BY <1>4, FlashIsShelf DEF measuring, Active, Shelf!shelfVars, Slot
<1>5. CASE \/ UNCHANGED vars
           \/ \E s \in Slots : RefuseSave(s)
           \/ \E s \in Slots, p \in {"profiles", "other"} : Show(p, s)
  BY <1>4, <1>5 DEF vars, RefuseSave, Show
<1>6. CASE StartScan \/ StartCheck \/ Finish \/ Outputs \/ \E keep \in BOOLEAN : Answer(keep)
  <2>1. UNCHANGED flash
    BY <1>6 DEF StartScan, StartCheck, Finish, Outputs, Answer
  <2> QED
    BY <1>6, <2>1, OthersOnShelf
<1> QED
  BY <1>1, <1>2, <1>3, <1>5, <1>6 DEF Next

LEMMA InitOnShelf == Init => Shelf!ShelfInit
<1> SUFFICES ASSUME Init PROVE Shelf!ShelfInit
  OBVIOUS
<1>1. \A s \in Slots : Lookup(s) \in Cells
  BY InitTypes, LookupIsCell
<1> QED
  BY <1>1 DEF Init, Active, Cells, Shelf!ShelfInit, Shelf!Readings

-----------------------------------------------------------------------------
(* Theorems.                                                               *)

\* Every variable keeps its type, and a candidate is there exactly in a review.
THEOREM LibraryTypes == Spec => []TypeOK
  BY InitTypes, NextTypes, PTL DEF Spec

\* For any slots and curves, what a load brings is never older than what the user
\* was last told is saved (persist_profile, ProfileStore::write, load_profile).
THEOREM NewestLoads == Spec => []LoadsAreNewest
<1>1. Init => LoadsAreNewest
  BY DEF Init, LoadsAreNewest
<1> QED
  BY <1>1, NextIsExpected, LibraryTypes, PTL DEF Spec

\* The name on the Profiles page is that of the record a load would bring.
THEOREM CurrentLabels == Spec => []LabelIsCurrent
<1>1. Init => LabelInv
  BY DEF Init, LabelInv, LabelIsCurrent, NoNameElsewhere
<1>2. LabelInv => LabelIsCurrent
  BY DEF LabelInv
<1> QED
  BY <1>1, <1>2, NextLabel, LibraryTypes, PTL DEF Spec

\* The two journals with their failed and interrupted writes implement the shelf
\* that CurveBinding relies on.
THEOREM LibraryIsShelf == Spec => ImplementsShelf
  BY InitOnShelf, StepOnShelf, LibraryTypes, PTL DEF Spec, ImplementsShelf, Shelf!ShelfSpec
===============================================================================
