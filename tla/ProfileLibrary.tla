---------------------------- MODULE ProfileLibrary ----------------------------
(***************************************************************************)
(* Calibration profiles in flash, the accepted one in RAM, and the name of *)
(* a saved one on the Profiles page.                                       *)
(*                                                                         *)
(* A slot has a record in the journal for profiles and, from an older      *)
(* firmware, perhaps one in the journal that the menu settings also use;   *)
(* that one is only read, and only when the other has no record of the     *)
(* slot.  A record is written by the panel or by the librarian; the write  *)
(* may fail and leave what was there, the new record or one that cannot be *)
(* read, and power may be lost in it.                                      *)
(*                                                                         *)
(* Every action is one request of a foreground turn that reads or writes   *)
(* these records.  The records of other kinds in the same flash (settings, *)
(* setups, scale notes, what a librarian reads) are not modelled, nor is   *)
(* what a flash access costs.  A record is its curve: name, route and      *)
(* quality are stored with it.  The flash is there, the menu claims none   *)
(* of its keys, the reference is off.  The journal is taken at its word: a *)
(* power loss in a write leaves the old record or the new one, and no      *)
(* other slot's record changes.                                            *)
(***************************************************************************)
CONSTANTS Slots, Curves, None, Unreadable

ASSUME LibraryAssumption ==
    /\ None \notin Curves /\ Unreadable \notin Curves /\ None # Unreadable
    /\ None \notin Slots

VARIABLES
    expanded,   \* the journal of profiles: expanded_window
    legacy,     \* the records of the older journal
    ram,        \* Live::profile
    cal,        \* the calibration's stage
    pending,    \* the candidate under review, pending_profile or refinement
    running,    \* MultiQuant::running
    page,       \* whether Profiles is shown
    preview,    \* preview_slot, None for 0
    label,      \* the record whose name saved_profile_name shows, None while
                \* no slot is previewed (the name is then never shown)
    changed,    \* ScaleNames::cal_changed
    possible    \* history: what each slot may hold, by what the user was told

flash == <<expanded, legacy, possible>>
measuring == <<cal, pending>>
shown == <<page, preview, label, changed>>
vars == <<flash, ram, measuring, running, shown>>

Cells == Curves \union {None, Unreadable}

\* Mutant: an unreadable record falls back to the older journal as well.
FallsBackAlways(s) == IF expanded[s] \in Curves THEN expanded[s] ELSE legacy[s]

\* Only an absent record falls back.
Lookup(s) == IF expanded[s] = None THEN legacy[s] ELSE expanded[s]

Active == cal \in {"scan", "check"}

-----------------------------------------------------------------------------
(* The name on the Profiles page.                                          *)

Preview(p) == IF p # "profiles" \/ changed THEN None ELSE preview

\* A UI turn without a save or a load: page p is shown, with slot s selected.
Show(p, s) ==
    /\ changed' = FALSE
    /\ page' = p
    /\ IF p # "profiles"
       THEN /\ preview' = Preview(p)
            /\ label' = IF Preview(p) = None THEN None ELSE label
       ELSE /\ preview' = s
            /\ label' = IF Preview(p) = s THEN label ELSE Lookup(s)
    /\ UNCHANGED <<flash, ram, measuring, running>>

-----------------------------------------------------------------------------
(* Writing.                                                                *)

\* What a failed or interrupted store leaves behind.
Left(s, c) == {c, Unreadable, expanded[s]}

Stored(s, r, told) ==
    /\ expanded' = [expanded EXCEPT ![s] = r]
    /\ possible' = [possible EXCEPT ![s] = told]
    /\ UNCHANGED legacy

Unsure(s, c) == possible[s] \union {c, Unreadable}

\* Mutant: outputs do not hold up a save.
SavesWhileRunning == ~Active /\ cal = "idle" /\ ram # None

Saveable == ~Active /\ ~running /\ cal = "idle" /\ ram # None

\* Mutant: a store that failed still counts as saved.
NoReadBack(s, r) == r # Unreadable

\* The read-back of a save.
Verified(s, r) == r = ram

SaveProfile(s) ==
    /\ page = "profiles"
    /\ Saveable
    /\ \E r \in Left(s, ram) :
        /\ Stored(s, r, IF Verified(s, r) THEN {ram} ELSE Unsure(s, ram))
        /\ label' = Lookup(s)'
    /\ preview' = s /\ changed' = FALSE
    /\ UNCHANGED <<ram, measuring, running, page>>

\* A save that is refused still reads the name again.
RefuseSave(s) ==
    /\ page = "profiles"
    /\ ~Saveable
    /\ label' = Lookup(s)
    /\ preview' = s /\ changed' = FALSE
    /\ UNCHANGED <<flash, ram, measuring, running, page>>

\* Mutant: the librarian's write does not refresh the name.
KeepsLabel == UNCHANGED changed

MarkChanged == changed' = TRUE

\* ProfileStore::write; the exchange reports the outcome to the librarian.
TransferWrite(s, c) ==
    /\ ~Active /\ ~running
    /\ \E r \in Left(s, c), ok \in BOOLEAN :
        /\ ok => r = c
        /\ Stored(s, r, IF ok THEN {c} ELSE Unsure(s, c))
    /\ MarkChanged
    /\ UNCHANGED <<ram, measuring, running, page, preview, label>>

-----------------------------------------------------------------------------
(* Loading, and what else changes the profile in RAM.                      *)

Loadable == ~Active /\ ~running /\ cal # "reviewScan"

\* Mutant: the refined candidate outlives the profile it was made from.
KeepsRefined == cal' = "idle" /\ UNCHANGED pending

\* Live::recall ends the review of a refined candidate.
Recalled == cal' = "idle" /\ pending' = None

\* A turn that loads brings the name up to date first.
LoadProfile(s) ==
    /\ page = "profiles"
    /\ Loadable
    /\ Lookup(s) \in Curves
    /\ ram' = Lookup(s) /\ Recalled
    /\ label' = IF Preview("profiles") = s THEN label ELSE Lookup(s)
    /\ preview' = s /\ changed' = FALSE
    /\ UNCHANGED <<flash, running, page>>

\* Starting a scan drops the candidate of the last; a refined one must be
\* answered first.
StartScan ==
    /\ page # "profiles"
    /\ cal \in {"idle", "reviewScan"}
    /\ cal' = "scan" /\ pending' = None
    /\ UNCHANGED <<flash, ram, running, shown>>

StartCheck ==
    /\ page # "profiles"
    /\ cal = "idle" /\ ram # None
    /\ cal' = "check"
    /\ UNCHANGED <<flash, ram, pending, running, shown>>

Finish ==
    /\ Active
    /\ \/ cal' = "idle" /\ UNCHANGED pending
       \/ /\ cal' = IF cal = "scan" THEN "reviewScan" ELSE "reviewRefined"
          /\ pending' \in Curves
    /\ UNCHANGED <<flash, ram, running, shown>>

Answer(keep) ==
    /\ page # "profiles"
    /\ cal \in {"reviewScan", "reviewRefined"}
    /\ cal' = "idle" /\ pending' = None
    /\ ram' = IF keep THEN pending ELSE ram
    /\ UNCHANGED <<flash, running, shown>>

\* START and STOP of the routes, and the interrupt's stops.
Outputs == running' = ~running /\ UNCHANGED <<flash, ram, measuring, shown>>

Restarted ==
    /\ ram' = None /\ cal' = "idle" /\ pending' = None /\ running' = FALSE
    /\ page' = "other" /\ preview' = None /\ label' = None /\ changed' = FALSE

\* Power is lost, alone or in a write that had reached flash or not; the
\* journal's promise that no third outcome exists is assumed, not derived.
PowerLoss ==
    /\ Restarted
    /\ \/ UNCHANGED flash
       \/ \E s \in Slots, c \in Curves :
            /\ ~Active /\ ~running
            /\ \E r \in {c, expanded[s]} : Stored(s, r, possible[s] \union {c})

Init ==
    /\ expanded \in [Slots -> Cells] /\ legacy \in [Slots -> Cells]
    /\ possible = [s \in Slots |-> {Lookup(s)}]
    /\ ram = None /\ cal = "idle" /\ pending = None /\ running = FALSE
    /\ page = "other" /\ preview = None /\ label = None /\ changed = FALSE

Next ==
    \/ \E s \in Slots : SaveProfile(s) \/ RefuseSave(s) \/ LoadProfile(s)
    \/ \E s \in Slots, c \in Curves : TransferWrite(s, c)
    \/ \E s \in Slots, p \in {"profiles", "other"} : Show(p, s)
    \/ StartScan \/ StartCheck \/ Finish \/ \E keep \in BOOLEAN : Answer(keep)
    \/ Outputs \/ PowerLoss

Spec == Init /\ [][Next]_vars

-----------------------------------------------------------------------------

\* The variables hold values the firmware can hold; a candidate is there
\* exactly in a review.
TypeOK ==
    /\ expanded \in [Slots -> Cells] /\ legacy \in [Slots -> Cells]
    /\ possible \in [Slots -> SUBSET Cells]
    /\ ram \in Curves \union {None}
    /\ cal \in {"idle", "scan", "check", "reviewScan", "reviewRefined"}
    /\ pending \in Curves \union {None}
    /\ pending # None <=> cal \in {"reviewScan", "reviewRefined"}
    /\ running \in BOOLEAN /\ changed \in BOOLEAN
    /\ page \in {"profiles", "other"}
    /\ preview \in Slots \union {None}
    /\ label \in Cells

\* A slot reads as the record of which the user was last told "PROFILE SAVED";
\* after a failed or interrupted save as one of the records that may have
\* been stored since, and never as an older one: what the older journal kept
\* does not come back when the newer record is damaged (load_profile).
LoadsAreNewest == \A s \in Slots : Lookup(s) \in possible[s]

\* While the Profiles page is up to date with the librarian's writes, the
\* name it shows is that of the record a load would bring (preview_profile).
LabelIsCurrent == page = "profiles" /\ ~changed => preview # None /\ label = Lookup(preview)

Shelf == INSTANCE ProfileShelf WITH
    shelf <- [s \in Slots |-> Lookup(s)], busy <- Active

\* The stored profiles are a shelf whose slots change one by one, at rest.
ImplementsShelf == Shelf!ShelfSpec
===============================================================================
