---------------------------- MODULE Reservations ----------------------------
(***************************************************************************)
(* The jack bookkeeping of INTONO, as operators on values.                 *)
(*                                                                         *)
(* ownership.rs keeps one row (input mask, output mask) for each owner: one*)
(* scan (Calibration), one tuning reference (Reference), one row per route *)
(* group.  route_group.rs keeps the layout the user edits: for each route  *)
(* one source jack and a set of destination jacks.  A mask is a set of     *)
(* jacks here, so the rejection of bits above the fourth jack is the type. *)
(***************************************************************************)
EXTENDS FiniteSets

CONSTANTS
    Inputs,       \* the audio/CV input jacks
    Outputs,      \* the CV output jacks
    Routes,       \* the route groups; route r owns the row Quant(r)
    Calibration,  \* the owner of the one profile-building operation
    Reference     \* the owner of the tuning-reference voltage

ASSUME JacksAssumption ==
    /\ Inputs \intersect Outputs = {}
    /\ Calibration # Reference
    /\ Calibration \notin Routes
    /\ Reference \notin Routes

Owners == Routes \union {Calibration, Reference}

Row == [inputs : SUBSET Inputs, outputs : SUBSET Outputs]
NoJacks == [inputs |-> {}, outputs |-> {}]
NoClaims == [o \in Owners |-> NoJacks]

Singleton(S) == \E x \in S : S = {x}

-----------------------------------------------------------------------------
(* Reservations: claims is a function from Owners to Row.                  *)

Held(claims, o) == claims[o] # NoJacks

\* The reference drives an output and listens to nothing; every other owner
\* listens to exactly one input and drives at least one output.
WellFormed(o, ins, outs) ==
    IF o = Reference
    THEN ins = {} /\ Singleton(outs)
    ELSE Singleton(ins) /\ outs # {}

Overlaps(row, ins, outs) ==
    \/ row.inputs \intersect ins # {}
    \/ row.outputs \intersect outs # {}

\* Mutant: a claim is compared with the outputs of the other rows only.
CanClaimByOutputs(claims, o, ins, outs) ==
    /\ WellFormed(o, ins, outs)
    /\ \A p \in Owners \ {o} : claims[p].outputs \intersect outs = {}

\* Reservations::claim.  A second claim of a held row succeeds only when it
\* asks for exactly what the row holds, and changes nothing.
CanClaim(claims, o, ins, outs) ==
    /\ WellFormed(o, ins, outs)
    /\ IF Held(claims, o)
       THEN claims[o] = [inputs |-> ins, outputs |-> outs]
       ELSE \A p \in Owners : ~Overlaps(claims[p], ins, outs)

Claimed(claims, o, ins, outs) ==
    [claims EXCEPT ![o] = [inputs |-> ins, outputs |-> outs]]

\* Releasing a set of owners, one Reservations::release each.
Released(claims, gone) ==
    [o \in Owners |-> IF o \in gone THEN NoJacks ELSE claims[o]]

\* Reservations::free_mask: the jacks no OTHER owner has claimed.
FreeInputs(claims, o) ==
    {i \in Inputs : \A p \in Owners \ {o} : i \notin claims[p].inputs}

FreeOutputs(claims, o) ==
    {n \in Outputs : \A p \in Owners \ {o} : n \notin claims[p].outputs}

-----------------------------------------------------------------------------
(* Layout: groups is a function from Routes to [input, outputs].           *)

Layouts == [Routes -> [input : Inputs, outputs : SUBSET Outputs]]

\* Layout::valid.  Empty routes reserve no source.
LayoutValid(groups) ==
    \A r, s \in Routes :
        (r # s /\ groups[r].outputs # {} /\ groups[s].outputs # {})
        => /\ groups[r].outputs \intersect groups[s].outputs = {}
           /\ groups[r].input # groups[s].input

Assigned(groups) == UNION {groups[r].outputs : r \in Routes}

OwnedByOther(groups, r, n) ==
    \E s \in Routes \ {r} : n \in groups[s].outputs

SharesSource(groups, r) ==
    \E s \in Routes \ {r} :
        groups[s].outputs # {} /\ groups[s].input = groups[r].input

\* Layout::available: free of other owners' claims and of the jacks that
\* another configured route names, running or not.
AvailableInput(groups, claims, r, i) ==
    /\ i \in FreeInputs(claims, r)
    /\ \A s \in Routes \ {r} : groups[s].outputs # {} => groups[s].input # i

AvailableOutput(groups, claims, r, n) ==
    n \in FreeOutputs(claims, r) /\ ~OwnedByOther(groups, r, n)

\* Layout::assign.  Adding is refused when another route has the output or a
\* configured route has this route's source; removing never is.
Assign(groups, r, n, enabled) ==
    IF ~enabled
    THEN [groups EXCEPT ![r].outputs = @ \ {n}]
    ELSE IF OwnedByOther(groups, r, n) \/ SharesSource(groups, r)
         THEN groups
         ELSE [groups EXCEPT ![r].outputs = @ \union {n}]
=============================================================================
