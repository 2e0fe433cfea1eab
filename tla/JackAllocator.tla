---------------------------- MODULE JackAllocator ----------------------------
(***************************************************************************)
(* What jack ownership promises, without its mechanism.  Owners acquire    *)
(* sets of jacks that nobody else holds, as a whole and only when they hold*)
(* nothing yet.  A jack carries a voltage (is live) only while some owner  *)
(* holds it, and is silent in the very step that gives it back.            *)
(***************************************************************************)
CONSTANTS Owners, Jacks

VARIABLES
    grant,      \* the jacks each owner holds
    live        \* the jacks the hardware is driving

vars == <<grant, live>>

JacksOf(os) == UNION {grant[o] : o \in os}

Init ==
    /\ grant = [o \in Owners |-> {}]
    /\ live = {}

Acquire(o, S) ==
    /\ grant[o] = {}
    /\ S \intersect JacksOf(Owners) = {}
    /\ grant' = [grant EXCEPT ![o] = S]
    /\ UNCHANGED live

\* Some owners leave together; what they held falls silent, and so may others.
Release(os) ==
    /\ grant' = [o \in Owners |-> IF o \in os THEN {} ELSE grant[o]]
    /\ live' \in SUBSET (live \ JacksOf(os))

Energise ==
    /\ live' \in SUBSET JacksOf(Owners)
    /\ live \subseteq live'
    /\ UNCHANGED grant

Next ==
    \/ \E o \in Owners, S \in SUBSET Jacks : Acquire(o, S)
    \/ \E os \in SUBSET Owners : Release(os)
    \/ Energise

Spec == Init /\ [][Next]_vars
=============================================================================
