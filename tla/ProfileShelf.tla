----------------------------- MODULE ProfileShelf -----------------------------
(***************************************************************************)
(* What the stored profiles promise to the rest of the instrument: a shelf *)
(* of slots next to the one accepted curve in RAM.  A slot changes alone,  *)
(* and only while nothing plays and nothing is measured; it then holds the *)
(* curve that was written, what it held before, or nothing that can be     *)
(* read.  The curve in RAM is one that was accepted or one that was read.  *)
(***************************************************************************)
CONSTANTS Slots, Curves, None, Unreadable

ASSUME ShelfAssumption ==
    /\ None \notin Curves /\ Unreadable \notin Curves /\ None # Unreadable

VARIABLES
    shelf,      \* what reading each slot would give
    ram,        \* Live::profile
    busy,       \* Live::active
    running     \* MultiQuant::running

shelfVars == <<shelf, ram, busy, running>>

Readings == Curves \union {None, Unreadable}

ShelfInit ==
    /\ shelf \in [Slots -> Readings]
    /\ ram = None /\ busy = FALSE /\ running = FALSE

Write(s, c) ==
    /\ ~busy /\ ~running
    /\ \E r \in {c, Unreadable} : shelf' = [shelf EXCEPT ![s] = r]

Save(s) == ram # None /\ Write(s, ram) /\ UNCHANGED <<ram, busy, running>>

Import(s, c) == Write(s, c) /\ UNCHANGED <<ram, busy, running>>

Load(s) ==
    /\ ~busy /\ ~running
    /\ shelf[s] \in Curves
    /\ ram' = shelf[s]
    /\ UNCHANGED <<shelf, busy, running>>

Operate == busy' = ~busy /\ UNCHANGED <<shelf, ram, running>>

Accept(c) == ~busy /\ ram' = c /\ UNCHANGED <<shelf, busy, running>>

Play == running' = ~running /\ UNCHANGED <<shelf, ram, busy>>

\* Power may be lost while a slot is written.
Restart ==
    /\ ram' = None /\ busy' = FALSE /\ running' = FALSE
    /\ \/ UNCHANGED shelf
       \/ \E s \in Slots, c \in Curves : Write(s, c) /\ shelf'[s] = c

ShelfNext ==
    \/ \E s \in Slots : Save(s) \/ Load(s) \/ \E c \in Curves : Import(s, c)
    \/ \E c \in Curves : Accept(c)
    \/ Operate \/ Play \/ Restart

ShelfSpec == ShelfInit /\ [][ShelfNext]_shelfVars
===============================================================================
