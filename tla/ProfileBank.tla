----------------------------- MODULE ProfileBank -----------------------------
(***************************************************************************)
(* What the profile transfer promises of the saved slots.                  *)
(*                                                                         *)
(* A write that the librarian asks for takes effect as a whole, at most    *)
(* once, and never after one that was asked later has taken effect.  What  *)
(* the librarian has learned of a slot is what the slot holds, until it    *)
(* asks for another write or the instrument saves the slot itself.         *)
(***************************************************************************)
EXTENDS Integers, Sequences

CONSTANTS Slots, Records, Empty, Unknown

VARIABLES
    bank,       \* the record of each slot, or Empty
    known,      \* what the librarian knows of each slot, or Unknown
    open        \* the writes asked for that may still take effect, in order

vars == <<bank, known, open>>

Init ==
    /\ bank \in [Slots -> Records \union {Empty}]
    /\ known = [s \in Slots |-> Unknown]
    /\ open = <<>>

Forget(s) == [known EXCEPT ![s] = Unknown]

Ask(s, r) ==
    /\ open' = Append(open, [slot |-> s, record |-> r])
    /\ known' = Forget(s)
    /\ UNCHANGED bank

Store(i) ==
    /\ known[open[i].slot] = Unknown
    /\ bank' = [bank EXCEPT ![open[i].slot] = open[i].record]
    /\ open' = SubSeq(open, i + 1, Len(open))
    /\ UNCHANGED known

\* Writes asked for up to the i-th one will not take effect any more.
Drop(i) ==
    /\ open' = SubSeq(open, i + 1, Len(open))
    /\ UNCHANGED <<bank, known>>

Learn(s) ==
    /\ known' = [known EXCEPT ![s] = bank[s]]
    /\ UNCHANGED <<bank, open>>

SaveLocally(s, r) ==
    /\ bank' = [bank EXCEPT ![s] = r]
    /\ known' = Forget(s)
    /\ UNCHANGED open

Next ==
    \/ \E s \in Slots, r \in Records : Ask(s, r) \/ SaveLocally(s, r)
    \/ \E i \in 1..Len(open) : Store(i) \/ Drop(i)
    \/ \E s \in Slots : Learn(s)

Spec == Init /\ [][Next]_vars
=============================================================================
