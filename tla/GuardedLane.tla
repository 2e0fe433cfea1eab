----------------------------- MODULE GuardedLane -----------------------------
(***************************************************************************)
(* What a guarded output lane is to the software that drives it, as        *)
(* operators on values: a staged command that waits for the DAC, the       *)
(* command whose voltage it shows, and a fault latch.  A disable takes     *)
(* effect at once; whatever the gateware still remembers of it, the lane   *)
(* is silent and the next enabled command replaces it.                     *)
(*                                                                         *)
(* OutputGuards checks these operators against the clocked gateware.       *)
(***************************************************************************)
CONSTANTS
    Tokens,     \* the tokens of a command, 8 bits wide in the code
    Values,     \* the voltages it may ask for, all within the guard's limits
    Nothing     \* no command, no reading

Command == [token : Tokens, value : Values]

ASSUME NothingAssumption == Nothing \notin Values \union Command

Guard == [staged : Command \union {Nothing},
          shows : Command \union {Nothing},
          fault : BOOLEAN]

Disabled == [staged |-> Nothing, shows |-> Nothing, fault |-> FALSE]

\* The watchdog ran out: silent until a disable.
Tripped == [staged |-> Nothing, shows |-> Nothing, fault |-> TRUE]

\* An enabled command is lost when the frame is frozen or the latch is set.
Written(g, c, frozen) ==
    IF frozen \/ g.fault THEN g ELSE [g EXCEPT !.staged = c]

\* The DAC takes a sample of a committed frame.
Sampled(g) ==
    IF g.staged = Nothing THEN g
    ELSE [Disabled EXCEPT !.shows = g.staged]

\* status & 511 = token | 256
Acks(g, token) == g.shows # Nothing /\ g.shows.token = token
=============================================================================
