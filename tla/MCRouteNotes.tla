---------------------------- MODULE MCRouteNotes ----------------------------
(* Two scales and the settings of four outputs for TLC.                     *)
EXTENDS RouteNotes

CONSTANTS a, b, c, d, rooted, rootless

\* A narrow and a wide step; the same steps in a pattern without its root.
MCDegrees == [s \in {rooted, rootless} |-> IF s = rooted THEN <<0, 20>> ELSE <<20, 40>>]
MCPeriod == [s \in {rooted, rootless} |-> 60]

Nearest == [quantize |-> TRUE, equal |-> FALSE, scale |-> rootless,
            zero |-> 0, root |-> -10, transpose |-> -1]
Spread == [Nearest EXCEPT !.equal = TRUE, !.scale = rooted, !.zero = 9, !.root = 0]
Unquantized == [Nearest EXCEPT !.quantize = FALSE]

\* Two outputs alike, one in each half batch, beside one that is not quantized and one
\* distributed over bins; the higher CV is within the hysteresis of these three.
MCChannels ==
    {[n \in {a, b, c, d} |-> IF n \in {a, c} THEN Nearest
                             ELSE IF n = b THEN Unquantized ELSE Spread]}
=============================================================================
