--------------------------- MODULE MCPlaybackLink ---------------------------
(* Small instances of PlaybackLink for TLC.                                *)
EXTENDS PlaybackLink, TLC

\* Readings are interchangeable; lanes are not, they belong to half batches.
Symmetry == Permutations(Values)
=============================================================================
