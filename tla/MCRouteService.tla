--------------------------- MODULE MCRouteService ---------------------------
(* Small instances of RouteService for TLC.                                *)
EXTENDS RouteService, TLC

\* The jacks and the routes are interchangeable; the outputs are not, because
\* they belong to different half batches.
Symmetry == Permutations(Inputs) \union Permutations(Routes)
=============================================================================
