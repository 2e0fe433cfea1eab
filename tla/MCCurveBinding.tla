---------------------------- MODULE MCCurveBinding ----------------------------
(* Two routes, one with two outputs, whose roles are the same.             *)
EXTENDS CurveBinding, TLC

CONSTANTS o1, o2, o3

TwoRoutes == {{o1, o2}, {o3}}

Symmetry == Permutations(Curves) \union Permutations({o1, o2})
===============================================================================
