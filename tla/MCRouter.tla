------------------------------ MODULE MCRouter ------------------------------
(***************************************************************************)
(* Model values and sets for checking Router.                              *)
(***************************************************************************)
EXTENDS Router, TLC

CONSTANTS p1, p2, p3, g0, g1, r1, r2

TwoProcs == {p1, p2}
ThreeProcs == {p1, p2, p3}
TwoBuilders == {g0, g1}
OneRoute == {r1}
TwoRoutes == {r1, r2}

(* Registration as the documentation allows it: everything but a retained  *)
(* Builder, while no request is in flight.                                 *)
Documented == Kinds \ {"builderUse"}
Nothing == {}
OnlyStale == {"stale"}

(* With the retained Builder too: only Coherent depends on leaving it alone.*)
EveryKind == Kinds

Symmetry == Permutations(ThreeProcs) \cup Permutations(TwoRoutes)
=============================================================================
