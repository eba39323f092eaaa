--------------------------- MODULE MCRoutineQueue ---------------------------
(* Instances of RoutineQueue for TLC: two sessions with two cycles each.   *)
EXTENDS RoutineQueue, TLC

CONSTANTS s1, s2, c1, c2, c3, c4, h1, h2, x1, x2

Cycles == {c1, c2, c3, c4}
Sessions == c1 :> s1 @@ c2 :> s1 @@ c3 :> s2 @@ c4 :> s2
(* c4 is a deploy fix, the others are builds.                              *)
Mixed == c1 :> 0 @@ c2 :> 0 @@ c3 :> 0 @@ c4 :> 10

Alike == Permutations({h1, h2}) \cup Permutations({x1, x2})
=============================================================================
