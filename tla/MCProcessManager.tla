-------------------------- MODULE MCProcessManager --------------------------
(* Instances of ProcessManager for TLC: three runs, two of one repository. *)
EXTENDS ProcessManager, TLC

CONSTANTS r1, r2, r3, p1, p2

TwoRepos == (r1 :> p1) @@ (r2 :> p1) @@ (r3 :> p2)
OneRepo == (r1 :> p1) @@ (r2 :> p1)

SameRepo == Permutations({r1, r2})
=============================================================================
