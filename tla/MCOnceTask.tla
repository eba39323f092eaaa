----------------------------- MODULE MCOnceTask -----------------------------
(* Instances of OnceTask for TLC: three slots in two hubs.                 *)
EXTENDS OnceTask, TLC

CONSTANTS f1, f2, f3, h1, h2, t1

TwoHubs == (f1 :> h1) @@ (f2 :> h1) @@ (f3 :> h2)

OfEach == [e \in Event |-> 1]
=============================================================================
