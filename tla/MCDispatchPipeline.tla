------------------------- MODULE MCDispatchPipeline -------------------------
(* Instances of DispatchPipeline for TLC: one session and two to four      *)
(* requests, told apart by their kinds.                                    *)
EXTENDS DispatchPipeline, TLC

CONSTANTS s1, r1, r2, r3, r4, t1, t2, t3, t4

Requests2 == {r1, r2}
Requests3 == {r1, r2, r3}
Requests4 == {r1, r2, r3, r4}

OneSession2 == [r \in Requests2 |-> s1]
OneSession3 == [r \in Requests3 |-> s1]
OneSession4 == [r \in Requests4 |-> s1]

(* Every request has a token of its own.                                   *)
Distinct2 == r1 :> t1 @@ r2 :> t2
Distinct3 == r1 :> t1 @@ r2 :> t2 @@ r3 :> t3
Distinct4 == r1 :> t1 @@ r2 :> t2 @@ r3 :> t3 @@ r4 :> t4
(* The last two requests are retries of one row.                           *)
Retry3 == r1 :> t1 @@ r2 :> t2 @@ r3 :> t2

(* Requests of one kind with tokens of their own are interchangeable.      *)
Alike4 == {[r \in Requests4 \cup {t1, t2, t3, t4} |->
               IF r \in Requests4 THEN p[r]
               ELSE Distinct4[p[CHOOSE q \in Requests4 : Distinct4[q] = r]]] :
           p \in Permutations(Requests4)}
=============================================================================
