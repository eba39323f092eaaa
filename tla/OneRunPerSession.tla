-------------------------- MODULE OneRunPerSession --------------------------
(***************************************************************************)
(* What the dispatch pipeline and the routine-cycle queue promise their    *)
(* callers (the headers of hub/src/dispatch/session-queue.ts and of        *)
(* hub/src/orchestrator/queue.ts): a request handed in waits, runs alone   *)
(* on its session, and is done; a run may be put back to wait (its session *)
(* was offline), and waiting requests may be given up.  Nothing is said of *)
(* queues, hooks, gates, buffers, transactions or locks.                   *)
(***************************************************************************)
CONSTANTS Request, SessionOf

VARIABLE state

Init == state = [r \in Request |-> "idle"]

Submit(r) ==
    /\ state[r] = "idle"
    /\ state' = [state EXCEPT ![r] = "waiting"]

(* Runs begin, on sessions of their own where no request runs.             *)
Begin(R) ==
    /\ \A r \in R : state[r] = "waiting"
    /\ \A r \in R : \A q \in Request :
          SessionOf[q] = SessionOf[r] => state[q] # "running" /\ (q \in R => q = r)
    /\ state' = [r \in Request |-> IF r \in R THEN "running" ELSE state[r]]

(* A run ends for good, or goes back to wait.                              *)
End(r) ==
    /\ state[r] = "running"
    /\ \E outcome \in {"done", "waiting"} : state' = [state EXCEPT ![r] = outcome]

(* Waiting requests are skipped, dropped, superseded or expired.           *)
GiveUp(R) ==
    /\ \A r \in R : state[r] = "waiting"
    /\ state' = [r \in Request |-> IF r \in R THEN "done" ELSE state[r]]

Next ==
    \/ \E r \in Request : Submit(r) \/ End(r)
    \/ \E R \in SUBSET Request : Begin(R) \/ GiveUp(R)

Spec == Init /\ [][Next]_state
=============================================================================
