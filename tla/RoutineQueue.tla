---------------------------- MODULE RoutineQueue ----------------------------
(***************************************************************************)
(* The hub-wide queue of orchestrator cycles (hub/src/orchestrator/        *)
(* queue.ts) and the due-scan that feeds it (controller.ts).  The queue is *)
(* a database table; every hub process scans for due sessions, and claims  *)
(* pending cycles in a transaction, runs them, and releases them.          *)
(*                                                                         *)
(* A statement of a transaction sees what was committed when it began (the *)
(* database's default isolation), its own writes, and no others; a picked  *)
(* row is locked until the transaction ends.  Each statement is an action. *)
(***************************************************************************)
EXTENDS Integers, FiniteSets

CONSTANTS
    Session,
    Cycle,        \* what can be enqueued: one row of routine_queue each
    SessionOf,    \* SessionOf[c]: session_id
    PriorityOf,   \* PriorityOf[c]: priority, a higher one drains first
    Hub,          \* hub processes whose orchestrator is enabled
    Scan,         \* passes of the due-scan, of one hub or of several
    Cap,          \* REMO_ORCHESTRATOR_GLOBAL_CONCURRENCY
    DbFails,      \* may a statement of a claim or of a release fail?
    MaxRestarts,  \* bound: how often hubs restart
    None

ASSUME RoutineAssumption ==
    /\ SessionOf \in [Cycle -> Session]
    /\ PriorityOf \in [Cycle -> Int]
    /\ Cap \in Nat \ {0} /\ MaxRestarts \in Nat
    /\ DbFails \in BOOLEAN
    /\ None \notin Session \cup Cycle
    /\ IsFiniteSet(Cycle)

VARIABLES
    status,   \* status[c]: the committed status of the row
    at,       \* at[c]: enqueued_at, as a rank
    scan,     \* scan[x]: the session whose due rows pass x is computing
    drain,    \* drain[h]: where drainOnce() of hub h is suspended
    slots,    \* slots[h]: how many rows its claim may still take
    picked,   \* picked[h]: the row its claim has locked and not yet promoted
    claimed,  \* claimed[h]: the rows its claim has promoted, uncommitted
    work,     \* work[h]: its cycles, each with its runner's state
    restarts

vars == <<status, at, scan, drain, slots, picked, claimed, work, restarts>>
claimVars == <<slots, picked, claimed>>

Status == {"none", "pending", "running", "done", "failed"}
Phase == {"run", "done", "failed"}

TypeOK ==
    /\ status \in [Cycle -> Status]
    /\ at \in [Cycle -> Nat]
    /\ scan \in [Scan -> Session \cup {None}]
    /\ drain \in [Hub -> {"idle", "picking", "promoting", "running"}]
    /\ slots \in [Hub -> 0 .. Cap]
    /\ picked \in [Hub -> Cycle \cup {None}]
    /\ claimed \in [Hub -> SUBSET Cycle]
    /\ work \in [Hub -> SUBSET (Cycle \X Phase)]
    /\ restarts \in 0 .. MaxRestarts

Init ==
    /\ status = [c \in Cycle |-> "none"]
    /\ at = [c \in Cycle |-> 0]
    /\ scan = [x \in Scan |-> None]
    /\ drain = [h \in Hub |-> "idle"]
    /\ slots = [h \in Hub |-> 0]
    /\ picked = [h \in Hub |-> None]
    /\ claimed = [h \in Hub |-> {}]
    /\ work = [h \in Hub |-> {}]
    /\ restarts = 0

-----------------------------------------------------------------------------
(* The due-scan: a session without an active cycle has its due rows        *)
(* computed, and a cycle enqueued if there are any.                        *)

Running == {c \in Cycle : status[c] = "running"}
HasActiveCycle(s) == \E c \in Cycle : SessionOf[c] = s /\ status[c] \in {"pending", "running"}

CheckActive(x, s) ==
    /\ scan[x] = None
    /\ ~HasActiveCycle(s)
    /\ scan' = [scan EXCEPT ![x] = s]
    /\ UNCHANGED <<status, at, drain, claimVars, work, restarts>>

EnqueueCycle(x, c) ==
    /\ scan[x] = SessionOf[c]
    /\ status[c] = "none"
    /\ status' = [status EXCEPT ![c] = "pending"]
    /\ at' = [at EXCEPT ![c] = Cardinality({d \in Cycle : status[d] # "none"})]
    /\ scan' = [scan EXCEPT ![x] = None]
    /\ UNCHANGED <<drain, claimVars, work, restarts>>

(* Nothing is due, or the scan of the session failed.                      *)
SkipSession(x) ==
    /\ scan[x] # None
    /\ scan' = [scan EXCEPT ![x] = None]
    /\ UNCHANGED <<status, at, drain, claimVars, work, restarts>>

-----------------------------------------------------------------------------
(* claimCycles(): one transaction.                                         *)

(* Variant: the claim may take as many rows as the cap allows in all.      *)
BeginClaimWhole(h) ==
    /\ drain[h] = "idle"
    /\ Cardinality(Running) < Cap
    /\ slots' = [slots EXCEPT ![h] = Cap]
    /\ drain' = [drain EXCEPT ![h] = "picking"]
    /\ UNCHANGED <<status, at, scan, picked, claimed, work, restarts>>

(* The running rows are counted: the claim may take what the cap leaves.   *)
BeginClaim(h) ==
    /\ drain[h] = "idle"
    /\ Cardinality(Running) < Cap
    /\ slots' = [slots EXCEPT ![h] = Cap - Cardinality(Running)]
    /\ drain' = [drain EXCEPT ![h] = "picking"]
    /\ UNCHANGED <<status, at, scan, picked, claimed, work, restarts>>

(* Rows locked by the claim of another hub are skipped, and sessions with  *)
(* a running row that this claim can see.                                  *)
Locked(h) == UNION {claimed[g] \cup {picked[g]} : g \in Hub \ {h}}
Busy(h) == {SessionOf[c] : c \in Running \cup claimed[h]}
(* Variant: a failed cycle is taken again.                                 *)
EligibleAgain(h) ==
    {c \in Cycle \ Locked(h) :
        status[c] \in {"pending", "failed"} /\ c \notin claimed[h] /\ SessionOf[c] \notin Busy(h)}

Eligible(h) ==
    {c \in Cycle \ Locked(h) :
        status[c] = "pending" /\ c \notin claimed[h] /\ SessionOf[c] \notin Busy(h)}

(* Variant: enqueued_at DESC.                                              *)
BeforeNewest(c, d) ==
    \/ PriorityOf[c] > PriorityOf[d]
    \/ PriorityOf[c] = PriorityOf[d] /\ at[c] > at[d]

(* ORDER BY priority DESC, enqueued_at ASC                                 *)
Before(c, d) ==
    \/ PriorityOf[c] > PriorityOf[d]
    \/ PriorityOf[c] = PriorityOf[d] /\ at[c] < at[d]

(* Variant: one row more than there are slots.                             *)
PickOneMore(h) ==
    /\ drain[h] = "picking"
    /\ slots[h] >= 0
    /\ \E c \in Eligible(h) :
          /\ \A d \in Eligible(h) \ {c} : Before(c, d)
          /\ picked' = [picked EXCEPT ![h] = c]
    /\ drain' = [drain EXCEPT ![h] = "promoting"]
    /\ UNCHANGED <<status, at, scan, slots, claimed, work, restarts>>

Pick(h) ==
    /\ drain[h] = "picking"
    /\ slots[h] > 0
    /\ \E c \in Eligible(h) :
          /\ \A d \in Eligible(h) \ {c} : Before(c, d)
          /\ picked' = [picked EXCEPT ![h] = c]
    /\ drain' = [drain EXCEPT ![h] = "promoting"]
    /\ UNCHANGED <<status, at, scan, slots, claimed, work, restarts>>

(* The unique index on the running rows of a session makes the UPDATE wait *)
(* for every claim that has promoted another row of the session, and fail  *)
(* if such a row is committed by then.                                     *)
WaitsFor(h) ==
    {g \in Hub \ {h} : \E c \in claimed[g] : SessionOf[c] = SessionOf[picked[h]]}
(* Variant: the index is not unique.                                       *)
NoIndexConflict(h) == FALSE

IndexConflict(h) == \E c \in Running : SessionOf[c] = SessionOf[picked[h]]

Promote(h) ==
    /\ drain[h] = "promoting"
    /\ WaitsFor(h) = {} /\ ~IndexConflict(h)
    /\ claimed' = [claimed EXCEPT ![h] = @ \cup {picked[h]}]
    /\ picked' = [picked EXCEPT ![h] = None]
    /\ slots' = [slots EXCEPT ![h] = @ - 1]
    /\ drain' = [drain EXCEPT ![h] = "picking"]
    /\ UNCHANGED <<status, at, scan, work, restarts>>

(* Claims that wait for each other: the database makes one of them fail.   *)
Deadlocked(h) ==
    \E S \in SUBSET Hub :
        /\ h \in S
        /\ \A g \in S : drain[g] = "promoting" /\ WaitsFor(g) \cap S # {}

(* A failed statement aborts the transaction: claimCycles() catches the    *)
(* error and goes on, but the next statement is refused, everything the    *)
(* claim had promoted is rolled back, and the drain ends.                  *)
RollBack(h) ==
    /\ claimed' = [claimed EXCEPT ![h] = {}]
    /\ picked' = [picked EXCEPT ![h] = None]
    /\ slots' = [slots EXCEPT ![h] = 0]
    /\ drain' = [drain EXCEPT ![h] = "idle"]
    /\ UNCHANGED <<status, at, scan, work, restarts>>

PromoteFails(h) ==
    /\ drain[h] = "promoting"
    /\ (WaitsFor(h) = {} /\ IndexConflict(h)) \/ Deadlocked(h)
    /\ RollBack(h)

ClaimFails(h) ==
    /\ DbFails
    /\ drain[h] \in {"picking", "promoting"}
    /\ RollBack(h)

(* No slot or no row is left: commit, and start a runner for every row.    *)
Commit(h) ==
    /\ drain[h] = "picking"
    /\ slots[h] = 0 \/ Eligible(h) = {}
    /\ status' = [c \in Cycle |-> IF c \in claimed[h] THEN "running" ELSE status[c]]
    /\ work' = [work EXCEPT ![h] = claimed[h] \X {"run"}]
    /\ claimed' = [claimed EXCEPT ![h] = {}]
    /\ slots' = [slots EXCEPT ![h] = 0]
    /\ drain' = [drain EXCEPT ![h] = "running"]
    /\ UNCHANGED <<at, scan, picked, restarts>>

-----------------------------------------------------------------------------
(* drainOnce(), after the claim: the runners, and the releases.            *)

SettleRunner(h, c) ==
    /\ <<c, "run">> \in work[h]
    /\ \E p \in {"done", "failed"} :
          work' = [work EXCEPT ![h] = (@ \ {<<c, "run">>}) \cup {<<c, p>>}]
    /\ UNCHANGED <<status, at, scan, drain, claimVars, restarts>>

ReleaseCycle(h, c) ==
    \E p \in {"done", "failed"} :
        /\ <<c, p>> \in work[h]
        /\ status' = [status EXCEPT ![c] = IF @ = "running" THEN p ELSE @]
        /\ work' = [work EXCEPT ![h] = @ \ {<<c, p>>}]
        /\ UNCHANGED <<at, scan, drain, claimVars, restarts>>

(* A failed release as 'done' is tried again as 'failed'; a failed release *)
(* as 'failed' is swallowed.                                               *)
ReleaseFails(h, c) ==
    /\ DbFails
    /\ \/ /\ <<c, "done">> \in work[h]
          /\ work' = [work EXCEPT ![h] = (@ \ {<<c, "done">>}) \cup {<<c, "failed">>}]
       \/ /\ <<c, "failed">> \in work[h]
          /\ work' = [work EXCEPT ![h] = @ \ {<<c, "failed">>}]
    /\ UNCHANGED <<status, at, scan, drain, claimVars, restarts>>

(* Variant: the re-entrancy flag is not cleared.                           *)
EndDrainFlagged(h) ==
    /\ drain[h] = "running"
    /\ work[h] = {}
    /\ UNCHANGED vars

(* All runners have settled: the next tick may claim again.                *)
EndDrain(h) ==
    /\ drain[h] = "running"
    /\ work[h] = {}
    /\ drain' = [drain EXCEPT ![h] = "idle"]
    /\ UNCHANGED <<status, at, scan, claimVars, work, restarts>>

(* A hub restarts: its transaction is rolled back, its runners are gone.   *)
Restart(h) ==
    /\ restarts < MaxRestarts
    /\ restarts' = restarts + 1
    /\ claimed' = [claimed EXCEPT ![h] = {}]
    /\ picked' = [picked EXCEPT ![h] = None]
    /\ slots' = [slots EXCEPT ![h] = 0]
    /\ work' = [work EXCEPT ![h] = {}]
    /\ drain' = [drain EXCEPT ![h] = "idle"]
    /\ UNCHANGED <<status, at, scan>>

-----------------------------------------------------------------------------
Claim(h) == BeginClaim(h) \/ Pick(h) \/ Promote(h) \/ PromoteFails(h) \/ Commit(h) \/ EndDrain(h)

Settle(h, c) == SettleRunner(h, c) \/ ReleaseCycle(h, c)

Next ==
    \/ \E x \in Scan : \/ \E s \in Session : CheckActive(x, s)
                       \/ \E c \in Cycle : EnqueueCycle(x, c)
                       \/ SkipSession(x)
    \/ \E h \in Hub : \/ Claim(h) \/ ClaimFails(h) \/ Restart(h)
                      \/ \E c \in Cycle : Settle(h, c) \/ ReleaseFails(h, c)

Spec == Init /\ [][Next]_vars

(* The drain worker ticks, statements and runners settle.                  *)
FairSpec ==
    /\ Spec
    /\ \A h \in Hub : WF_vars(Claim(h))
    /\ \A h \in Hub : \A c \in Cycle : WF_vars(Settle(h, c))

-----------------------------------------------------------------------------
(* Properties.                                                             *)

(* A session has at most one running row, and a runner runs only under its *)
(* row's lock: two hubs that claim together, failing releases and restarts *)
(* never let two cycles of a session run at once.                          *)
OneCyclePerSession ==
    /\ \A c, d \in Running : SessionOf[c] = SessionOf[d] => c = d
    /\ \A h \in Hub : \A w \in work[h] : status[w[1]] = "running"

(* At most Cap cycles run, over all sessions (of a single hub).            *)
GlobalCap == Cardinality(Running) <= Cap

(* The rows that a claim under way has promoted or may yet promote.        *)
Budget(h) == slots[h] + Cardinality(claimed[h])
Budgets == {p \in Hub \X (1 .. Cap) : p[2] <= Budget(p[1])}

(* What the global cap is worth to a fleet: the count that a claim takes   *)
(* is stale as soon as another hub counts.  Still no claim may start more  *)
(* than the cap, and what runs and what the claims under way may yet start *)
(* is at most one cap for each hub, however claims overlap, fail, are      *)
(* rolled back or leave rows running behind them.                          *)
FleetCap ==
    /\ \A h \in Hub : Budget(h) <= Cap
    /\ Cardinality(Running) + Cardinality(Budgets) <= Cardinality(Hub) * Cap

(* Of the cycles of a session, none starts while an older one of the same  *)
(* or a higher priority is still pending.                                  *)
NoOvertaking ==
    \A c, d \in Cycle :
        /\ SessionOf[c] = SessionOf[d]
        /\ status[c] = "pending"
        /\ status[d] \in {"running", "done", "failed"}
        /\ at[c] < at[d]
        => PriorityOf[c] < PriorityOf[d]

(* Every enqueued cycle runs and settles.                                  *)
CycleSettles == \A c \in Cycle : status[c] = "pending" ~> status[c] \in {"done", "failed"}

(* The queue implements the abstract one-run-per-session server.           *)
RunState ==
    [c \in Cycle |-> CASE status[c] = "none" -> "idle"
                       [] status[c] = "pending" -> "waiting"
                       [] status[c] = "running" -> "running"
                       [] OTHER -> "done"]

Runs == INSTANCE OneRunPerSession WITH state <- RunState, Request <- Cycle

ImplementsOneRun == Runs!Spec
=============================================================================
