------------------------- MODULE RoutineQueueProofs -------------------------
(***************************************************************************)
(* Theorems about RoutineQueue, for any number of sessions, cycles, hubs   *)
(* and scan passes. With failing statements and restarts: a session has    *)
(* one running cycle, the queue implements OneRunPerSession, a single hub  *)
(* respects the global cap and the order of a session's cycles, a fleet    *)
(* has a cap of its own, the backlog of a session is bounded and claims    *)
(* that wait for each other never all wait. Without them: locks have       *)
(* runners, and the queue never gets stuck.                                *)
(***************************************************************************)
EXTENDS RoutineQueue, FiniteSetTheorems, TLAPS

USE RoutineAssumption

-----------------------------------------------------------------------------
(* The inductive invariant.                                                *)

(* What a claim has promoted: still pending for everybody else, and of a   *)
(* session that no other claim and no running cycle has.                   *)
ClaimedOK ==
    \A h \in Hub : \A c \in claimed[h] :
        /\ status[c] = "pending"
        /\ \A d \in Running : SessionOf[c] # SessionOf[d]
        /\ \A g \in Hub : \A d \in claimed[g] : SessionOf[c] = SessionOf[d] => c = d /\ g = h

(* What a claim has picked: pending, locked by this claim alone, and of a  *)
(* session this claim has not promoted.                                    *)
PickedOK ==
    \A h \in Hub :
        /\ picked[h] # None =>
              /\ status[picked[h]] = "pending"
              /\ \A c \in claimed[h] : SessionOf[c] # SessionOf[picked[h]]
              /\ \A g \in Hub \ {h} : picked[g] # picked[h] /\ picked[h] \notin claimed[g]
        /\ drain[h] = "promoting" <=> picked[h] # None
        /\ drain[h] = "promoting" => slots[h] > 0
        /\ drain[h] \in {"idle", "running"} => claimed[h] = {}

(* What runs: one cycle of a session, at one hub, in one phase.            *)
WorkOK ==
    /\ \A h \in Hub : drain[h] # "running" => work[h] = {}
    /\ \A g, h \in Hub : \A v \in work[g], w \in work[h] : v[1] = w[1] => v = w /\ g = h

LockInv == TypeOK /\ ClaimedOK /\ PickedOK /\ WorkOK /\ OneCyclePerSession

LEMMA InitLockInv == Init => LockInv
BY DEF Init, LockInv, TypeOK, Status, ClaimedOK, PickedOK, WorkOK, OneCyclePerSession, Running

(* The due-scan only makes new rows pending.                               *)
LEMMA ScanSteps ==
    ASSUME LockInv, NEW x \in Scan, NEW s \in Session, NEW c \in Cycle,
           CheckActive(x, s) \/ EnqueueCycle(x, c) \/ SkipSession(x)
    PROVE  LockInv'
<1>1. CASE CheckActive(x, s) \/ SkipSession(x)
  BY <1>1 DEF LockInv, TypeOK, ClaimedOK, PickedOK, WorkOK, OneCyclePerSession, Running,
     CheckActive, SkipSession, claimVars
<1>2. CASE EnqueueCycle(x, c)
  <2>1. Cardinality({d \in Cycle : status[d] # "none"}) \in Nat
    BY FS_Subset, FS_CardinalityType
  <2>2. TypeOK'
    BY <1>2, <2>1 DEF LockInv, TypeOK, Status, EnqueueCycle, claimVars
  <2>3. /\ Running' = Running
        /\ \A d \in Cycle : status[d] = "pending" => status'[d] = "pending"
        /\ \A d \in Cycle : status[d] = "running" => status'[d] = "running"
    BY <1>2 DEF LockInv, TypeOK, EnqueueCycle, Running
  <2>4. ClaimedOK' /\ PickedOK' /\ WorkOK' /\ OneCyclePerSession'
    BY <1>2, <2>3 DEF LockInv, TypeOK, ClaimedOK, PickedOK, WorkOK, OneCyclePerSession,
       EnqueueCycle, claimVars
  <2> QED BY <2>2, <2>4 DEF LockInv
<1> QED BY <1>1, <1>2

LEMMA ClaimStarts ==
    ASSUME LockInv, NEW h \in Hub, BeginClaim(h) \/ Pick(h)
    PROVE  LockInv'
<1>1. CASE BeginClaim(h)
  <2>1. Running \subseteq Cycle /\ Cardinality(Running) \in Nat
    BY FS_Subset, FS_CardinalityType DEF Running
  <2>2. Cap - Cardinality(Running) \in 0 .. Cap
    BY <1>1, <2>1 DEF BeginClaim
  <2>3. TypeOK'
    BY <1>1, <2>2 DEF LockInv, TypeOK, BeginClaim
  <2>4. ClaimedOK' /\ PickedOK' /\ WorkOK' /\ OneCyclePerSession'
    BY <1>1 DEF LockInv, TypeOK, ClaimedOK, PickedOK, WorkOK, OneCyclePerSession, Running, BeginClaim
  <2> QED BY <2>3, <2>4 DEF LockInv
<1>2. CASE Pick(h)
  <2>1. PICK c \in Eligible(h) : picked' = [picked EXCEPT ![h] = c]
    BY <1>2 DEF Pick
  <2>2. /\ c \in Cycle /\ c # None /\ status[c] = "pending"
        /\ \A d \in claimed[h] : SessionOf[d] # SessionOf[c]
        /\ \A g \in Hub \ {h} : picked[g] # c /\ c \notin claimed[g]
    BY <2>1 DEF Eligible, Locked, Busy
  <2>3. TypeOK' /\ ClaimedOK' /\ WorkOK' /\ OneCyclePerSession'
    BY <1>2, <2>1, <2>2 DEF LockInv, TypeOK, ClaimedOK, WorkOK, OneCyclePerSession, Running, Pick
  <2>4. PickedOK'
    BY <1>2, <2>1, <2>2 DEF LockInv, TypeOK, PickedOK, Pick
  <2> QED BY <2>3, <2>4 DEF LockInv
<1> QED BY <1>1, <1>2

(* The lock of the row, the wait for other claims and the unique index     *)
(* together let a claim promote one cycle of an idle session.              *)
LEMMA PromoteStep ==
    ASSUME LockInv, NEW h \in Hub, Promote(h)
    PROVE  LockInv'
<1> DEFINE c == picked[h]
<1>1. /\ c \in Cycle /\ c # None /\ status[c] = "pending"
      /\ \A d \in Running : SessionOf[c] # SessionOf[d]
      /\ \A g \in Hub : \A d \in claimed[g] : SessionOf[c] # SessionOf[d]
  BY DEF LockInv, TypeOK, PickedOK, Promote, WaitsFor, IndexConflict
<1>0. drain[h] = "promoting" /\ slots[h] \in 0 .. Cap /\ slots[h] > 0
  BY DEF LockInv, TypeOK, PickedOK, Promote
<1>2. TypeOK'
  <2>1. slots[h] - 1 \in 0 .. Cap
    BY <1>0
  <2> QED BY <1>1, <2>1 DEF LockInv, TypeOK, Promote
<1>3. /\ \A g \in Hub \ {h} : claimed'[g] = claimed[g] /\ picked'[g] = picked[g]
      /\ claimed'[h] = claimed[h] \cup {c} /\ picked'[h] = None
      /\ status' = status /\ Running' = Running /\ work' = work
      /\ \A g \in Hub \ {h} : drain'[g] = drain[g]
      /\ \A g \in Hub \ {h} : slots'[g] = slots[g]
      /\ drain[h] = "promoting" /\ drain'[h] = "picking"
  BY DEF LockInv, TypeOK, Promote, Running
<1>4. ClaimedOK'
  BY <1>1, <1>3 DEF LockInv, ClaimedOK
<1>5. PickedOK'
  <2>1. ASSUME NEW g \in Hub \ {h}
        PROVE  /\ picked'[g] # None =>
                     /\ status'[picked'[g]] = "pending"
                     /\ \A e \in claimed'[g] : SessionOf[e] # SessionOf[picked'[g]]
                     /\ \A k \in Hub \ {g} : picked'[k] # picked'[g] /\ picked'[g] \notin claimed'[k]
               /\ drain'[g] = "promoting" <=> picked'[g] # None
               /\ drain'[g] = "promoting" => slots'[g] > 0
               /\ drain'[g] \in {"idle", "running"} => claimed'[g] = {}
    BY <1>1, <1>3 DEF LockInv, PickedOK
  <2> QED BY <1>3, <2>1 DEF PickedOK
<1>6. WorkOK' /\ OneCyclePerSession'
  BY <1>3 DEF LockInv, WorkOK, OneCyclePerSession
<1> QED BY <1>2, <1>4, <1>5, <1>6 DEF LockInv

(* A claim that is given up leaves nothing behind.                         *)
LEMMA RollBackSteps ==
    ASSUME LockInv, NEW h \in Hub, PromoteFails(h) \/ ClaimFails(h) \/ Restart(h)
    PROVE  LockInv'
<1>1. /\ claimed' = [claimed EXCEPT ![h] = {}] /\ picked' = [picked EXCEPT ![h] = None]
      /\ slots' = [slots EXCEPT ![h] = 0] /\ drain' = [drain EXCEPT ![h] = "idle"]
      /\ UNCHANGED <<status, at, scan>>
      /\ \/ Restart(h) /\ work' = [work EXCEPT ![h] = {}] /\ restarts' \in 0 .. MaxRestarts
         \/ drain[h] # "running" /\ UNCHANGED <<work, restarts>>
  BY DEF LockInv, TypeOK, PromoteFails, ClaimFails, Restart, RollBack
<1>2. TypeOK'
  BY <1>1 DEF LockInv, TypeOK
<1>3. ClaimedOK' /\ PickedOK'
  BY <1>1 DEF LockInv, TypeOK, ClaimedOK, PickedOK, Running
<1>4. \A g \in Hub : /\ work'[g] \subseteq work[g]
                     /\ drain'[g] # "running" => work'[g] = {}
  BY <1>1 DEF LockInv, TypeOK, WorkOK
<1>5. WorkOK'
  BY <1>4 DEF LockInv, WorkOK
<1>6. OneCyclePerSession'
  BY <1>1, <1>4 DEF LockInv, OneCyclePerSession, Running
<1> QED BY <1>2, <1>3, <1>5, <1>6 DEF LockInv

LEMMA CommitStep ==
    ASSUME LockInv, NEW h \in Hub, Commit(h)
    PROVE  LockInv'
<1>1. /\ status' = [c \in Cycle |-> IF c \in claimed[h] THEN "running" ELSE status[c]]
      /\ work' = [work EXCEPT ![h] = claimed[h] \X {"run"}]
      /\ claimed' = [claimed EXCEPT ![h] = {}]
      /\ slots' = [slots EXCEPT ![h] = 0]
      /\ drain' = [drain EXCEPT ![h] = "running"]
      /\ UNCHANGED <<at, scan, picked, restarts>>
      /\ drain[h] = "picking" /\ picked[h] = None /\ work[h] = {}
  BY DEF LockInv, TypeOK, PickedOK, WorkOK, Commit
<1>2. claimed[h] \subseteq Cycle /\ Running' = Running \cup claimed[h]
  BY <1>1 DEF LockInv, TypeOK, Running
<1>3. TypeOK'
  BY <1>1, <1>2 DEF LockInv, TypeOK, Status, Phase
<1>4. ClaimedOK'
  BY <1>1, <1>2 DEF LockInv, TypeOK, ClaimedOK
<1>5. PickedOK'
  <2> SUFFICES ASSUME NEW g \in Hub
               PROVE  /\ picked'[g] # None =>
                            /\ status'[picked'[g]] = "pending"
                            /\ \A c \in claimed'[g] : SessionOf[c] # SessionOf[picked'[g]]
                            /\ \A k \in Hub \ {g} : picked'[k] # picked'[g] /\ picked'[g] \notin claimed'[k]
                      /\ drain'[g] = "promoting" <=> picked'[g] # None
                      /\ drain'[g] = "promoting" => slots'[g] > 0
                      /\ drain'[g] \in {"idle", "running"} => claimed'[g] = {}
    BY DEF PickedOK
  <2>1. CASE g = h
    BY <1>1, <2>1 DEF LockInv, TypeOK
  <2>2. CASE g # h
    <3>1. picked[g] # None => picked[g] \in Cycle /\ picked[g] \notin claimed[h]
      BY <2>2 DEF LockInv, TypeOK, PickedOK
    <3> QED BY <1>1, <2>2, <3>1 DEF LockInv, TypeOK, PickedOK
  <2> QED BY <2>1, <2>2
<1>6. OneCyclePerSession'
  <2>1. \A c, d \in Running' : SessionOf[c] = SessionOf[d] => c = d
    BY <1>2 DEF LockInv, ClaimedOK, OneCyclePerSession
  <2>2. ASSUME NEW g \in Hub, NEW w \in work'[g] PROVE status'[w[1]] = "running"
    BY <1>1, <1>2 DEF LockInv, TypeOK, OneCyclePerSession
  <2> QED BY <2>1, <2>2 DEF OneCyclePerSession
<1>7. WorkOK'
  <2>1. \A g \in Hub : \A w \in work[g] : w[1] \notin claimed[h]
    BY DEF LockInv, ClaimedOK, OneCyclePerSession
  <2>2. \A w \in work'[h] : w = <<w[1], "run">> /\ w[1] \in claimed[h]
    BY <1>1 DEF LockInv, TypeOK
  <2>3. \A g \in Hub \ {h} : work'[g] = work[g] /\ drain'[g] = drain[g]
    BY <1>1 DEF LockInv, TypeOK
  <2>4. drain'[h] = "running"
    BY <1>1 DEF LockInv, TypeOK
  <2> QED BY <2>1, <2>2, <2>3, <2>4 DEF LockInv, WorkOK
<1> QED BY <1>3, <1>4, <1>5, <1>6, <1>7 DEF LockInv

(* A runner's row keeps its lock until the release, which is the runner's  *)
(* last step.                                                              *)
LEMMA WorkSteps ==
    ASSUME LockInv, NEW h \in Hub, NEW c \in Cycle,
           SettleRunner(h, c) \/ ReleaseCycle(h, c) \/ ReleaseFails(h, c) \/ EndDrain(h)
    PROVE  LockInv'
<1>1. CASE SettleRunner(h, c) \/ ReleaseFails(h, c)
  <2>1. PICK p \in Phase : \E W \in {{}, {<<c, "done">>}, {<<c, "failed">>}} :
           /\ <<c, p>> \in work[h]
           /\ work' = [work EXCEPT ![h] = (@ \ {<<c, p>>}) \cup W]
           /\ UNCHANGED <<status, at, scan, drain, claimVars, restarts>>
    BY <1>1 DEF SettleRunner, ReleaseFails, Phase, LockInv, TypeOK
  <2>2. PICK W \in {{}, {<<c, "done">>}, {<<c, "failed">>}} :
           /\ <<c, p>> \in work[h]
           /\ work' = [work EXCEPT ![h] = (@ \ {<<c, p>>}) \cup W]
           /\ UNCHANGED <<status, at, scan, drain, claimVars, restarts>>
    BY <2>1
  <2>3. /\ \A g \in Hub \ {h} : work'[g] = work[g]
        /\ \A w \in work'[h] : w \in work[h] \/ (w \in W /\ w[1] = c)
        /\ \A v, w \in W : v = w
        /\ \A w \in work'[h] : w[1] = c => w \in W
    <3>1. /\ work'[h] = (work[h] \ {<<c, p>>}) \cup W
          /\ \A g \in Hub \ {h} : work'[g] = work[g]
      BY <2>2 DEF LockInv, TypeOK
    <3>2. (\A v, w \in W : v = w) /\ \A w \in W : w[1] = c
      BY <2>2
    <3>3. \A w \in work[h] : w[1] = c => w = <<c, p>>
      BY <2>2 DEF LockInv, WorkOK
    <3> QED BY <3>1, <3>2, <3>3
  <2>4. TypeOK'
    BY <2>2 DEF LockInv, TypeOK, Phase, claimVars
  <2>5. ClaimedOK' /\ PickedOK'
    BY <2>2 DEF LockInv, ClaimedOK, PickedOK, Running, claimVars
  <2>6. status[c] = "running"
    BY <2>2 DEF LockInv, OneCyclePerSession
  <2>7. OneCyclePerSession'
    BY <2>2, <2>3, <2>6 DEF LockInv, OneCyclePerSession, Running
  <2>8. WorkOK'
    <3>1. \A g \in Hub : drain'[g] # "running" => work'[g] = {}
      BY <2>2, <2>3 DEF LockInv, WorkOK
    <3>2. \A g \in Hub : \A v \in work'[g] : \E u \in work[g] : u[1] = v[1] /\ (v[1] # c => u = v)
      BY <2>2, <2>3
    <3>3. ASSUME NEW g \in Hub, NEW k \in Hub, NEW v \in work'[g], NEW w \in work'[k], v[1] = w[1]
          PROVE  v = w /\ g = k
      <4>1. PICK u \in work[g], t \in work[k] :
               /\ u[1] = v[1] /\ (v[1] # c => u = v)
               /\ t[1] = w[1] /\ (w[1] # c => t = w)
        BY <3>2
      <4>2. u = t /\ g = k
        BY <3>3, <4>1 DEF LockInv, WorkOK
      <4>3. CASE v[1] # c
        BY <3>3, <4>1, <4>2, <4>3
      <4>4. CASE v[1] = c
        <5>1. g = h
          BY <2>2, <2>3, <4>1, <4>4 DEF LockInv, WorkOK
        <5> QED BY <2>3, <3>3, <4>2, <4>4, <5>1
      <4> QED BY <4>3, <4>4
    <3> QED BY <3>1, <3>3 DEF WorkOK
  <2> QED BY <2>4, <2>5, <2>7, <2>8 DEF LockInv
<1>2. CASE ReleaseCycle(h, c)
  <2>1. PICK p \in {"done", "failed"} :
           /\ <<c, p>> \in work[h]
           /\ status' = [status EXCEPT ![c] = IF @ = "running" THEN p ELSE @]
           /\ work' = [work EXCEPT ![h] = @ \ {<<c, p>>}]
           /\ UNCHANGED <<at, scan, drain, claimVars, restarts>>
    BY <1>2 DEF ReleaseCycle
  <2>2. status[c] = "running" /\ status' = [status EXCEPT ![c] = p]
    BY <2>1 DEF LockInv, OneCyclePerSession
  <2>3. /\ \A g \in Hub : work'[g] \subseteq work[g]
        /\ \A g \in Hub : \A w \in work'[g] : w[1] # c
    BY <2>1 DEF LockInv, TypeOK, WorkOK
  <2>4. TypeOK'
    BY <2>1, <2>2 DEF LockInv, TypeOK, Status, claimVars
  <2>5. Running' = Running \ {c} /\ \A d \in Cycle : status[d] = "pending" => status'[d] = "pending"
    BY <2>2 DEF LockInv, TypeOK, Running
  <2>6. ClaimedOK' /\ PickedOK'
    BY <2>1, <2>5 DEF LockInv, TypeOK, ClaimedOK, PickedOK, claimVars
  <2>7. OneCyclePerSession'
    BY <2>1, <2>2, <2>3, <2>5 DEF LockInv, TypeOK, OneCyclePerSession
  <2>8. WorkOK'
    BY <2>1, <2>3 DEF LockInv, WorkOK
  <2> QED BY <2>4, <2>6, <2>7, <2>8 DEF LockInv
<1>3. CASE EndDrain(h)
  BY <1>3 DEF LockInv, TypeOK, ClaimedOK, PickedOK, WorkOK, OneCyclePerSession, Running, EndDrain, claimVars
<1> QED BY <1>1, <1>2, <1>3

LEMMA NextLockInv == LockInv /\ [Next]_vars => LockInv'
<1> SUFFICES ASSUME LockInv, [Next]_vars PROVE LockInv'
  OBVIOUS
<1>1. CASE UNCHANGED vars
  BY <1>1 DEF LockInv, TypeOK, ClaimedOK, PickedOK, WorkOK, OneCyclePerSession, Running, vars, claimVars
<1>2. ASSUME NEW x \in Scan, (\E s \in Session : CheckActive(x, s)) \/ (\E c \in Cycle : EnqueueCycle(x, c))
             \/ SkipSession(x)
      PROVE  LockInv'
  <2>1. ASSUME NEW s \in Session, CheckActive(x, s) PROVE LockInv'
    BY <2>1 DEF LockInv, TypeOK, ClaimedOK, PickedOK, WorkOK, OneCyclePerSession, Running, CheckActive, claimVars
  <2>2. ASSUME SkipSession(x) PROVE LockInv'
    BY <2>2 DEF LockInv, TypeOK, ClaimedOK, PickedOK, WorkOK, OneCyclePerSession, Running, SkipSession, claimVars
  <2>3. ASSUME NEW c \in Cycle, EnqueueCycle(x, c) PROVE LockInv'
    BY <2>3, ScanSteps
  <2> QED BY <1>2, <2>1, <2>2, <2>3
<1>3. ASSUME NEW h \in Hub, Claim(h) \/ ClaimFails(h) \/ Restart(h) PROVE LockInv'
  <2>1. CASE EndDrain(h)
    BY <2>1 DEF LockInv, TypeOK, ClaimedOK, PickedOK, WorkOK, OneCyclePerSession, Running, EndDrain, claimVars
  <2> QED BY <1>3, <2>1, ClaimStarts, PromoteStep, RollBackSteps, CommitStep DEF Claim
<1>4. ASSUME NEW h \in Hub, NEW c \in Cycle, Settle(h, c) \/ ReleaseFails(h, c) PROVE LockInv'
  BY <1>4, WorkSteps DEF Settle
<1> QED BY <1>1, <1>2, <1>3, <1>4 DEF Next

(* Every variable keeps its type.                                          *)
THEOREM TypeCorrect == Spec => []TypeOK
<1>1. Spec => []LockInv
  BY InitLockInv, NextLockInv, PTL DEF Spec
<1>2. LockInv => TypeOK
  BY DEF LockInv
<1> QED BY <1>1, <1>2, PTL

(* At most one cycle of a session runs at a time, and only under its lock, *)
(* however many hubs claim, fail and restart (the header of queue.ts, "Per-*)
(* session lock").                                                         *)
THEOREM OneCycleAtATime == Spec => []OneCyclePerSession
<1>1. Spec => []LockInv
  BY InitLockInv, NextLockInv, PTL DEF Spec
<1>2. LockInv => OneCyclePerSession
  BY DEF LockInv
<1> QED BY <1>1, <1>2, PTL

-----------------------------------------------------------------------------
(* Refinement.                                                             *)

(* Every step of the queue is a step of the abstract server, or none.      *)
LEMMA StepRefines ==
    ASSUME LockInv, LockInv', [Next]_vars
    PROVE  [Runs!Next]_RunState
<1>1. CASE status' = status
  BY <1>1 DEF RunState
<1>2. ASSUME NEW x \in Scan, NEW c \in Cycle, EnqueueCycle(x, c) PROVE Runs!Submit(c)
  BY <1>2 DEF LockInv, TypeOK, EnqueueCycle, RunState, Runs!Submit
<1>3. ASSUME NEW h \in Hub, Commit(h) PROVE Runs!Begin(claimed[h])
  <2>1. claimed[h] \subseteq Cycle
    BY DEF LockInv, TypeOK
  <2>2. \A c \in claimed[h] : RunState[c] = "waiting"
    BY <2>1 DEF LockInv, ClaimedOK, RunState
  <2>3. \A c \in claimed[h] : \A d \in Cycle :
           SessionOf[d] = SessionOf[c] => RunState[d] # "running" /\ (d \in claimed[h] => d = c)
    BY <2>1 DEF LockInv, TypeOK, Status, ClaimedOK, Running, RunState
  <2>4. RunState' = [c \in Cycle |-> IF c \in claimed[h] THEN "running" ELSE RunState[c]]
    BY <1>3 DEF Commit, RunState
  <2> QED BY <2>2, <2>3, <2>4 DEF Runs!Begin
<1>4. ASSUME NEW h \in Hub, NEW c \in Cycle, ReleaseCycle(h, c) PROVE Runs!End(c)
  <2>1. PICK p \in {"done", "failed"} :
           <<c, p>> \in work[h] /\ status' = [status EXCEPT ![c] = IF @ = "running" THEN p ELSE @]
    BY <1>4 DEF ReleaseCycle
  <2>2. status[c] = "running" /\ status' = [status EXCEPT ![c] = p]
    <3>1. status[<<c, p>>[1]] = "running"
      BY <2>1 DEF LockInv, OneCyclePerSession
    <3> QED BY <2>1, <3>1
  <2>3. RunState[c] = "running" /\ RunState' = [RunState EXCEPT ![c] = "done"]
    BY <2>2 DEF LockInv, TypeOK, RunState
  <2> QED BY <2>3 DEF Runs!End
<1>5. CASE \E h \in Hub : \E c \in Cycle : ReleaseCycle(h, c)
  BY <1>4, <1>5 DEF Runs!Next
<1>6. CASE \E x \in Scan : \E c \in Cycle : EnqueueCycle(x, c)
  BY <1>2, <1>6 DEF Runs!Next
<1>7. CASE \E h \in Hub : Commit(h)
  <2>1. \A h \in Hub : claimed[h] \in SUBSET Cycle
    BY DEF LockInv, TypeOK
  <2> QED BY <1>3, <1>7, <2>1 DEF Runs!Next
<1>8. \/ status' = status
      \/ \E h \in Hub : \E c \in Cycle : ReleaseCycle(h, c)
      \/ \E x \in Scan : \E c \in Cycle : EnqueueCycle(x, c)
      \/ \E h \in Hub : Commit(h)
  BY DEF Next, vars, Claim, Settle, CheckActive, SkipSession, BeginClaim, Pick, Promote, PromoteFails,
     ClaimFails, RollBack, EndDrain, SettleRunner, ReleaseFails, Restart
<1> QED BY <1>1, <1>5, <1>6, <1>7, <1>8

(* The queue implements the server that runs the requests of each session  *)
(* one at a time.                                                          *)
THEOREM QueueRefines == Spec => ImplementsOneRun
<1>1. Init => Runs!Init
  BY DEF Init, RunState, Runs!Init
<1>2. Spec => []LockInv
  BY InitLockInv, NextLockInv, PTL DEF Spec
<1> QED BY <1>1, <1>2, StepRefines, PTL DEF Spec, ImplementsOneRun, Runs!Spec

-----------------------------------------------------------------------------
(* The global cap, for a single hub.                                       *)

OneHub == \A g, h \in Hub : g = h

(* What runs, what the claim under way has promoted, and what it may yet   *)
(* promote.                                                                *)
Taken(h) == Cardinality(Running \cup claimed[h])

CapInv ==
    /\ Cardinality(Running) <= Cap
    /\ \A h \in Hub : Taken(h) + slots[h] <= Cap

LEMMA SmallSets ==
    ASSUME LockInv
    PROVE  /\ \A S \in SUBSET Cycle : IsFiniteSet(S) /\ Cardinality(S) \in Nat
           /\ \A S, T \in SUBSET Cycle : S \subseteq T => Cardinality(S) <= Cardinality(T)
           /\ \A S \in SUBSET Cycle : \A c \in Cycle : Cardinality(S \cup {c}) <= Cardinality(S) + 1
           /\ Running \in SUBSET Cycle
           /\ \A h \in Hub : claimed[h] \in SUBSET Cycle
<1>1. \A S \in SUBSET Cycle : IsFiniteSet(S) /\ Cardinality(S) \in Nat
  BY FS_Subset, FS_CardinalityType
<1>2. \A S, T \in SUBSET Cycle : S \subseteq T => Cardinality(S) <= Cardinality(T)
  BY <1>1, FS_Subset
<1>3. \A S \in SUBSET Cycle : \A c \in Cycle : Cardinality(S \cup {c}) <= Cardinality(S) + 1
  <2> SUFFICES ASSUME NEW S \in SUBSET Cycle, NEW c \in Cycle
               PROVE  Cardinality(S \cup {c}) <= Cardinality(S) + 1
    OBVIOUS
  <2>1. IsFiniteSet(S) /\ Cardinality(S) \in Nat
    BY <1>1
  <2>2. Cardinality(S \cup {c}) = IF c \in S THEN Cardinality(S) ELSE Cardinality(S) + 1
    BY <2>1, FS_AddElement
  <2> QED BY <2>1, <2>2
<1> QED BY <1>1, <1>2, <1>3 DEF LockInv, TypeOK, Running

LEMMA NextCapInv ==
    ASSUME OneHub, LockInv, LockInv', CapInv, [Next]_vars
    PROVE  CapInv'
<1>0. /\ Cap \in Nat
      /\ Cardinality(Running) \in Nat /\ Cardinality(Running') \in Nat
      /\ \A h \in Hub : Taken(h) \in Nat /\ Taken(h)' \in Nat
      /\ \A h \in Hub : slots[h] \in Nat /\ slots'[h] \in Nat
  <2>1. Running' \in SUBSET Cycle /\ \A h \in Hub : claimed'[h] \in SUBSET Cycle
    BY DEF LockInv, TypeOK, Running
  <2>2. \A h \in Hub : Running \cup claimed[h] \in SUBSET Cycle /\ Running' \cup claimed'[h] \in SUBSET Cycle
    BY <2>1, SmallSets
  <2>3. \A h \in Hub : slots[h] \in 0 .. Cap /\ slots'[h] \in 0 .. Cap
    BY DEF LockInv, TypeOK
  <2>4. \A S \in SUBSET Cycle : Cardinality(S) \in Nat
    BY SmallSets
  <2>5. Running \in SUBSET Cycle
    BY SmallSets
  <2> QED BY <2>1, <2>2, <2>3, <2>4, <2>5 DEF Taken
<1>1. ASSUME Running' \subseteq Running,
             \A h \in Hub : claimed'[h] = {} \/ claimed'[h] = claimed[h],
             \A h \in Hub : slots'[h] = 0 \/ slots'[h] = slots[h]
      PROVE  CapInv'
  <2>1. \A h \in Hub : /\ Running' \cup claimed'[h] \subseteq Running \cup claimed[h]
                      /\ Running \cup claimed[h] \in SUBSET Cycle
                      /\ Running' \cup claimed'[h] \in SUBSET Cycle
    BY <1>1, SmallSets
  <2>2. \A h \in Hub : Taken(h)' <= Taken(h)
    BY <2>1, SmallSets DEF Taken
  <2>3. Cardinality(Running') <= Cardinality(Running)
    BY <1>1, SmallSets
  <2>4. Cardinality(Running') <= Cap
    BY <1>0, <2>3 DEF CapInv
  <2>5. ASSUME NEW h \in Hub PROVE Taken(h)' + slots'[h] <= Cap
    BY <1>0, <1>1, <2>2 DEF CapInv
  <2> QED BY <2>4, <2>5 DEF CapInv
<1>2. ASSUME NEW h \in Hub, BeginClaim(h) PROVE CapInv'
  <2>1. claimed[h] = {} /\ Hub = {h}
    BY <1>2 DEF BeginClaim, OneHub, LockInv, PickedOK
  <2>2. Running' = Running /\ claimed' = claimed /\ slots'[h] = Cap - Cardinality(Running)
    BY <1>2 DEF BeginClaim, Running, LockInv, TypeOK
  <2>3. Running' \cup claimed'[h] = Running
    BY <2>1, <2>2
  <2>4. Taken(h)' + slots'[h] = Cap
    BY <1>0, <2>2, <2>3 DEF Taken
  <2>5. Cardinality(Running') <= Cap
    BY <2>2 DEF CapInv
  <2> QED BY <1>0, <2>1, <2>4, <2>5 DEF CapInv
<1>3. ASSUME NEW h \in Hub, Promote(h) PROVE CapInv'
  <2>1. Hub = {h} /\ picked[h] \in Cycle
    BY <1>3 DEF Promote, OneHub, LockInv, TypeOK, PickedOK
  <2>2. Running' = Running /\ claimed'[h] = claimed[h] \cup {picked[h]} /\ slots'[h] = slots[h] - 1
    BY <1>3 DEF Promote, LockInv, TypeOK, Running
  <2>3. Running' \cup claimed'[h] = (Running \cup claimed[h]) \cup {picked[h]}
    BY <2>2
  <2>4. Running \cup claimed[h] \in SUBSET Cycle
    BY SmallSets
  <2>5. Taken(h)' <= Taken(h) + 1
    BY <2>1, <2>3, <2>4, SmallSets DEF Taken
  <2>6. Taken(h) + slots[h] <= Cap
    BY DEF CapInv
  <2>7. Taken(h)' + slots'[h] <= Cap
    BY <1>0, <2>2, <2>5, <2>6
  <2>8. Cardinality(Running') <= Cap
    BY <2>2 DEF CapInv
  <2> QED BY <2>1, <2>7, <2>8 DEF CapInv
<1>4. ASSUME NEW h \in Hub, Commit(h) PROVE CapInv'
  <2>1. /\ Hub = {h} /\ claimed[h] \in SUBSET Cycle
        /\ Running' = Running \cup claimed[h] /\ claimed'[h] = {} /\ slots'[h] = 0
    BY <1>4, SmallSets DEF Commit, OneHub, LockInv, TypeOK, Running
  <2>2. Running' \cup claimed'[h] = Running \cup claimed[h]
    BY <2>1
  <2>3. Taken(h)' = Taken(h) /\ Cardinality(Running') = Taken(h)
    BY <2>1, <2>2 DEF Taken
  <2>4. Taken(h) <= Cap
    BY <1>0 DEF CapInv
  <2>5. Taken(h)' + slots'[h] <= Cap /\ Cardinality(Running') <= Cap
    BY <1>0, <2>1, <2>3, <2>4
  <2> QED BY <2>1, <2>5 DEF CapInv
<1>5. ASSUME NEW h \in Hub, NEW c \in Cycle, ReleaseCycle(h, c) PROVE CapInv'
  <2>1. Running' \subseteq Running /\ claimed' = claimed /\ slots' = slots
    BY <1>5 DEF ReleaseCycle, Running, LockInv, TypeOK, claimVars
  <2> QED BY <1>1, <2>1
<1>6. ASSUME NEW x \in Scan, NEW c \in Cycle, EnqueueCycle(x, c) PROVE CapInv'
  <2>1. Running' \subseteq Running /\ claimed' = claimed /\ slots' = slots
    BY <1>6 DEF EnqueueCycle, Running, LockInv, TypeOK, claimVars
  <2> QED BY <1>1, <2>1
<1>7. ASSUME NEW h \in Hub, PromoteFails(h) \/ ClaimFails(h) \/ Restart(h) PROVE CapInv'
  <2>1. /\ Running' = Running
        /\ \A g \in Hub : claimed'[g] = {} \/ claimed'[g] = claimed[g]
        /\ \A g \in Hub : slots'[g] = 0 \/ slots'[g] = slots[g]
    BY <1>7 DEF PromoteFails, ClaimFails, Restart, RollBack, Running, LockInv, TypeOK
  <2> QED BY <1>1, <2>1
<1>8. CASE UNCHANGED <<status, claimed, slots>>
  BY <1>1, <1>8 DEF Running
<1>9. \/ UNCHANGED <<status, claimed, slots>>
      \/ \E h \in Hub : \/ BeginClaim(h) \/ Promote(h) \/ Commit(h)
                        \/ PromoteFails(h) \/ ClaimFails(h) \/ Restart(h)
                        \/ \E c \in Cycle : ReleaseCycle(h, c)
      \/ \E x \in Scan : \E c \in Cycle : EnqueueCycle(x, c)
  BY DEF Next, vars, Claim, Settle, claimVars, CheckActive, SkipSession, Pick, EndDrain, SettleRunner, ReleaseFails
<1> QED BY <1>2, <1>3, <1>4, <1>5, <1>6, <1>7, <1>8, <1>9

(* A single hub never runs more cycles than the cap, whatever fails and    *)
(* however often it restarts (queue.ts, "Global cap").                     *)
THEOREM CapRespected == OneHub => (Spec => []GlobalCap)
<1>1. Init => CapInv
  <2> SUFFICES ASSUME Init PROVE CapInv
    OBVIOUS
  <2>1. Running = {} /\ \A h \in Hub : claimed[h] = {} /\ slots[h] = 0
    BY DEF Init, Running
  <2>2. Cardinality({}) = 0 /\ \A h \in Hub : Running \cup claimed[h] = {}
    BY <2>1, FS_EmptySet
  <2>3. Cardinality(Running) = 0 /\ \A h \in Hub : Taken(h) = 0 /\ slots[h] = 0
    BY <2>1, <2>2 DEF Taken
  <2> QED BY <2>3 DEF CapInv
<1>2. Spec => []LockInv
  BY InitLockInv, NextLockInv, PTL DEF Spec
<1>3. OneHub /\ LockInv /\ LockInv' /\ CapInv /\ [Next]_vars => CapInv'
  BY NextCapInv
<1>4. CapInv => GlobalCap
  BY DEF CapInv, GlobalCap
<1> SUFFICES ASSUME OneHub PROVE Spec => []GlobalCap
  OBVIOUS
<1>5. LockInv /\ LockInv' /\ CapInv /\ [Next]_vars => CapInv'
  BY <1>3
<1> QED BY <1>1, <1>2, <1>4, <1>5, PTL DEF Spec

-----------------------------------------------------------------------------
(* The order of a session's cycles, for a single hub.                      *)

Enqueued == {d \in Cycle : status[d] # "none"}

(* What has been started, or is about to be if the claim commits.          *)
Ahead(d) ==
    \/ status[d] \in {"running", "done", "failed"}
    \/ \E h \in Hub : d \in claimed[h] \cup {picked[h]}

Overtakes(d, c) ==
    /\ SessionOf[c] = SessionOf[d]
    /\ status[c] = "pending" /\ Ahead(d)
    /\ at[c] < at[d]

(* Every row was enqueued before the next one is, and what a claim has     *)
(* picked or promoted keeps the order already before it starts.            *)
OrderInv ==
    /\ \A c \in Enqueued : at[c] < Cardinality(Enqueued)
    /\ \A c, d \in Cycle : Overtakes(d, c) => PriorityOf[c] < PriorityOf[d]

LEMMA NextOrderInv ==
    ASSUME OneHub, LockInv, LockInv', OrderInv, [Next]_vars
    PROVE  OrderInv'
<1>0. /\ Enqueued \in SUBSET Cycle /\ Enqueued' \in SUBSET Cycle
      /\ at \in [Cycle -> Nat] /\ status \in [Cycle -> Status]
  BY DEF LockInv, TypeOK, Enqueued
<1>1. ASSUME at' = at, Enqueued' = Enqueued,
             \A c \in Cycle : status'[c] = "pending" => status[c] = "pending",
             \A d \in Cycle : Ahead(d)' => Ahead(d)
      PROVE  OrderInv'
  BY <1>1 DEF OrderInv, Overtakes
<1>2. ASSUME NEW x \in Scan, NEW e \in Cycle, EnqueueCycle(x, e) PROVE OrderInv'
  <2>1. /\ status[e] = "none" /\ status' = [status EXCEPT ![e] = "pending"]
        /\ at' = [at EXCEPT ![e] = Cardinality(Enqueued)]
        /\ claimed' = claimed /\ picked' = picked
    BY <1>2 DEF EnqueueCycle, claimVars, Enqueued
  <2>2. Enqueued' = Enqueued \cup {e} /\ e \notin Enqueued
    BY <1>0, <2>1 DEF Enqueued
  <2>3. IsFiniteSet(Enqueued) /\ Cardinality(Enqueued) \in Nat
    BY <1>0, SmallSets
  <2>4. Cardinality(Enqueued') = Cardinality(Enqueued) + 1
    BY <2>2, <2>3, FS_AddElement
  <2>5. \A c \in Enqueued' : at'[c] < Cardinality(Enqueued')
    <3> SUFFICES ASSUME NEW c \in Enqueued' PROVE at'[c] < Cardinality(Enqueued')
      OBVIOUS
    <3>1. CASE c = e
      BY <1>0, <2>1, <2>3, <2>4, <3>1
    <3>2. CASE c # e
      <4>1. c \in Enqueued /\ at'[c] = at[c] /\ at[c] \in Nat
        BY <1>0, <2>1, <2>2, <3>2
      <4> QED BY <2>3, <2>4, <4>1 DEF OrderInv
    <3> QED BY <3>1, <3>2
  <2>6. \A d \in Cycle : Ahead(d)' => Ahead(d) /\ d \in Enqueued /\ d # e
    <3> SUFFICES ASSUME NEW d \in Cycle, Ahead(d)'
                 PROVE  Ahead(d) /\ d \in Enqueued /\ d # e
      OBVIOUS
    <3>1. CASE status'[d] \in {"running", "done", "failed"}
      BY <1>0, <2>1, <3>1 DEF Ahead, Enqueued
    <3>2. ASSUME NEW h \in Hub, d \in claimed'[h] \cup {picked'[h]}
          PROVE  Ahead(d) /\ d \in Enqueued /\ d # e
      <4>1. d \in claimed[h] \/ picked[h] = d
        BY <2>1, <3>2
      <4>2. status[d] = "pending"
        BY <4>1 DEF LockInv, ClaimedOK, PickedOK
      <4> QED BY <2>1, <4>1, <4>2 DEF Ahead, Enqueued
    <3> QED BY <3>1, <3>2 DEF Ahead
  <2>7. ASSUME NEW c \in Cycle, NEW d \in Cycle, Overtakes(d, c)'
        PROVE  PriorityOf[c] < PriorityOf[d]
    <3>1. Ahead(d) /\ d \in Enqueued /\ d # e /\ at'[d] = at[d]
      BY <1>0, <2>1, <2>6, <2>7 DEF Overtakes
    <3>2. at[d] < Cardinality(Enqueued) /\ at[d] \in Nat
      BY <1>0, <3>1 DEF OrderInv
    <3>3. c # e
      <4> SUFFICES ASSUME c = e PROVE FALSE
        OBVIOUS
      <4>1. at'[c] = Cardinality(Enqueued) /\ at'[c] < at'[d]
        BY <1>0, <2>1, <2>7 DEF Overtakes
      <4> QED BY <2>3, <3>1, <3>2, <4>1
    <3>4. Overtakes(d, c)
      BY <1>0, <2>1, <2>7, <3>1, <3>3 DEF Overtakes
    <3> QED BY <3>4 DEF OrderInv
  <2> QED BY <2>5, <2>7 DEF OrderInv
<1>3. ASSUME NEW h \in Hub, Pick(h) PROVE OrderInv'
  <2>1. PICK e \in Eligible(h) :
           (\A d \in Eligible(h) \ {e} : Before(e, d)) /\ picked' = [picked EXCEPT ![h] = e]
    BY <1>3 DEF Pick
  <2>2. UNCHANGED <<status, at, claimed>> /\ Enqueued' = Enqueued
    BY <1>3 DEF Pick, Enqueued
  <2>3. Hub = {h} /\ Locked(h) = {} /\ e \in Cycle /\ SessionOf[e] \notin Busy(h)
    BY DEF OneHub, Locked, Eligible
  <2>4. \A d \in Cycle : Ahead(d)' => Ahead(d) \/ d = e
    BY <2>1, <2>2, <2>3 DEF Ahead, LockInv, TypeOK
  <2>5. ASSUME NEW c \in Cycle, Overtakes(e, c)'
        PROVE  PriorityOf[c] < PriorityOf[e]
    <3>1. SessionOf[c] = SessionOf[e] /\ status[c] = "pending" /\ at[c] < at[e]
      BY <2>2, <2>5 DEF Overtakes
    <3>2. c \notin claimed[h]
      BY <2>3, <3>1 DEF Busy
    <3>3. c \in Eligible(h) /\ c # e
      <4>1. at[e] \in Nat /\ at[c] \in Nat
        BY <1>0, <2>3
      <4> QED BY <2>3, <3>1, <3>2, <4>1 DEF Eligible
    <3>4. Before(e, c)
      BY <2>1, <3>3
    <3>5. at[e] \in Nat /\ at[c] \in Nat /\ PriorityOf[e] \in Int /\ PriorityOf[c] \in Int
      BY <1>0, <2>3
    <3> QED BY <3>1, <3>4, <3>5 DEF Before
  <2>6. ASSUME NEW c \in Cycle, NEW d \in Cycle, Overtakes(d, c)', d # e
        PROVE  PriorityOf[c] < PriorityOf[d]
    <3>1. Overtakes(d, c)
      BY <2>2, <2>4, <2>6 DEF Overtakes
    <3> QED BY <3>1 DEF OrderInv
  <2> QED BY <2>2, <2>5, <2>6 DEF OrderInv
<1>4. ASSUME NEW h \in Hub, Promote(h) PROVE OrderInv'
  <2>1. picked[h] \in Cycle /\ UNCHANGED <<status, at>>
    BY <1>4 DEF Promote, LockInv, TypeOK, PickedOK
  <2>2. \A g \in Hub : claimed'[g] \cup {picked'[g]} \subseteq claimed[g] \cup {picked[g], None}
    BY <1>4 DEF Promote, LockInv, TypeOK
  <2>3. \A d \in Cycle : Ahead(d)' => Ahead(d)
    <3>1. None \notin Cycle
      OBVIOUS
    <3> QED BY <2>1, <2>2, <3>1 DEF Ahead
  <2> QED BY <1>1, <2>1, <2>3 DEF Enqueued
<1>5. ASSUME NEW h \in Hub, Commit(h) PROVE OrderInv'
  <2>1. /\ claimed[h] \subseteq Cycle /\ at' = at
        /\ status' = [c \in Cycle |-> IF c \in claimed[h] THEN "running" ELSE status[c]]
        /\ \A g \in Hub : claimed'[g] \subseteq claimed[g] /\ picked'[g] = picked[g]
    BY <1>5 DEF Commit, LockInv, TypeOK
  <2>2. \A c \in claimed[h] : status[c] = "pending"
    BY DEF LockInv, ClaimedOK
  <2>3. Enqueued' = Enqueued /\ \A c \in Cycle : status'[c] = "pending" => status[c] = "pending"
    BY <2>1, <2>2 DEF Enqueued
  <2>4. \A d \in Cycle : Ahead(d)' => Ahead(d)
    BY <2>1 DEF Ahead
  <2> QED BY <1>1, <2>1, <2>3, <2>4
<1>6. ASSUME NEW h \in Hub, NEW e \in Cycle, ReleaseCycle(h, e) PROVE OrderInv'
  <2>1. PICK p \in {"done", "failed"} :
           status' = [status EXCEPT ![e] = IF @ = "running" THEN p ELSE @]
    BY <1>6 DEF ReleaseCycle
  <2>2. at' = at /\ claimed' = claimed /\ picked' = picked
    BY <1>6 DEF ReleaseCycle, claimVars
  <2>3. \A c \in Cycle :
           \/ status'[c] = status[c]
           \/ status[c] = "running" /\ status'[c] \in {"done", "failed"}
    BY <1>0, <2>1
  <2> QED BY <1>1, <2>2, <2>3 DEF Enqueued, Ahead
<1>7. ASSUME NEW h \in Hub, PromoteFails(h) \/ ClaimFails(h) \/ Restart(h) PROVE OrderInv'
  <2>1. /\ UNCHANGED <<status, at>>
        /\ \A g \in Hub : claimed'[g] \cup {picked'[g]} \subseteq claimed[g] \cup {picked[g], None}
    BY <1>7 DEF PromoteFails, ClaimFails, Restart, RollBack, LockInv, TypeOK
  <2>2. \A d \in Cycle : Ahead(d)' => Ahead(d)
    <3>1. None \notin Cycle
      OBVIOUS
    <3> QED BY <2>1, <3>1 DEF Ahead
  <2> QED BY <1>1, <2>1, <2>2 DEF Enqueued
<1>8. CASE UNCHANGED <<status, at, picked, claimed>>
  BY <1>1, <1>8 DEF Enqueued, Ahead
<1>9. \/ UNCHANGED <<status, at, picked, claimed>>
      \/ \E h \in Hub : \/ Pick(h) \/ Promote(h) \/ Commit(h)
                        \/ PromoteFails(h) \/ ClaimFails(h) \/ Restart(h)
                        \/ \E c \in Cycle : ReleaseCycle(h, c)
      \/ \E x \in Scan : \E c \in Cycle : EnqueueCycle(x, c)
  BY DEF Next, vars, Claim, Settle, claimVars, CheckActive, SkipSession, BeginClaim, EndDrain,
     SettleRunner, ReleaseFails
<1> QED BY <1>2, <1>3, <1>4, <1>5, <1>6, <1>7, <1>8, <1>9

(* A single hub starts the cycles of a session by priority, and by age     *)
(* within one, whatever fails and however often it restarts (queue.ts,     *)
(* ORDER BY priority DESC, enqueued_at ASC).                               *)
THEOREM OrderRespected == OneHub => (Spec => []NoOvertaking)
<1>1. Init => OrderInv
  <2> SUFFICES ASSUME Init PROVE OrderInv
    OBVIOUS
  <2>1. \A c \in Cycle : status[c] = "none"
    BY DEF Init
  <2> QED BY <2>1 DEF OrderInv, Enqueued, Overtakes
<1>2. Spec => []LockInv
  BY InitLockInv, NextLockInv, PTL DEF Spec
<1>3. OneHub /\ LockInv /\ LockInv' /\ OrderInv /\ [Next]_vars => OrderInv'
  BY NextOrderInv
<1>4. OrderInv => NoOvertaking
  BY DEF OrderInv, Overtakes, Ahead, NoOvertaking
<1> SUFFICES ASSUME OneHub PROVE Spec => []NoOvertaking
  OBVIOUS
<1>5. LockInv /\ LockInv' /\ OrderInv /\ [Next]_vars => OrderInv'
  BY <1>3
<1> QED BY <1>1, <1>2, <1>4, <1>5, PTL DEF Spec

-----------------------------------------------------------------------------
(* The global cap, for a fleet of hubs.                                    *)

LEMMA BudgetFacts ==
    ASSUME IsFiniteSet(Hub), LockInv
    PROVE  /\ \A h \in Hub : Budget(h) \in Nat /\ Cardinality(claimed[h]) \in Nat
           /\ Cardinality(Running) \in Nat
           /\ \A h \in Hub : \A k \in 0 .. Cap :
                 IsFiniteSet({h} \X (1 .. k)) /\ Cardinality({h} \X (1 .. k)) = k
           /\ \A H \in SUBSET Hub : /\ IsFiniteSet(H \X (1 .. Cap)) /\ Cardinality(H) \in Nat
                                   /\ Cardinality(H \X (1 .. Cap)) = Cardinality(H) * Cap
           /\ \A B \in SUBSET (Hub \X (1 .. Cap)) : IsFiniteSet(B) /\ Cardinality(B) \in Nat
           /\ \A A, B \in SUBSET (Hub \X (1 .. Cap)) :
                 A \subseteq B => Cardinality(A) <= Cardinality(B)
<1>1. \A k \in Nat : IsFiniteSet(1 .. k) /\ Cardinality(1 .. k) = k
  <2> SUFFICES ASSUME NEW k \in Nat PROVE IsFiniteSet(1 .. k) /\ Cardinality(1 .. k) = k
    OBVIOUS
  <2>1. IsFiniteSet(1 .. k) /\ Cardinality(1 .. k) = IF 1 > k THEN 0 ELSE k - 1 + 1
    BY FS_Interval
  <2> QED BY <2>1
<1>2. \A h \in Hub : \A k \in 0 .. Cap :
         IsFiniteSet({h} \X (1 .. k)) /\ Cardinality({h} \X (1 .. k)) = k
  <2> SUFFICES ASSUME NEW h \in Hub, NEW k \in 0 .. Cap
               PROVE  IsFiniteSet({h} \X (1 .. k)) /\ Cardinality({h} \X (1 .. k)) = k
    OBVIOUS
  <2>1. IsFiniteSet({h}) /\ Cardinality({h}) = 1
    BY FS_Singleton
  <2>2. IsFiniteSet(1 .. k) /\ Cardinality(1 .. k) = k
    BY <1>1
  <2>3. /\ IsFiniteSet({h} \X (1 .. k))
        /\ Cardinality({h} \X (1 .. k)) = Cardinality({h}) * Cardinality(1 .. k)
    BY <2>1, <2>2, FS_Product
  <2> QED BY <2>1, <2>2, <2>3
<1>3. \A H \in SUBSET Hub : /\ IsFiniteSet(H \X (1 .. Cap)) /\ Cardinality(H) \in Nat
                           /\ Cardinality(H \X (1 .. Cap)) = Cardinality(H) * Cap
  <2> SUFFICES ASSUME NEW H \in SUBSET Hub
               PROVE  /\ IsFiniteSet(H \X (1 .. Cap)) /\ Cardinality(H) \in Nat
                      /\ Cardinality(H \X (1 .. Cap)) = Cardinality(H) * Cap
    OBVIOUS
  <2>1. IsFiniteSet(H) /\ Cardinality(H) \in Nat
    BY FS_Subset, FS_CardinalityType
  <2>2. IsFiniteSet(1 .. Cap) /\ Cardinality(1 .. Cap) = Cap
    BY <1>1
  <2> QED BY <2>1, <2>2, FS_Product
<1>4. /\ \A B \in SUBSET (Hub \X (1 .. Cap)) : IsFiniteSet(B) /\ Cardinality(B) \in Nat
      /\ \A A, B \in SUBSET (Hub \X (1 .. Cap)) : A \subseteq B => Cardinality(A) <= Cardinality(B)
  BY <1>3, FS_Subset, FS_CardinalityType
<1>5. \A h \in Hub : Budget(h) \in Nat /\ Cardinality(claimed[h]) \in Nat
  <2> SUFFICES ASSUME NEW h \in Hub PROVE Budget(h) \in Nat /\ Cardinality(claimed[h]) \in Nat
    OBVIOUS
  <2>1. slots[h] \in 0 .. Cap /\ Cardinality(claimed[h]) \in Nat
    BY SmallSets DEF LockInv, TypeOK
  <2> QED BY <2>1 DEF Budget
<1>6. Cardinality(Running) \in Nat
  BY SmallSets
<1> QED BY <1>2, <1>3, <1>4, <1>5, <1>6

LEMMA NextFleetCap ==
    ASSUME IsFiniteSet(Hub), LockInv, LockInv', FleetCap, [Next]_vars
    PROVE  FleetCap'
<1>0. /\ Cap \in Nat /\ Cardinality(Hub) * Cap \in Nat
      /\ Cardinality(Running) \in Nat /\ Cardinality(Running') \in Nat
      /\ Budgets \in SUBSET (Hub \X (1 .. Cap)) /\ Budgets' \in SUBSET (Hub \X (1 .. Cap))
      /\ Cardinality(Budgets) \in Nat /\ Cardinality(Budgets') \in Nat
      /\ \A h \in Hub : Budget(h) \in Nat /\ Budget(h)' \in Nat
  <2>1. Cardinality(Running') \in Nat /\ \A h \in Hub : Budget(h)' \in Nat
    <3>1. Running' \in SUBSET Cycle /\ \A h \in Hub : claimed'[h] \in SUBSET Cycle /\ slots'[h] \in Nat
      BY DEF LockInv, TypeOK, Running
    <3>2. Cardinality(Running') \in Nat /\ \A h \in Hub : Cardinality(claimed'[h]) \in Nat
      BY <3>1, SmallSets
    <3> QED BY <3>1, <3>2 DEF Budget
  <2>2. Budgets \in SUBSET (Hub \X (1 .. Cap)) /\ Budgets' \in SUBSET (Hub \X (1 .. Cap))
    BY DEF Budgets
  <2>3. Cardinality(Hub) \in Nat
    BY FS_CardinalityType
  <2> QED BY <2>1, <2>2, <2>3, BudgetFacts
<1>1. ASSUME Running' \subseteq Running, \A h \in Hub : Budget(h)' <= Budget(h)
      PROVE  FleetCap'
  <2>1. Budgets' \subseteq Budgets
    <3> SUFFICES ASSUME NEW p \in Budgets' PROVE p \in Budgets
      OBVIOUS
    <3>1. p \in Hub \X (1 .. Cap) /\ p[1] \in Hub /\ p[2] \in Nat /\ p[2] <= Budget(p[1])'
      BY DEF Budgets
    <3>2. Budget(p[1])' <= Budget(p[1]) /\ Budget(p[1]) \in Nat /\ Budget(p[1])' \in Nat
      BY <1>0, <1>1, <3>1
    <3>3. p[2] <= Budget(p[1])
      BY <3>1, <3>2
    <3> QED BY <3>1, <3>3 DEF Budgets
  <2>2. Cardinality(Budgets') <= Cardinality(Budgets)
    BY <1>0, <2>1, BudgetFacts
  <2>3. Cardinality(Running') <= Cardinality(Running)
    BY <1>1, SmallSets
  <2>4. \A h \in Hub : Budget(h)' <= Cap
    BY <1>0, <1>1 DEF FleetCap
  <2> QED BY <1>0, <2>2, <2>3, <2>4 DEF FleetCap
<1>2. ASSUME NEW h \in Hub, BeginClaim(h) PROVE FleetCap'
  <2> DEFINE k == Cap - Cardinality(Running)
             Rest == (Hub \ {h}) \X (1 .. Cap)
             Own == {h} \X (1 .. k)
  <2>1. /\ Running' = Running /\ claimed' = claimed /\ slots'[h] = k /\ claimed'[h] = {}
        /\ \A g \in Hub \ {h} : slots'[g] = slots[g]
        /\ k \in 0 .. Cap
    BY <1>0, <1>2 DEF BeginClaim, Running, LockInv, TypeOK, PickedOK
  <2>2. Budget(h)' = k /\ \A g \in Hub \ {h} : Budget(g)' = Budget(g)
    <3>1. Cardinality(claimed'[h]) = 0
      BY <2>1, FS_EmptySet
    <3> QED BY <2>1, <3>1 DEF Budget
  <2>3. \A g \in Hub : Budget(g)' <= Cap
    BY <1>0, <2>1, <2>2 DEF FleetCap
  <2>4. Budgets' \subseteq Rest \cup Own
    <3> SUFFICES ASSUME NEW p \in Budgets' PROVE p \in Rest \cup Own
      OBVIOUS
    <3>1. p \in Hub \X (1 .. Cap) /\ p = <<p[1], p[2]>> /\ p[1] \in Hub /\ p[2] \in 1 .. Cap
          /\ p[2] <= Budget(p[1])'
      BY DEF Budgets
    <3>2. CASE p[1] = h
      <4>1. p[2] \in 1 .. k
        BY <2>1, <2>2, <3>1, <3>2
      <4> QED BY <3>1, <3>2, <4>1
    <3>3. CASE p[1] # h
      BY <3>1, <3>3
    <3> QED BY <3>2, <3>3
  <2>5. IsFiniteSet(Own) /\ Cardinality(Own) = k
    BY <2>1, BudgetFacts
  <2>6. IsFiniteSet(Rest) /\ Cardinality(Rest) = (Cardinality(Hub) - 1) * Cap
    <3>1. Cardinality(Hub \ {h}) = Cardinality(Hub) - 1
      BY FS_RemoveElement
    <3> QED BY <3>1, BudgetFacts
  <2>7. Cardinality(Rest \cup Own) = Cardinality(Rest) + Cardinality(Own) /\ IsFiniteSet(Rest \cup Own)
    <3>1. Rest \cap Own = {}
      OBVIOUS
    <3>2. Cardinality(Rest \cap Own) = 0
      BY <3>1, FS_EmptySet
    <3>3. Cardinality(Rest) \in Nat /\ Cardinality(Own) \in Nat
      BY <2>5, <2>6, FS_CardinalityType
    <3> HIDE DEF Rest, Own
    <3>4. /\ Cardinality(Rest \cup Own) = Cardinality(Rest) + Cardinality(Own) - Cardinality(Rest \cap Own)
          /\ IsFiniteSet(Rest \cup Own)
      BY <2>5, <2>6, FS_Union
    <3> QED BY <3>2, <3>3, <3>4
  <2>8. Cardinality(Budgets') <= Cardinality(Rest \cup Own)
    BY <2>4, <2>7, FS_Subset
  <2>9. (Cardinality(Hub) - 1) * Cap = Cardinality(Hub) * Cap - Cap
    <3>1. Cardinality(Hub) \in Nat
      BY FS_CardinalityType
    <3> QED BY <1>0, <3>1
  <2>10. Cardinality(Rest \cup Own) = Cardinality(Hub) * Cap - Cap + (Cap - Cardinality(Running))
    BY <2>5, <2>6, <2>7, <2>9
  <2> HIDE DEF Rest, Own
  <2>11. Cardinality(Running') + Cardinality(Budgets') <= Cardinality(Hub) * Cap
    BY <1>0, <2>1, <2>8, <2>10
  <2> QED BY <2>3, <2>11 DEF FleetCap
<1>3. ASSUME NEW h \in Hub, Promote(h) PROVE FleetCap'
  <2>1. /\ picked[h] \in Cycle /\ picked[h] \notin claimed[h] /\ claimed[h] \in SUBSET Cycle
        /\ slots[h] \in Nat /\ Running' = Running
        /\ claimed'[h] = claimed[h] \cup {picked[h]} /\ slots'[h] = slots[h] - 1
        /\ \A g \in Hub \ {h} : slots'[g] = slots[g] /\ claimed'[g] = claimed[g]
    BY <1>3 DEF Promote, LockInv, TypeOK, PickedOK, Running
  <2>2. Cardinality(claimed'[h]) = Cardinality(claimed[h]) + 1 /\ Cardinality(claimed[h]) \in Nat
    <3>1. IsFiniteSet(claimed[h]) /\ Cardinality(claimed[h]) \in Nat
      BY <2>1, SmallSets
    <3>2. Cardinality(claimed[h] \cup {picked[h]}) = Cardinality(claimed[h]) + 1
      BY <2>1, <3>1, FS_AddElement
    <3> QED BY <2>1, <3>1, <3>2
  <2>3. slots'[h] + Cardinality(claimed'[h]) = slots[h] + Cardinality(claimed[h])
    BY <2>1, <2>2
  <2>4. \A g \in Hub \ {h} : Cardinality(claimed'[g]) = Cardinality(claimed[g])
    BY <2>1
  <2>5. \A g \in Hub : Budget(g)' = Budget(g)
    BY <2>1, <2>3, <2>4 DEF Budget
  <2> QED BY <1>0, <1>1, <2>1, <2>5
<1>4. ASSUME NEW h \in Hub, Commit(h) PROVE FleetCap'
  <2> DEFINE k == Budget(h)
             Own == {h} \X (1 .. k)
  <2>1. /\ claimed[h] \in SUBSET Cycle /\ claimed[h] \cap Running = {}
        /\ Running' = Running \cup claimed[h] /\ claimed'[h] = {} /\ slots'[h] = 0
        /\ \A g \in Hub \ {h} : slots'[g] = slots[g] /\ claimed'[g] = claimed[g]
    BY <1>4 DEF Commit, LockInv, TypeOK, ClaimedOK, Running
  <2>2. Budget(h)' = 0 /\ \A g \in Hub \ {h} : Budget(g)' = Budget(g)
    <3>1. Cardinality(claimed'[h]) = 0
      BY <2>1, FS_EmptySet
    <3> QED BY <2>1, <3>1 DEF Budget
  <2>3. k \in 0 .. Cap /\ Cardinality(claimed[h]) <= k /\ Cardinality(claimed[h]) \in Nat
    <3>1. slots[h] \in Nat /\ Cardinality(claimed[h]) \in Nat
      BY BudgetFacts DEF LockInv, TypeOK
    <3> QED BY <1>0, <3>1 DEF FleetCap, Budget
  <2>4. Budgets = Budgets' \cup Own /\ Budgets' \cap Own = {}
    <3>1. ASSUME NEW p \in Hub \X (1 .. Cap)
          PROVE  (p \in Budgets <=> p \in Budgets' \/ p \in Own) /\ ~(p \in Budgets' /\ p \in Own)
      <4>1. p = <<p[1], p[2]>> /\ p[1] \in Hub /\ p[2] \in 1 .. Cap
        OBVIOUS
      <4>2. (p \in Budgets <=> p[2] <= Budget(p[1])) /\ (p \in Budgets' <=> p[2] <= Budget(p[1])')
        BY DEF Budgets
      <4>3. p \in Own <=> p[1] = h /\ p[2] <= Budget(h)
        BY <2>3, <4>1
      <4>4. CASE p[1] = h
        BY <2>2, <4>1, <4>2, <4>3, <4>4
      <4>5. CASE p[1] # h
        BY <2>2, <4>1, <4>2, <4>3, <4>5
      <4> QED BY <4>4, <4>5
    <3>2. Own \subseteq Hub \X (1 .. Cap)
      BY <2>3
    <3> HIDE DEF Own
    <3> QED BY <1>0, <3>1, <3>2
  <2>5. IsFiniteSet(Own) /\ Cardinality(Own) = k
    BY <2>3, BudgetFacts
  <2>6. Cardinality(Budgets) = Cardinality(Budgets') + k
    <3>1. Cardinality(Budgets' \cap Own) = 0 /\ IsFiniteSet(Budgets')
      BY <1>0, <2>4, FS_EmptySet, BudgetFacts
    <3>2. Cardinality(Budgets' \cup Own) =
             Cardinality(Budgets') + Cardinality(Own) - Cardinality(Budgets' \cap Own)
      BY <2>5, <3>1, FS_Union
    <3> HIDE DEF Own
    <3> QED BY <1>0, <2>3, <2>4, <2>5, <3>1, <3>2
  <2>7. Cardinality(Running') = Cardinality(Running) + Cardinality(claimed[h])
    <3>1. IsFiniteSet(Running) /\ IsFiniteSet(claimed[h]) /\ Cardinality(Running \cap claimed[h]) = 0
      BY <2>1, SmallSets, FS_EmptySet
    <3>2. Cardinality(Running \cup claimed[h]) =
             Cardinality(Running) + Cardinality(claimed[h]) - Cardinality(Running \cap claimed[h])
      BY <3>1, FS_Union
    <3> QED BY <1>0, <2>1, <2>3, <3>1, <3>2
  <2>8. Cardinality(Running') + Cardinality(Budgets') <= Cardinality(Hub) * Cap
    BY <1>0, <2>3, <2>6, <2>7 DEF FleetCap
  <2>9. \A g \in Hub : Budget(g)' <= Cap
    BY <1>0, <2>2 DEF FleetCap
  <2> QED BY <2>8, <2>9 DEF FleetCap
<1>5. ASSUME NEW h \in Hub, PromoteFails(h) \/ ClaimFails(h) \/ Restart(h) PROVE FleetCap'
  <2>1. /\ Running' = Running
        /\ \A g \in Hub : \/ claimed'[g] = {} /\ slots'[g] = 0
                          \/ claimed'[g] = claimed[g] /\ slots'[g] = slots[g]
    BY <1>5 DEF PromoteFails, ClaimFails, Restart, RollBack, Running, LockInv, TypeOK
  <2>2. \A g \in Hub : claimed'[g] = {} => Cardinality(claimed'[g]) = 0
    BY FS_EmptySet
  <2>3. \A g \in Hub : claimed'[g] = claimed[g] => Cardinality(claimed'[g]) = Cardinality(claimed[g])
    OBVIOUS
  <2>4. \A g \in Hub : Budget(g)' = 0 \/ Budget(g)' = Budget(g)
    BY <2>1, <2>2, <2>3 DEF Budget
  <2> QED BY <1>0, <1>1, <2>1, <2>4
<1>6. ASSUME NEW h \in Hub, NEW c \in Cycle, ReleaseCycle(h, c) PROVE FleetCap'
  <2>1. Running' \subseteq Running /\ claimed' = claimed /\ slots' = slots
    BY <1>6 DEF ReleaseCycle, Running, LockInv, TypeOK, claimVars
  <2>2. \A g \in Hub : Budget(g)' = Budget(g)
    BY <2>1 DEF Budget
  <2> QED BY <1>0, <1>1, <2>1, <2>2
<1>7. ASSUME NEW x \in Scan, NEW c \in Cycle, EnqueueCycle(x, c) PROVE FleetCap'
  <2>1. Running' \subseteq Running /\ claimed' = claimed /\ slots' = slots
    BY <1>7 DEF EnqueueCycle, Running, LockInv, TypeOK, claimVars
  <2>2. \A g \in Hub : Budget(g)' = Budget(g)
    BY <2>1 DEF Budget
  <2> QED BY <1>0, <1>1, <2>1, <2>2
<1>8. CASE UNCHANGED <<status, claimed, slots>>
  <2>1. Running' = Running /\ \A g \in Hub : Budget(g)' = Budget(g)
    BY <1>8 DEF Running, Budget
  <2> QED BY <1>0, <1>1, <2>1
<1>9. \/ UNCHANGED <<status, claimed, slots>>
      \/ \E h \in Hub : \/ BeginClaim(h) \/ Promote(h) \/ Commit(h)
                        \/ PromoteFails(h) \/ ClaimFails(h) \/ Restart(h)
                        \/ \E c \in Cycle : ReleaseCycle(h, c)
      \/ \E x \in Scan : \E c \in Cycle : EnqueueCycle(x, c)
  BY DEF Next, vars, Claim, Settle, claimVars, CheckActive, SkipSession, Pick, EndDrain, SettleRunner, ReleaseFails
<1> QED BY <1>2, <1>3, <1>4, <1>5, <1>6, <1>7, <1>8, <1>9

(* What the global cap is worth to a fleet: each claim is given what the   *)
(* cap leaves when it begins, so n hubs may run n times the cap, and never *)
(* more, whatever fails and restarts (queue.ts, claimCycles: the count of  *)
(* the running rows and the loop over the slots it leaves).                *)
FleetFits == Cardinality(Running) <= Cardinality(Hub) * Cap

THEOREM FleetCapRespected == IsFiniteSet(Hub) => (Spec => [](FleetCap /\ FleetFits))
<1> SUFFICES ASSUME IsFiniteSet(Hub) PROVE Spec => [](FleetCap /\ FleetFits)
  OBVIOUS
<1>1. Init => FleetCap
  <2> SUFFICES ASSUME Init PROVE FleetCap
    OBVIOUS
  <2>1. Running = {} /\ \A h \in Hub : claimed[h] = {} /\ slots[h] = 0
    BY DEF Init, Running
  <2>2. Cardinality({}) = 0
    BY FS_EmptySet
  <2>3. \A h \in Hub : Budget(h) = 0
    BY <2>1, <2>2 DEF Budget
  <2>4. Budgets = {}
    BY <2>3 DEF Budgets
  <2>5. Cardinality(Hub) \in Nat
    BY FS_CardinalityType
  <2>6. 0 <= Cardinality(Hub) * Cap
    BY <2>5
  <2> QED BY <2>1, <2>2, <2>3, <2>4, <2>6 DEF FleetCap
<1>2. Spec => []LockInv
  BY InitLockInv, NextLockInv, PTL DEF Spec
<1>3. LockInv /\ LockInv' /\ FleetCap /\ [Next]_vars => FleetCap'
  BY NextFleetCap
<1>4. LockInv /\ FleetCap => FleetFits
  <2> SUFFICES ASSUME LockInv, FleetCap PROVE FleetFits
    OBVIOUS
  <2>1. Budgets \in SUBSET (Hub \X (1 .. Cap))
    BY DEF Budgets
  <2>2. Cardinality(Budgets) \in Nat /\ Cardinality(Running) \in Nat /\ Cardinality(Hub) \in Nat
    BY <2>1, BudgetFacts, FS_CardinalityType
  <2>3. Cardinality(Hub) * Cap \in Nat
    BY <2>2
  <2> QED BY <2>2, <2>3 DEF FleetCap, FleetFits
<1> QED BY <1>1, <1>2, <1>3, <1>4, PTL DEF Spec

-----------------------------------------------------------------------------
(* The backlog of a session.                                               *)

ActiveOf(s) == {c \in Cycle : SessionOf[c] = s /\ status[c] \in {"pending", "running"}}
ScansOf(s) == {x \in Scan : scan[x] = s}

(* A pass that found the session without an active cycle may still enqueue *)
(* one: its check counts as the cycle it may become.                       *)
BacklogInv ==
    \A s \in Session : Cardinality(ActiveOf(s)) + Cardinality(ScansOf(s)) <= Cardinality(Scan)

LEMMA NextBacklogInv ==
    ASSUME IsFiniteSet(Scan), LockInv, LockInv', BacklogInv, [Next]_vars
    PROVE  BacklogInv'
<1> SUFFICES ASSUME NEW s \in Session
             PROVE  Cardinality(ActiveOf(s)') + Cardinality(ScansOf(s)') <= Cardinality(Scan)
  BY DEF BacklogInv
<1>0. /\ status \in [Cycle -> Status] /\ scan \in [Scan -> Session \cup {None}]
      /\ Cardinality(ActiveOf(s)) + Cardinality(ScansOf(s)) <= Cardinality(Scan)
  BY DEF LockInv, TypeOK, BacklogInv
<1>1. /\ ActiveOf(s) \in SUBSET Cycle /\ ActiveOf(s)' \in SUBSET Cycle
      /\ IsFiniteSet(ActiveOf(s)) /\ IsFiniteSet(ActiveOf(s)')
      /\ Cardinality(ActiveOf(s)) \in Nat /\ Cardinality(ActiveOf(s)') \in Nat
  <2>1. ActiveOf(s) \in SUBSET Cycle /\ ActiveOf(s)' \in SUBSET Cycle
    BY DEF ActiveOf
  <2> QED BY <2>1, SmallSets
<1>2. /\ ScansOf(s) \in SUBSET Scan /\ ScansOf(s)' \in SUBSET Scan
      /\ IsFiniteSet(ScansOf(s)) /\ IsFiniteSet(ScansOf(s)')
      /\ Cardinality(ScansOf(s)) \in Nat /\ Cardinality(ScansOf(s)') \in Nat
      /\ Cardinality(Scan) \in Nat /\ Cardinality(ScansOf(s)') <= Cardinality(Scan)
  <2>1. ScansOf(s) \in SUBSET Scan /\ ScansOf(s)' \in SUBSET Scan
    BY DEF ScansOf
  <2> QED BY <2>1, FS_Subset, FS_CardinalityType
<1>3. ASSUME ActiveOf(s)' \subseteq ActiveOf(s), ScansOf(s)' \subseteq ScansOf(s)
      PROVE  Cardinality(ActiveOf(s)') + Cardinality(ScansOf(s)') <= Cardinality(Scan)
  <2>1. Cardinality(ActiveOf(s)') <= Cardinality(ActiveOf(s))
    BY <1>1, <1>3, FS_Subset
  <2>2. Cardinality(ScansOf(s)') <= Cardinality(ScansOf(s))
    BY <1>2, <1>3, FS_Subset
  <2> QED BY <1>0, <1>1, <1>2, <2>1, <2>2
<1>4. ASSUME NEW x \in Scan, NEW t \in Session, CheckActive(x, t)
      PROVE  Cardinality(ActiveOf(s)') + Cardinality(ScansOf(s)') <= Cardinality(Scan)
  <2>1. scan[x] = None /\ scan' = [scan EXCEPT ![x] = t] /\ status' = status /\ ~HasActiveCycle(t)
    BY <1>4 DEF CheckActive
  <2>2. ActiveOf(s)' = ActiveOf(s)
    BY <2>1 DEF ActiveOf
  <2>3. CASE t = s
    <3>1. ActiveOf(s)' = {}
      BY <2>1, <2>2, <2>3 DEF ActiveOf, HasActiveCycle
    <3>2. Cardinality(ActiveOf(s)') = 0
      BY <3>1, FS_EmptySet
    <3> QED BY <1>2, <3>2
  <2>4. CASE t # s
    <3>1. ScansOf(s)' = ScansOf(s)
      BY <1>0, <2>1, <2>4 DEF ScansOf
    <3> QED BY <1>3, <2>2, <3>1
  <2> QED BY <2>3, <2>4
<1>5. ASSUME NEW x \in Scan, NEW e \in Cycle, EnqueueCycle(x, e)
      PROVE  Cardinality(ActiveOf(s)') + Cardinality(ScansOf(s)') <= Cardinality(Scan)
  <2>1. /\ scan[x] = SessionOf[e] /\ status[e] = "none" /\ SessionOf[e] # None
        /\ status' = [status EXCEPT ![e] = "pending"] /\ scan' = [scan EXCEPT ![x] = None]
    BY <1>5 DEF EnqueueCycle
  <2>2. CASE SessionOf[e] = s
    <3>1. ActiveOf(s)' = ActiveOf(s) \cup {e} /\ e \notin ActiveOf(s)
      BY <1>0, <2>1, <2>2 DEF ActiveOf
    <3>2. ScansOf(s)' = ScansOf(s) \ {x} /\ x \in ScansOf(s)
      BY <1>0, <2>1, <2>2 DEF ScansOf
    <3>3. Cardinality(ActiveOf(s)') = Cardinality(ActiveOf(s)) + 1
      BY <1>1, <3>1, FS_AddElement
    <3>4. Cardinality(ScansOf(s)') = Cardinality(ScansOf(s)) - 1
      BY <1>2, <3>2, FS_RemoveElement
    <3> QED BY <1>0, <1>1, <1>2, <3>3, <3>4
  <2>3. CASE SessionOf[e] # s
    <3>1. ActiveOf(s)' = ActiveOf(s)
      BY <1>0, <2>1, <2>3 DEF ActiveOf
    <3>2. ScansOf(s)' \subseteq ScansOf(s)
      BY <1>0, <2>1, <2>3 DEF ScansOf
    <3> QED BY <1>3, <3>1, <3>2
  <2> QED BY <2>2, <2>3
<1>6. ASSUME NEW x \in Scan, SkipSession(x)
      PROVE  Cardinality(ActiveOf(s)') + Cardinality(ScansOf(s)') <= Cardinality(Scan)
  <2>1. status' = status /\ scan' = [scan EXCEPT ![x] = None] /\ s # None
    BY <1>6 DEF SkipSession
  <2>2. ActiveOf(s)' = ActiveOf(s) /\ ScansOf(s)' \subseteq ScansOf(s)
    BY <1>0, <2>1 DEF ActiveOf, ScansOf
  <2> QED BY <1>3, <2>2
<1>7. ASSUME NEW h \in Hub, Commit(h) \/ \E e \in Cycle : ReleaseCycle(h, e)
      PROVE  Cardinality(ActiveOf(s)') + Cardinality(ScansOf(s)') <= Cardinality(Scan)
  <2>1. \A c \in Cycle : status'[c] \in {"pending", "running"} => status[c] \in {"pending", "running"}
    BY <1>0, <1>7 DEF Commit, ReleaseCycle, LockInv, ClaimedOK
  <2>2. ActiveOf(s)' \subseteq ActiveOf(s)
    BY <2>1 DEF ActiveOf
  <2>3. ScansOf(s)' = ScansOf(s)
    BY <1>7 DEF Commit, ReleaseCycle, ScansOf
  <2> QED BY <1>3, <2>2, <2>3
<1>8. CASE UNCHANGED <<status, scan>>
  <2>1. ActiveOf(s)' = ActiveOf(s) /\ ScansOf(s)' = ScansOf(s)
    BY <1>8 DEF ActiveOf, ScansOf
  <2> QED BY <1>3, <2>1
<1>9. \/ UNCHANGED <<status, scan>>
      \/ \E x \in Scan : \/ \E t \in Session : CheckActive(x, t)
                         \/ \E e \in Cycle : EnqueueCycle(x, e)
                         \/ SkipSession(x)
      \/ \E h \in Hub : Commit(h) \/ \E e \in Cycle : ReleaseCycle(h, e)
  BY DEF Next, vars, Claim, Settle, BeginClaim, Pick, Promote, PromoteFails, ClaimFails, RollBack,
     EndDrain, SettleRunner, ReleaseFails, Restart
<1> QED BY <1>4, <1>5, <1>6, <1>7, <1>8, <1>9

(* The passes of the due-scan check and enqueue without a lock, so two may *)
(* both find a session idle: it has at most one active cycle for each pass *)
(* that can run at once, and a single pass at a time never stacks a second *)
(* one (controller.ts, "IN-FLIGHT GUARD").                                 *)
BacklogBounded == \A s \in Session : Cardinality(ActiveOf(s)) <= Cardinality(Scan)

THEOREM BacklogRespected == IsFiniteSet(Scan) => (Spec => []BacklogBounded)
<1> SUFFICES ASSUME IsFiniteSet(Scan) PROVE Spec => []BacklogBounded
  OBVIOUS
<1>1. Init => BacklogInv
  <2> SUFFICES ASSUME Init, NEW s \in Session
               PROVE  Cardinality(ActiveOf(s)) + Cardinality(ScansOf(s)) <= Cardinality(Scan)
    BY DEF BacklogInv
  <2>1. ActiveOf(s) = {} /\ ScansOf(s) = {}
    BY DEF Init, ActiveOf, ScansOf
  <2>2. Cardinality(ActiveOf(s)) = 0 /\ Cardinality(ScansOf(s)) = 0
    BY <2>1, FS_EmptySet
  <2>3. Cardinality(Scan) \in Nat
    BY FS_CardinalityType
  <2> QED BY <2>2, <2>3
<1>2. Spec => []LockInv
  BY InitLockInv, NextLockInv, PTL DEF Spec
<1>3. LockInv /\ LockInv' /\ BacklogInv /\ [Next]_vars => BacklogInv'
  BY NextBacklogInv
<1>4. LockInv /\ BacklogInv => BacklogBounded
  <2> SUFFICES ASSUME LockInv, BacklogInv, NEW s \in Session
               PROVE  Cardinality(ActiveOf(s)) <= Cardinality(Scan)
    BY DEF BacklogBounded
  <2>1. ActiveOf(s) \in SUBSET Cycle /\ ScansOf(s) \in SUBSET Scan
    BY DEF ActiveOf, ScansOf
  <2>2. /\ Cardinality(ActiveOf(s)) \in Nat /\ Cardinality(ScansOf(s)) \in Nat
        /\ Cardinality(Scan) \in Nat
    BY <2>1, SmallSets, FS_Subset, FS_CardinalityType
  <2> QED BY <2>2 DEF BacklogInv
<1> QED BY <1>1, <1>2, <1>3, <1>4, PTL DEF Spec

-----------------------------------------------------------------------------
(* A claim under way can always go on.                                     *)

(* The rows are enqueued one after another: no two at the same time.       *)
RankInv ==
    /\ \A c \in Enqueued : at[c] < Cardinality(Enqueued)
    /\ \A c, d \in Enqueued : at[c] = at[d] => c = d

LEMMA NextRankInv ==
    ASSUME LockInv, LockInv', RankInv, [Next]_vars
    PROVE  RankInv'
<1>0. at \in [Cycle -> Nat] /\ status \in [Cycle -> Status] /\ Enqueued \in SUBSET Cycle
  BY DEF LockInv, TypeOK, Enqueued
<1>1. CASE at' = at /\ Enqueued' = Enqueued
  BY <1>1 DEF RankInv
<1>2. ASSUME NEW x \in Scan, NEW e \in Cycle, EnqueueCycle(x, e) PROVE RankInv'
  <2>1. /\ status[e] = "none" /\ status' = [status EXCEPT ![e] = "pending"]
        /\ at' = [at EXCEPT ![e] = Cardinality(Enqueued)]
    BY <1>2 DEF EnqueueCycle, Enqueued
  <2>2. Enqueued' = Enqueued \cup {e} /\ e \notin Enqueued
    BY <1>0, <2>1 DEF Enqueued
  <2>3. IsFiniteSet(Enqueued) /\ Cardinality(Enqueued) \in Nat
    BY <1>0, SmallSets
  <2>4. Cardinality(Enqueued') = Cardinality(Enqueued) + 1
    BY <2>2, <2>3, FS_AddElement
  <2>5. \A c \in Enqueued : at'[c] = at[c] /\ at[c] \in Nat /\ at[c] < Cardinality(Enqueued)
    BY <1>0, <2>1, <2>2 DEF RankInv
  <2>6. at'[e] = Cardinality(Enqueued)
    BY <1>0, <2>1
  <2>7. \A c \in Enqueued' : at'[c] < Cardinality(Enqueued')
    BY <2>2, <2>3, <2>4, <2>5, <2>6
  <2>8. ASSUME NEW c \in Enqueued', NEW d \in Enqueued', at'[c] = at'[d] PROVE c = d
    <3>1. CASE c \in Enqueued /\ d \in Enqueued
      BY <2>5, <2>8, <3>1 DEF RankInv
    <3>2. CASE c = e \/ d = e
      BY <2>2, <2>3, <2>5, <2>6, <2>8, <3>2
    <3> QED BY <2>2, <3>1, <3>2
  <2> QED BY <2>7, <2>8 DEF RankInv
<1>3. ASSUME NEW h \in Hub, Commit(h) PROVE at' = at /\ Enqueued' = Enqueued
  <2>1. at' = at /\ status' = [c \in Cycle |-> IF c \in claimed[h] THEN "running" ELSE status[c]]
    BY <1>3 DEF Commit
  <2>2. \A c \in claimed[h] : status[c] = "pending"
    BY DEF LockInv, ClaimedOK
  <2> QED BY <2>1, <2>2 DEF Enqueued
<1>4. ASSUME NEW h \in Hub, NEW e \in Cycle, ReleaseCycle(h, e) PROVE at' = at /\ Enqueued' = Enqueued
  <2>1. PICK p \in {"done", "failed"} :
           status' = [status EXCEPT ![e] = IF @ = "running" THEN p ELSE @]
    BY <1>4 DEF ReleaseCycle
  <2>2. \A c \in Cycle : status'[c] = "none" <=> status[c] = "none"
    BY <1>0, <2>1
  <2> QED BY <1>4, <2>2 DEF ReleaseCycle, Enqueued
<1>5. \/ UNCHANGED <<status, at>>
      \/ \E h \in Hub : Commit(h) \/ \E c \in Cycle : ReleaseCycle(h, c)
      \/ \E x \in Scan : \E c \in Cycle : EnqueueCycle(x, c)
  BY DEF Next, vars, Claim, Settle, CheckActive, SkipSession, BeginClaim, Pick, Promote, PromoteFails,
     ClaimFails, RollBack, EndDrain, SettleRunner, ReleaseFails, Restart
<1>6. CASE UNCHANGED <<status, at>>
  BY <1>1, <1>6 DEF Enqueued
<1> QED BY <1>1, <1>2, <1>3, <1>4, <1>5, <1>6

LEMMA RankInvariant == Spec => [](LockInv /\ RankInv)
<1>1. Init => RankInv
  BY DEF Init, RankInv, Enqueued
<1>2. Spec => []LockInv
  BY InitLockInv, NextLockInv, PTL DEF Spec
<1>3. LockInv /\ LockInv' /\ RankInv /\ [Next]_vars => RankInv'
  BY NextRankInv
<1> QED BY <1>1, <1>2, <1>3, PTL DEF Spec

(* The rows a claim may take have a first one in its ORDER BY: of the sets *)
(* of the rows before each of them one is least, and it is empty.          *)
LEMMA FirstRow ==
    ASSUME LockInv, RankInv, NEW h \in Hub, Eligible(h) # {}
    PROVE  \E c \in Eligible(h) : \A d \in Eligible(h) \ {c} : Before(c, d)
<1> DEFINE E == Eligible(h)
           Earlier(c) == {d \in E : Before(d, c)}
           F == {Earlier(c) : c \in E}
<1>1. /\ E \in SUBSET Cycle /\ E \subseteq Enqueued
      /\ \A c \in E : at[c] \in Nat /\ PriorityOf[c] \in Int
  BY DEF Eligible, Enqueued, LockInv, TypeOK
<1>2. IsFiniteSet(E) /\ F \subseteq FiniteSubsetsOf(E)
  <2>1. \A S \in SUBSET E : IsFiniteSet(S)
    BY <1>1, SmallSets
  <2> QED BY <2>1 DEF FiniteSubsetsOf
<1>3. IsWellFoundedOn(StrictSubsetOrdering(E), FiniteSubsetsOf(E))
  BY FS_StrictSubsetOrderingWellFounded
<1>4. PICK M \in F : \A N \in F : <<N, M>> \notin StrictSubsetOrdering(E)
  <2>1. F # {}
    <3>1. PICK c \in E : TRUE
      OBVIOUS
    <3>2. Earlier(c) \in F
      OBVIOUS
    <3> QED BY <3>2
  <2> HIDE DEF E, F
  <2> QED BY <1>2, <1>3, <2>1, WFMin
<1>5. PICK c \in E : M = Earlier(c)
  OBVIOUS
<1>6. Earlier(c) = {}
  <2> SUFFICES ASSUME NEW d \in Earlier(c) PROVE FALSE
    OBVIOUS
  <2>1. d \in E /\ Before(d, c)
    OBVIOUS
  <2>2. Earlier(d) \subseteq Earlier(c)
    BY <1>1, <2>1 DEF Before
  <2>3. d \notin Earlier(d)
    BY <1>1, <2>1 DEF Before
  <2>4. <<Earlier(d), Earlier(c)>> \in StrictSubsetOrdering(E)
    BY <2>2, <2>3 DEF StrictSubsetOrdering
  <2> QED BY <1>4, <1>5, <2>1, <2>4
<1>7. ASSUME NEW d \in E \ {c} PROVE Before(c, d)
  <2>1. ~Before(d, c)
    BY <1>6
  <2>2. at[c] # at[d]
    BY <1>1 DEF RankInv
  <2> QED BY <1>1, <2>1, <2>2 DEF Before
<1> QED BY <1>5, <1>7

(* The next statement of the claim of a hub succeeds, or fails for good:   *)
(* the guards of Pick, Commit, Promote and PromoteFails.                   *)
ClaimCanStep(h) ==
    \/ /\ drain[h] = "picking"
       /\ slots[h] = 0 \/ Eligible(h) = {}
    \/ /\ drain[h] = "picking" /\ slots[h] > 0
       /\ \E c \in Eligible(h) : \A d \in Eligible(h) \ {c} : Before(c, d)
    \/ /\ drain[h] = "promoting"
       /\ WaitsFor(h) = {} \/ Deadlocked(h)

Claiming(h) == drain[h] \in {"picking", "promoting"}

(* Claims of several hubs that lock rows and wait for each other's index   *)
(* entries never all wait: as long as one is under way, one can take its   *)
(* next step.                                                              *)
ClaimsGoOn == (\E h \in Hub : Claiming(h)) => \E h \in Hub : ClaimCanStep(h)

LEMMA ClaimGoesOn ==
    ASSUME LockInv, RankInv
    PROVE  /\ ClaimsGoOn
           /\ \A h \in Hub : drain[h] = "picking" => ClaimCanStep(h)
<1>1. ASSUME NEW h \in Hub, drain[h] = "picking" PROVE ClaimCanStep(h)
  <2>1. slots[h] = 0 \/ slots[h] > 0
    BY DEF LockInv, TypeOK
  <2>2. Eligible(h) # {} => \E c \in Eligible(h) : \A d \in Eligible(h) \ {c} : Before(c, d)
    BY FirstRow
  <2> QED BY <1>1, <2>1, <2>2 DEF ClaimCanStep
<1>2. ASSUME NEW h \in Hub, drain[h] = "promoting", \A g \in Hub : ~ClaimCanStep(g) PROVE FALSE
  <2> DEFINE S == {g \in Hub : drain[g] = "promoting"}
  <2>1. \A g \in S : WaitsFor(g) # {}
    BY <1>2 DEF ClaimCanStep
  <2>2. \A g \in Hub : claimed[g] # {} => g \in S
    BY <1>1, <1>2 DEF LockInv, TypeOK, PickedOK
  <2>3. \A g \in S : WaitsFor(g) \cap S # {}
    BY <2>1, <2>2 DEF WaitsFor
  <2>4. Deadlocked(h)
    BY <1>2, <2>3 DEF Deadlocked
  <2> QED BY <1>2, <2>4 DEF ClaimCanStep
<1>3. ClaimsGoOn
  BY <1>1, <1>2 DEF ClaimsGoOn, Claiming
<1> QED BY <1>1, <1>3

(* In every environment the claims of a fleet go on: the wait on the index *)
(* of the running rows is never one that nobody ends (claimCycles, the     *)
(* UPDATE after SELECT .. FOR UPDATE SKIP LOCKED).                         *)
THEOREM ClaimsNeverStuck == Spec => []ClaimsGoOn
<1>1. LockInv /\ RankInv => ClaimsGoOn
  BY ClaimGoesOn
<1> QED BY <1>1, RankInvariant, PTL

-----------------------------------------------------------------------------
(* While the database answers and no hub restarts, a lock has a runner.    *)

Undisturbed == ~DbFails /\ MaxRestarts = 0

HasRunner(c) == \E h \in Hub : \E p \in Phase : <<c, p>> \in work[h]

(* Every running row, the lock of its session, is in the hands of a hub    *)
(* that will release it.                                                   *)
LocksHaveRunners == \A c \in Running : HasRunner(c)

LEMMA NextLocksHaveRunners ==
    ASSUME Undisturbed, LockInv, LocksHaveRunners, [Next]_vars
    PROVE  LocksHaveRunners'
<1>0. work \in [Hub -> SUBSET (Cycle \X Phase)] /\ status \in [Cycle -> Status]
  BY DEF LockInv, TypeOK
<1>1. CASE UNCHANGED <<status, work>>
  BY <1>1 DEF LocksHaveRunners, HasRunner, Running
<1>2. ASSUME NEW x \in Scan, NEW e \in Cycle, EnqueueCycle(x, e) PROVE LocksHaveRunners'
  <2>1. Running' = Running /\ work' = work
    BY <1>0, <1>2 DEF EnqueueCycle, Running
  <2> QED BY <2>1 DEF LocksHaveRunners, HasRunner
<1>3. ASSUME NEW h \in Hub, Commit(h) PROVE LocksHaveRunners'
  <2>1. /\ work[h] = {} /\ claimed[h] \in SUBSET Cycle /\ Running' = Running \cup claimed[h]
        /\ work' = [work EXCEPT ![h] = claimed[h] \X {"run"}]
    BY <1>3 DEF LockInv, TypeOK, WorkOK, Commit, Running
  <2>2. ASSUME NEW c \in Running PROVE HasRunner(c)'
    BY <1>0, <2>1 DEF LocksHaveRunners, HasRunner
  <2>3. ASSUME NEW c \in claimed[h] PROVE HasRunner(c)'
    <3>1. <<c, "run">> \in work'[h]
      BY <1>0, <2>1
    <3> QED BY <3>1 DEF HasRunner, Phase
  <2> QED BY <2>1, <2>2, <2>3 DEF LocksHaveRunners
<1>4. ASSUME NEW h \in Hub, NEW e \in Cycle, SettleRunner(h, e) PROVE LocksHaveRunners'
  <2>1. PICK p \in {"done", "failed"} :
           work' = [work EXCEPT ![h] = (@ \ {<<e, "run">>}) \cup {<<e, p>>}]
    BY <1>4 DEF SettleRunner
  <2>2. Running' = Running
    BY <1>4 DEF SettleRunner, Running
  <2>3. ASSUME NEW c \in Running PROVE HasRunner(c)'
    <3>1. CASE c = e
      <4>1. <<c, p>> \in work'[h]
        BY <1>0, <2>1, <3>1
      <4> QED BY <4>1 DEF HasRunner, Phase
    <3>2. CASE c # e
      <4>1. PICK g \in Hub, q \in Phase : <<c, q>> \in work[g]
        BY DEF LocksHaveRunners, HasRunner
      <4>2. <<c, q>> \in work'[g]
        BY <1>0, <2>1, <3>2, <4>1
      <4> QED BY <4>2 DEF HasRunner
    <3> QED BY <3>1, <3>2
  <2> QED BY <2>2, <2>3 DEF LocksHaveRunners
<1>5. ASSUME NEW h \in Hub, NEW e \in Cycle, ReleaseCycle(h, e) PROVE LocksHaveRunners'
  <2>1. PICK p \in {"done", "failed"} :
           /\ <<e, p>> \in work[h]
           /\ status' = [status EXCEPT ![e] = IF @ = "running" THEN p ELSE @]
           /\ work' = [work EXCEPT ![h] = @ \ {<<e, p>>}]
    BY <1>5 DEF ReleaseCycle
  <2>2. Running' \subseteq Running \ {e}
    BY <1>0, <2>1 DEF Running
  <2>3. ASSUME NEW c \in Running', c # e PROVE HasRunner(c)'
    <3>1. PICK g \in Hub, q \in Phase : <<c, q>> \in work[g]
      BY <2>2 DEF LocksHaveRunners, HasRunner
    <3>2. <<c, q>> \in work'[g]
      BY <1>0, <2>1, <2>3, <3>1
    <3> QED BY <3>2 DEF HasRunner
  <2> QED BY <2>2, <2>3 DEF LocksHaveRunners
<1>6. \/ UNCHANGED <<status, work>>
      \/ \E h \in Hub : Commit(h) \/ \E c \in Cycle : SettleRunner(h, c) \/ ReleaseCycle(h, c)
      \/ \E x \in Scan : \E c \in Cycle : EnqueueCycle(x, c)
  <2>1. ~(restarts < MaxRestarts) /\ ~DbFails
    BY DEF Undisturbed, LockInv, TypeOK
  <2>2. \A h \in Hub : ~Restart(h) /\ \A c \in Cycle : ~ReleaseFails(h, c)
    BY <2>1 DEF Restart, ReleaseFails
  <2> QED BY <2>2 DEF Next, vars, Claim, Settle, CheckActive, SkipSession, BeginClaim, Pick, Promote,
             PromoteFails, ClaimFails, RollBack, EndDrain
<1> QED BY <1>1, <1>2, <1>3, <1>4, <1>5, <1>6

(* A session's lock is never left behind while nothing fails: what the     *)
(* reaper of stuck rows repairs comes from faults and restarts alone       *)
(* (drainOnce: the releases in the runners' then and catch).               *)
THEOREM LocksNeverLeak == Undisturbed => (Spec => []LocksHaveRunners)
<1> SUFFICES ASSUME Undisturbed PROVE Spec => []LocksHaveRunners
  OBVIOUS
<1>1. Init => LocksHaveRunners
  BY DEF Init, LocksHaveRunners, Running
<1>2. Spec => []LockInv
  BY InitLockInv, NextLockInv, PTL DEF Spec
<1>3. LockInv /\ LocksHaveRunners /\ [Next]_vars => LocksHaveRunners'
  BY NextLocksHaveRunners
<1> QED BY <1>1, <1>2, <1>3, PTL DEF Spec

(* A hub has something to do: a tick that may claim, a step of its claim,  *)
(* a runner or a release, or the end of the drain.                         *)
HubCanStep(h) ==
    \/ drain[h] = "idle" /\ Cardinality(Running) < Cap
    \/ ClaimCanStep(h)
    \/ work[h] # {}
    \/ drain[h] = "running" /\ work[h] = {}

(* While a row is pending or running, some hub has something to do.        *)
QueueGoesOn ==
    (\E c \in Cycle : status[c] \in {"pending", "running"}) => \E h \in Hub : HubCanStep(h)

(* The safety half of "every cycle settles": with an enabled hub, and      *)
(* nothing failing, the queue is never stuck with a row to run.            *)
THEOREM QueueNeverStuck == Undisturbed /\ Hub # {} => (Spec => []QueueGoesOn)
<1> SUFFICES ASSUME Undisturbed, Hub # {} PROVE Spec => []QueueGoesOn
  OBVIOUS
<1>1. LockInv /\ RankInv /\ LocksHaveRunners => QueueGoesOn
  <2> SUFFICES ASSUME LockInv, RankInv, LocksHaveRunners PROVE \E h \in Hub : HubCanStep(h)
    BY DEF QueueGoesOn
  <2>1. CASE Running # {}
    BY <2>1 DEF LocksHaveRunners, HasRunner, HubCanStep
  <2>2. CASE Running = {}
    <3>1. Cardinality(Running) = 0
      BY <2>2, FS_EmptySet
    <3>2. PICK h \in Hub : TRUE
      OBVIOUS
    <3>3. drain[h] \in {"idle", "picking", "promoting", "running"}
      BY DEF LockInv, TypeOK
    <3>4. CASE drain[h] \in {"picking", "promoting"}
      BY <3>4, ClaimGoesOn DEF ClaimsGoOn, Claiming, HubCanStep
    <3>5. CASE drain[h] \in {"idle", "running"}
      BY <3>1, <3>5 DEF HubCanStep
    <3> QED BY <3>3, <3>4, <3>5
  <2> QED BY <2>1, <2>2
<1>2. Spec => []LocksHaveRunners
  BY LocksNeverLeak
<1> QED BY <1>1, <1>2, RankInvariant, PTL

=============================================================================
