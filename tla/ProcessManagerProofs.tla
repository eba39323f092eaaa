------------------------ MODULE ProcessManagerProofs ------------------------
(***************************************************************************)
(* Theorems about ProcessManager, for any number of runs and repositories  *)
(* and any caps.  Whatever bridges do: the type invariant, that a half-    *)
(* open breaker never waits for a run that is gone, that nobody waits for  *)
(* a timer that is not armed, that first runs fit into the cap, that a     *)
(* breaker closes only over a healthy probe and that trials are budgeted.  *)
(* Where the bridge of a crashed run stays quiet until the restart: the    *)
(* invariants that relate the runs of a repository.                        *)
(***************************************************************************)
EXTENDS ProcessManager, FiniteSetTheorems, TLAPS

USE RepoAssumption, BoundAssumption

-----------------------------------------------------------------------------
(* The values a run takes are RunInstances.                                *)

LEMMA NewRunType == NewRun \in RunInstance /\ NewBridge \in Bridge
BY DEF NewRun, NewBridge, RunInstance, Bridge, RunState, Listed, Counted

LEMMA StoppedType ==
    ASSUME NEW b \in Bridge \cup {None}
    PROVE  Stopped(b) \in Bridge \cup {None}
BY DEF Stopped, Bridge

LEMMA StoppedBridge ==
    ASSUME NEW b \in Bridge
    PROVE  b # None => Stopped(b).spawned = b.spawned
BY DEF Stopped, Bridge

LEMMA GoneType ==
    ASSUME NEW x \in RunInstance
    PROVE  Gone(x) \in RunInstance /\ Gone(x).state = "gone"
<1>1. (IF Up(x.bridge) THEN x.bridge ELSE None) \in Bridge \cup {None}
  BY DEF RunInstance
<1>2. \A b \in Bridge \cup {None} :
         /\ [NewRun EXCEPT !.state = "gone", !.bridge = b] \in RunInstance
         /\ [NewRun EXCEPT !.state = "gone", !.bridge = b].state = "gone"
  <2>1. "gone" \in RunState
    BY DEF RunState
  <2> QED BY <2>1, NewRunType DEF RunInstance
<1> QED BY <1>1, <1>2 DEF Gone

LEMMA RetiredType ==
    ASSUME NEW x \in RunInstance
    PROVE  Retired(x) \in RunInstance /\ Retired(x).state = "gone"
<1>1. [x EXCEPT !.bridge = Stopped(@)] \in RunInstance
  BY StoppedType DEF RunInstance
<1> QED BY <1>1, GoneType DEF Retired

(* A second crash: backoff or gone.                                        *)
LEMMA RescheduledType ==
    ASSUME NEW x \in RunInstance
    PROVE  /\ Rescheduled(x) \in RunInstance
           /\ Rescheduled(x).state \in {"crashed", "gone"}
<1>1. CASE x.restarts >= MaxRestarts
  BY <1>1, RetiredType DEF Rescheduled
<1>2. CASE ~(x.restarts >= MaxRestarts)
  <2>1. "crashed" \in RunState /\ x.restarts + 1 \in 0 .. MaxRestarts /\ x.timers + 1 \in Nat
    BY <1>2 DEF RunInstance, RunState, Listed
  <2>2. [[[[x EXCEPT !.state = "crashed"] EXCEPT !.restarts = x.restarts + 1]
            EXCEPT !.timers = x.timers + 1] EXCEPT !.armed = TRUE] \in RunInstance
    BY <2>1 DEF RunInstance
  <2>3. Rescheduled(x) = [[[[x EXCEPT !.state = "crashed"] EXCEPT !.restarts = x.restarts + 1]
            EXCEPT !.timers = x.timers + 1] EXCEPT !.armed = TRUE]
    BY <1>2 DEF Rescheduled, RunInstance
  <2>4. Rescheduled(x).state = "crashed"
    BY <2>3 DEF RunInstance
  <2> QED BY <2>2, <2>3, <2>4
<1> QED BY <1>1, <1>2

LEMMA SpawnedType ==
    ASSUME NEW x \in RunInstance, NEW y \in Spawned(x)
    PROVE  y \in RunInstance /\ y.state \in {"starting", "crashed", "gone"}
<1>1. [x EXCEPT !.state = "starting", !.bridge = NewBridge] \in RunInstance
  BY NewRunType DEF RunInstance, RunState, Listed, Counted
<1>2. [x EXCEPT !.bridge = None] \in RunInstance
  BY DEF RunInstance
<1>3. [x EXCEPT !.state = "starting", !.bridge = NewBridge].state = "starting"
  BY DEF RunInstance
<1> QED BY <1>1, <1>2, <1>3, RescheduledType DEF Spawned

(* A run with a held restart timer has one that has not fired.             *)
Timed(x) == x \in RunInstance /\ (x.armed => x.timers > 0)

LEMMA TimedValues ==
    ASSUME NEW x, Timed(x)
    PROVE  /\ Timed(Gone(x)) /\ Timed(Retired(x)) /\ Timed(Rescheduled(x))
           /\ \A y \in Spawned(x) : Timed(y)
           /\ Timed(Disarmed(x)) /\ ~Disarmed(x).armed /\ Disarmed(x).timers \in Nat
<1>1. x \in RunInstance
  BY DEF Timed
<1>2. ASSUME NEW y \in RunInstance PROVE ~Gone(y).armed /\ ~Retired(y).armed
  BY DEF Gone, Retired, NewRun
<1>3. Timed(Gone(x)) /\ Timed(Retired(x))
  BY <1>1, <1>2, GoneType, RetiredType DEF Timed
<1>4. ASSUME NEW y, Timed(y) PROVE Timed(Rescheduled(y))
  <2>1. y \in RunInstance
    BY <1>4 DEF Timed
  <2>2. y.restarts >= MaxRestarts => ~Rescheduled(y).armed
    BY <1>2, <2>1 DEF Rescheduled
  <2>3. ~(y.restarts >= MaxRestarts) => Rescheduled(y).timers = y.timers + 1
    BY <2>1 DEF Rescheduled, RunInstance
  <2>4. y.timers \in Nat
    BY <2>1 DEF RunInstance
  <2> QED BY <2>1, <2>2, <2>3, <2>4, RescheduledType DEF Timed
<1>5. ASSUME NEW y \in Spawned(x) PROVE Timed(y)
  <2>1. Timed([x EXCEPT !.state = "starting", !.bridge = NewBridge])
    BY <1>1, NewRunType DEF Timed, RunInstance, RunState, Listed, Counted
  <2>2. Timed([x EXCEPT !.bridge = None])
    BY <1>1 DEF Timed, RunInstance
  <2> QED BY <1>4, <2>1, <2>2 DEF Spawned
<1>6. Timed(Disarmed(x)) /\ ~Disarmed(x).armed /\ Disarmed(x).timers \in Nat
  <2>1. (IF x.armed THEN x.timers - 1 ELSE x.timers) \in Nat
    BY <1>1 DEF Timed, RunInstance
  <2> QED BY <1>1, <2>1 DEF Timed, Disarmed, RunInstance
<1> QED BY <1>3, <1>4, <1>5, <1>6

-----------------------------------------------------------------------------
(* The values a breaker takes.                                             *)

(* Its timer fits its state, a trial is left, its probe is of its          *)
(* repository.                                                             *)
Sound(b, p) ==
    /\ b \in Breaker
    /\ b.state = "half_open" => b.failed < MaxProbes
    /\ b.timer = "cooldown" => b.state = "open" /\ b.failed < MaxProbes
    /\ b.timer = "survival" => b.state = "half_open"
    /\ b.probe # None => RepoOf[b.probe] = p

LEMMA SoundTimers ==
    ASSUME NEW p \in Repo, NEW b, Sound(b, p)
    PROVE  /\ Sound(Closed, p) /\ Sound([b EXCEPT !.timer = "none"], p)
           /\ b.timer = "cooldown" => Sound(HalfOpened(b), p)
<1>1. b \in Breaker
  BY DEF Sound
<1>2. Sound(Closed, p)
  BY DEF Sound, Closed, Breaker
<1>3. b.timer = "cooldown" => Sound(HalfOpened(b), p)
  BY <1>1 DEF Sound, HalfOpened, Breaker
<1>4. Sound([b EXCEPT !.timer = "none"], p)
  BY <1>1 DEF Sound, Breaker
<1> QED BY <1>2, <1>3, <1>4

LEMMA SoundValues ==
    ASSUME NEW p \in Repo, NEW b, Sound(b, p), NEW r \in Run, NEW G
    PROVE  /\ Sound(ReleaseProbe(b, G), p)
           /\ RepoOf[r] = p => Sound(Claim(b, r), p)
           /\ Sound(StartSurvival(b, r), p) /\ Sound(Tripped(b), p)
<1>1. b \in Breaker
  BY DEF Sound
<1>2. Sound(ReleaseProbe(b, G), p)
  BY <1>1 DEF Sound, ReleaseProbe, Breaker
<1>3. RepoOf[r] = p => Sound(Claim(b, r), p)
  BY <1>1 DEF Sound, Claim, Breaker
<1>4. Sound(StartSurvival(b, r), p)
  BY <1>1 DEF Sound, StartSurvival, Breaker
<1>5. Sound(Tripped(b), p)
  <2> DEFINE n == IF b.state = "half_open" THEN b.failed + 1 ELSE b.failed
  <2>1. n \in 0 .. MaxProbes
    BY <1>1 DEF Sound, Breaker
  <2>2. Tripped(b) = [state |-> "open", failed |-> n, probe |-> None,
                      timer |-> IF n >= MaxProbes THEN "none" ELSE "cooldown"]
    BY DEF Tripped
  <2> HIDE DEF n
  <2> QED BY <2>1, <2>2 DEF Sound, Breaker
<1> QED BY <1>2, <1>3, <1>4, <1>5

-----------------------------------------------------------------------------
(* The inductive invariant.                                                *)

ProbeInv ==
    /\ run = [r \in Run |-> run[r]] /\ \A r \in Run : Timed(run[r])
    /\ breaker = [p \in Repo |-> breaker[p]] /\ \A p \in Repo : Sound(breaker[p], p)
    /\ ProbeNotPinned

LEMMA InitProbeInv == Init => ProbeInv
<1> SUFFICES ASSUME Init PROVE ProbeInv
  OBVIOUS
<1>1. \A r \in Run : Timed(run[r])
  BY NewRunType DEF Init, Timed, NewRun
<1>2. \A p \in Repo : Sound(breaker[p], p) /\ breaker[p].probe = None
  BY DEF Init, Sound, Breaker, Closed
<1> QED BY <1>1, <1>2 DEF Init, ProbeInv, ProbeNotPinned

(* A step of one run, which takes the value x.                             *)
LEMMA OneRun ==
    ASSUME ProbeInv, NEW r \in Run, NEW x, Timed(x), run' = [run EXCEPT ![r] = x],
           breaker' = [p \in Repo |-> breaker'[p]],
           \A p \in Repo :
              /\ Sound(breaker'[p], p)
              /\ breaker'[p].probe \in {None, r, breaker[p].probe}
              /\ breaker'[p].probe = r => x.state \in Listed
    PROVE  ProbeInv'
<1>1. run'[r] = x /\ \A q \in Run : q # r => run'[q] = run[q]
  BY DEF ProbeInv
<1>2. run' = [q \in Run |-> run'[q]] /\ \A q \in Run : Timed(run'[q])
  BY <1>1 DEF ProbeInv
<1>3. ASSUME NEW p \in Repo, breaker'[p].probe # None
      PROVE  run'[breaker'[p].probe].state \in Listed
  <2>1. breaker'[p].probe \in Run
    BY <1>3 DEF Sound, Breaker
  <2>2. CASE breaker'[p].probe = r
    BY <1>1, <2>2
  <2>3. CASE breaker'[p].probe # r
    <3>1. breaker'[p].probe = breaker[p].probe
      BY <1>3, <2>3
    <3>2. run[breaker[p].probe].state \in Listed
      BY <1>3, <3>1 DEF ProbeInv, ProbeNotPinned, In
    <3> QED BY <1>1, <2>1, <2>3, <3>1, <3>2
  <2> QED BY <2>2, <2>3
<1>4. ProbeNotPinned'
  BY <1>3 DEF ProbeNotPinned, In
<1> QED BY <1>2, <1>4 DEF ProbeInv

(* ... and which leaves the breakers alone, or forgets the run.            *)
LEMMA QuietRun ==
    ASSUME ProbeInv, NEW r \in Run, NEW x, Timed(x), run' = [run EXCEPT ![r] = x],
           \/ /\ breaker' = breaker
              /\ In(r, Listed) => x.state \in Listed
           \/ breaker' = Forget({r})
    PROVE  ProbeInv'
<1>1. CASE breaker' = breaker /\ (In(r, Listed) => x.state \in Listed)
  <2>1. \A p \in Repo : breaker[p].probe = r => x.state \in Listed
    BY <1>1 DEF ProbeInv, ProbeNotPinned, In
  <2> QED BY <1>1, <2>1, OneRun DEF ProbeInv
<1>2. CASE breaker' = Forget({r})
  <2>1. \A p \in Repo : breaker'[p] = ReleaseProbe(breaker[p], {r})
    BY <1>2 DEF Forget
  <2>2. \A p \in Repo : Sound(ReleaseProbe(breaker[p], {r}), p)
    BY SoundValues DEF ProbeInv
  <2>3. ASSUME NEW p \in Repo
        PROVE  /\ ReleaseProbe(breaker[p], {r}).probe \in {None, breaker[p].probe}
               /\ ReleaseProbe(breaker[p], {r}).probe # r
    BY DEF ReleaseProbe, ProbeInv, Sound, Breaker
  <2>4. breaker' = [p \in Repo |-> breaker'[p]]
    BY <1>2 DEF Forget
  <2> QED BY <2>1, <2>2, <2>3, <2>4, OneRun
<1> QED BY <1>1, <1>2

(* What onExit() makes of a run and its breaker.                           *)
LEMMA ExitStep ==
    ASSUME ProbeInv, NEW r \in Run, NEW x, Timed(x), x.state = run[r].state,
           NEW clean \in BOOLEAN, OnExit(r, x, clean)
    PROVE  ProbeInv'
<1>1. /\ Timed(Gone(x)) /\ Timed(Retired(x))
      /\ x \in RunInstance
  BY TimedValues DEF Timed
<1>2. CASE ~In(r, Listed) /\ run' = [run EXCEPT ![r] = Gone(x)] /\ UNCHANGED breaker
  BY <1>1, <1>2, QuietRun
<1>3. CASE breaker' = Forget({r}) /\ run' = [run EXCEPT ![r] = IF x.userStop THEN Gone(x) ELSE Retired(x)]
  BY <1>1, <1>3, QuietRun
<1>4. ASSUME NEW n \in 1 .. x.crashes + 1, In(r, Listed),
             LET y     == [x EXCEPT !.crashes = n]
                 trips == breaker[RepoOf[r]].state = "half_open" \/ n >= Threshold
                 z     == IF trips THEN Retired(y) ELSE Rescheduled(y)
             IN /\ run' = [run EXCEPT ![r] = z]
                /\ breaker' = IF trips THEN [breaker EXCEPT ![RepoOf[r]] = Tripped(@)]
                              ELSE IF z.state = "gone" THEN Forget({r})
                              ELSE breaker
      PROVE  ProbeInv'
  <2> DEFINE y     == [x EXCEPT !.crashes = n]
             trips == breaker[RepoOf[r]].state = "half_open" \/ n >= Threshold
  <2>1. CASE trips
    <3>1. run' = [run EXCEPT ![r] = Retired(y)]
          /\ breaker' = [breaker EXCEPT ![RepoOf[r]] = Tripped(@)]
      BY <1>4, <2>1
    <3>2. Retired(y) = Retired([x EXCEPT !.crashes = 0])
      BY <1>1 DEF Retired, Gone, RunInstance
    <3>3. Timed([x EXCEPT !.crashes = 0])
      BY <1>1 DEF Timed, RunInstance
    <3>4. Timed(Retired(y))
      BY <3>2, <3>3, TimedValues
    <3>5. ASSUME NEW p \in Repo
          PROVE  /\ Sound(breaker'[p], p)
                 /\ breaker'[p].probe \in {None, breaker[p].probe}
                 /\ breaker'[p].probe # r
      <4>1. CASE p = RepoOf[r]
        <5>1. breaker'[p] = Tripped(breaker[p])
          BY <3>1, <4>1 DEF ProbeInv
        <5>2. Tripped(breaker[p]).probe = None
          BY DEF Tripped
        <5> QED BY <5>1, <5>2, SoundValues DEF ProbeInv
      <4>2. CASE p # RepoOf[r]
        <5>1. breaker'[p] = breaker[p]
          BY <3>1, <4>2 DEF ProbeInv
        <5> QED BY <4>2, <5>1 DEF ProbeInv, Sound
      <4> QED BY <4>1, <4>2
    <3>6. breaker' = [p \in Repo |-> breaker'[p]]
      BY <3>1 DEF ProbeInv
    <3> QED BY <3>1, <3>4, <3>5, <3>6, OneRun
  <2>2. CASE ~trips
    <3>1. /\ run' = [run EXCEPT ![r] = Rescheduled(y)]
          /\ breaker' = IF Rescheduled(y).state = "gone" THEN Forget({r}) ELSE breaker
      BY <1>4, <2>2
    <3>2. n \in 0 .. Threshold
      BY <1>1, <2>2 DEF RunInstance
    <3>3. Timed(y)
      BY <1>1, <3>2 DEF Timed, RunInstance
    <3>4. Timed(Rescheduled(y)) /\ Rescheduled(y).state \in {"crashed", "gone"}
      BY <3>3, TimedValues, RescheduledType DEF Timed
    <3> QED BY <3>1, <3>4, QuietRun DEF Listed
  <2> QED BY <2>1, <2>2
<1> QED BY <1>2, <1>3, <1>4 DEF OnExit

(* start(): the reconciler forgets the stranded runs, and the claim of the *)
(* half-open slot is the new run's.                                        *)
LEMMA StartStep ==
    ASSUME ProbeInv, NEW r \in Run,
           Receive(r) \/ Refuse(r) \/ RefuseBusy(r) \/ Admit(r)
    PROVE  ProbeInv'
<1>1. Timed(run[r]) /\ run[r] \in RunInstance
  BY DEF ProbeInv, Timed
<1>2. CASE Receive(r) \/ Refuse(r)
  <2>1. \A s \in {"checking", "refused"} : Timed([run[r] EXCEPT !.state = s])
    BY <1>1 DEF Timed, RunInstance, RunState
  <2>2. ~In(r, Listed)
    BY <1>2 DEF Receive, Refuse, In, Listed
  <2> QED BY <1>2, <2>1, <2>2, QuietRun DEF Receive, Refuse
<1>3. r \notin Stranded \/ ~In(r, {"checking"})
  BY DEF Stranded, In, Counted
<1>4. /\ \A q \in Run : Timed(Reclaimed[q])
      /\ \A q \in Run \ Stranded : Reclaimed[q] = run[q]
      /\ Reclaimed = [q \in Run |-> Reclaimed[q]]
  BY TimedValues DEF Reclaimed, ProbeInv
<1>5. ASSUME NEW p \in Repo
      PROVE  LET b == ReleaseProbe(breaker[p], Stranded)
             IN /\ Sound(b, p) /\ b.probe \in Run \cup {None}
                /\ b.probe # None => b.probe \notin Stranded /\ In(b.probe, Listed)
  <2> DEFINE b == ReleaseProbe(breaker[p], Stranded)
  <2>1. Sound(b, p)
    BY SoundValues DEF ProbeInv
  <2>3. b.probe \in Run \cup {None}
    BY <2>1 DEF Sound, Breaker
  <2>2. b.probe # None => b.probe = breaker[p].probe /\ b.probe \notin Stranded
    BY DEF ReleaseProbe, ProbeInv, Sound, Breaker
  <2> QED BY <2>1, <2>2, <2>3 DEF ProbeInv, ProbeNotPinned
<1>6. CASE RefuseBusy(r)
  <2>1. Timed([run[r] EXCEPT !.state = "refused"])
    BY <1>1 DEF Timed, RunInstance, RunState
  <2>2. run' = [Reclaimed EXCEPT ![r] = [run[r] EXCEPT !.state = "refused"]]
    BY <1>3, <1>4, <1>6 DEF RefuseBusy
  <2>3. \A q \in Run : Timed(run'[q])
    BY <1>4, <2>1, <2>2
  <2>4. \A q \in Run : q \notin Stranded /\ In(q, Listed) => run'[q] = run[q]
    BY <1>4, <1>6, <2>2 DEF RefuseBusy, In, Listed
  <2>5. \A p \in Repo : breaker'[p] = ReleaseProbe(breaker[p], Stranded)
    BY <1>6 DEF RefuseBusy, Forget
  <2>6. run' = [q \in Run |-> run'[q]] /\ breaker' = [p \in Repo |-> breaker'[p]]
    BY <1>4, <1>6, <2>2 DEF RefuseBusy, Forget
  <2>7. ASSUME NEW p \in Repo, breaker'[p].probe # None
        PROVE  run'[breaker'[p].probe].state \in Listed
    <3> DEFINE b == ReleaseProbe(breaker[p], Stranded)
    <3>1. breaker'[p] = b /\ b.probe # None
      BY <2>5, <2>7
    <3>2. b.probe \in Run /\ b.probe \notin Stranded /\ In(b.probe, Listed)
      BY <1>5, <3>1
    <3> HIDE DEF b
    <3> QED BY <2>4, <3>1, <3>2 DEF In
  <2>8. ProbeNotPinned'
    BY <2>7 DEF ProbeNotPinned, In
  <2> QED BY <1>5, <2>3, <2>5, <2>6, <2>8 DEF ProbeInv
<1>7. CASE Admit(r)
  <2>1. PICK x \in Spawned(run[r]) :
           /\ run' = [Reclaimed EXCEPT ![r] = x]
           /\ breaker' = [p \in Repo |->
                            LET b == ReleaseProbe(breaker[p], Stranded)
                                c == IF p = RepoOf[r] THEN Claim(b, r) ELSE b
                            IN IF x.state = "gone" THEN ReleaseProbe(c, {r}) ELSE c]
    BY <1>7 DEF Admit
  <2>2. Timed(x) /\ x.state \in {"starting", "crashed", "gone"}
    BY <1>1, <2>1, TimedValues, SpawnedType
  <2>3. \A q \in Run : Timed(run'[q])
    BY <1>4, <2>1, <2>2
  <2>4. run'[r] = x /\ \A q \in Run : q # r /\ q \notin Stranded => run'[q] = run[q]
    BY <1>4, <2>1
  <2>5. ~In(r, Listed)
    BY <1>7 DEF Admit, In, Listed
  <2>6. ASSUME NEW p \in Repo
        PROVE  /\ Sound(breaker'[p], p)
               /\ breaker'[p].probe # None => run'[breaker'[p].probe].state \in Listed
    <3> DEFINE b == ReleaseProbe(breaker[p], Stranded)
               c == IF p = RepoOf[r] THEN Claim(b, r) ELSE b
    <3>1. Sound(b, p) /\ (b.probe # None => b.probe \in Run \ Stranded /\ In(b.probe, Listed))
      BY <1>5
    <3>2. Sound(c, p)
      BY <3>1, SoundValues
    <3>3. c.probe = r \/ c.probe = b.probe
      BY <3>1 DEF Claim, Sound, Breaker
    <3>4. breaker'[p] = IF x.state = "gone" THEN ReleaseProbe(c, {r}) ELSE c
      BY <2>1
    <3>5. b.probe # None => run'[b.probe].state \in Listed
      BY <2>4, <2>5, <3>1 DEF In
    <3> HIDE DEF b, c
    <3>6. CASE x.state = "gone"
      <4>1. breaker'[p] = ReleaseProbe(c, {r})
        BY <3>4, <3>6
      <4>2. Sound(ReleaseProbe(c, {r}), p)
        BY <3>2, SoundValues
      <4>3. ReleaseProbe(c, {r}).probe # None =>
               c.probe # r /\ ReleaseProbe(c, {r}).probe = c.probe
        BY <3>2 DEF ReleaseProbe, Sound, Breaker
      <4> QED BY <3>3, <3>5, <4>1, <4>2, <4>3
    <3>7. CASE x.state # "gone"
      <4>1. breaker'[p] = c
        BY <3>4, <3>7
      <4> QED BY <2>2, <2>4, <3>2, <3>3, <3>5, <3>7, <4>1 DEF Listed
    <3> QED BY <3>6, <3>7
  <2>7. run' = [q \in Run |-> run'[q]] /\ breaker' = [p \in Repo |-> breaker'[p]]
    BY <1>4, <2>1
  <2>8. ProbeNotPinned'
    BY <2>6 DEF ProbeNotPinned, In
  <2> QED BY <2>3, <2>6, <2>7, <2>8 DEF ProbeInv
<1> QED BY <1>2, <1>6, <1>7

(* What happens to a bridge while its run stays.                           *)
LEMMA BridgeStep ==
    ASSUME ProbeInv, NEW r \in Run,
           \/ Connect(r) \/ MessageStartsCli(r) \/ LinkLost(r)
           \/ Activity(r) \/ Age(r) \/ Ready(r)
    PROVE  ProbeInv'
<1>1. Timed(run[r]) /\ run[r] \in RunInstance
  BY DEF ProbeInv, Timed
<1>2. ASSUME NEW b \in Bridge
      PROVE  Timed([run[r] EXCEPT !.bridge = b]) /\ [run[r] EXCEPT !.bridge = b].state = run[r].state
  BY <1>1 DEF Timed, RunInstance
<1>3. ASSUME NEW a \in BOOLEAN
      PROVE  Timed([run[r] EXCEPT !.aged = a]) /\ [run[r] EXCEPT !.aged = a].state = run[r].state
  BY <1>1 DEF Timed, RunInstance
<1>4. Up(run[r].bridge) => run[r].bridge \in Bridge
  BY <1>1 DEF Up, RunInstance
<1>5. CASE Connect(r)
  <2>1. [[run[r].bridge EXCEPT !.link = TRUE] EXCEPT !.cli = TRUE] \in Bridge
    BY <1>4, <1>5 DEF Connect, Bridge
  <2>2. run' = [run EXCEPT ![r] = [run[r] EXCEPT !.bridge =
                  [[run[r].bridge EXCEPT !.link = TRUE] EXCEPT !.cli = TRUE]]]
    BY <1>1, <1>5 DEF Connect, RunInstance, Bridge
  <2> QED BY <1>2, <1>5, <2>1, <2>2, QuietRun DEF Connect, In
<1>6. CASE MessageStartsCli(r)
  <2>1. [run[r].bridge EXCEPT !.cli = TRUE] \in Bridge
    BY <1>4, <1>6 DEF MessageStartsCli, Bridge
  <2>2. run' = [run EXCEPT ![r] = [run[r] EXCEPT !.bridge = [run[r].bridge EXCEPT !.cli = TRUE]]]
    BY <1>6 DEF MessageStartsCli
  <2> QED BY <1>2, <1>6, <2>1, <2>2, QuietRun DEF MessageStartsCli, In
<1>7. CASE LinkLost(r)
  <2>1. [run[r].bridge EXCEPT !.link = FALSE] \in Bridge
    BY <1>4, <1>7 DEF LinkLost, Bridge
  <2>2. run' = [run EXCEPT ![r] = [run[r] EXCEPT !.bridge = [run[r].bridge EXCEPT !.link = FALSE]]]
    BY <1>7 DEF LinkLost
  <2> QED BY <1>2, <1>7, <2>1, <2>2, QuietRun DEF LinkLost, In
<1>8. CASE Activity(r) \/ Age(r)
  BY <1>3, <1>8, QuietRun DEF Activity, Age, In
<1>9. CASE Ready(r)
  <2> DEFINE s == IF In(r, Listed) THEN "running" ELSE run[r].state
             c == [run[r].bridge EXCEPT !.spawned = TRUE]
             x == [[run[r] EXCEPT !.bridge = c] EXCEPT !.state = s]
  <2>1. c \in Bridge
    BY <1>4, <1>9 DEF Ready, Bridge
  <2>2. s \in RunState /\ (In(r, Listed) => s \in Listed)
    BY <1>1 DEF RunInstance, RunState, Listed
  <2>3. run' = [run EXCEPT ![r] = x]
    BY <1>1, <1>9 DEF Ready, RunInstance
  <2>4. Timed(x) /\ x.state = s
    BY <1>1, <2>1, <2>2 DEF Timed, RunInstance
  <2>5. breaker' = [breaker EXCEPT ![RepoOf[r]] = StartSurvival(@, r)]
    BY <1>9 DEF Ready
  <2> HIDE DEF x, s
  <2>6. ASSUME NEW p \in Repo
        PROVE  /\ Sound(breaker'[p], p) /\ breaker'[p].probe = breaker[p].probe
               /\ breaker[p].probe = r => x.state \in Listed
    <3>1. Sound(StartSurvival(breaker[p], r), p)
      BY SoundValues DEF ProbeInv
    <3>2. StartSurvival(breaker[p], r).probe = breaker[p].probe
      BY DEF StartSurvival, ProbeInv, Sound, Breaker
    <3>3. breaker'[p] \in {breaker[p], StartSurvival(breaker[p], r)}
      BY <2>5 DEF ProbeInv
    <3>4. breaker[p].probe = r => In(r, Listed)
      BY DEF ProbeInv, ProbeNotPinned
    <3> QED BY <2>2, <2>4, <3>1, <3>2, <3>3, <3>4 DEF ProbeInv
  <2>7. breaker' = [p \in Repo |-> breaker'[p]]
    BY <2>5 DEF ProbeInv
  <2> QED BY <2>3, <2>4, <2>6, <2>7, OneRun
<1> QED BY <1>5, <1>6, <1>7, <1>8, <1>9

(* The ways a run ends.                                                    *)
LEMMA EndStep ==
    ASSUME ProbeInv, NEW r \in Run,
           \/ \E clean \in BOOLEAN : CliExits(r, clean)
           \/ TerminalClose(r) \/ Shutdown(r) \/ ShutdownDone(r)
           \/ Stop(r) \/ StopDone(r)
    PROVE  ProbeInv'
<1>1. Timed(run[r]) /\ run[r] \in RunInstance
  BY DEF ProbeInv, Timed
<1>2. Stopped(run[r].bridge) \in Bridge \cup {None}
  BY <1>1, StoppedType DEF RunInstance
<1>3. CASE \E clean \in BOOLEAN : CliExits(r, clean)
  <2>1. PICK clean \in BOOLEAN : CliExits(r, clean)
    BY <1>3
  <2>2. run[r].bridge \in Bridge
    BY <1>1, <2>1 DEF CliExits, Up, RunInstance
  <2>3. [run[r].bridge EXCEPT !.cli = FALSE] \in Bridge
    BY <2>2 DEF Bridge
  <2> DEFINE c == [run[r].bridge EXCEPT !.cli = FALSE]
             x == [run[r] EXCEPT !.bridge = c]
  <2>4. OnExit(r, x, clean)
    BY <2>1 DEF CliExits
  <2> HIDE DEF c
  <2>5. Timed(x) /\ x.state = run[r].state
    BY <1>1, <2>3 DEF Timed, RunInstance, c
  <2> QED BY <2>4, <2>5, ExitStep
<1>4. LET x == [run[r] EXCEPT !.bridge = Stopped(@)]
      IN Timed(x) /\ x.state = run[r].state
  BY <1>1, <1>2 DEF Timed, RunInstance
<1>5. CASE TerminalClose(r)
  BY <1>4, <1>5, ExitStep DEF TerminalClose
<1>6. CASE Shutdown(r)
  <2> DEFINE x == [run[r] EXCEPT !.bridge = Stopped(@)]
  <2>1. Timed([x EXCEPT !.bye = TRUE]) /\ [x EXCEPT !.bye = TRUE].state = run[r].state
    BY <1>1, <1>2 DEF Timed, RunInstance
  <2>2. CASE run' = [run EXCEPT ![r] = [x EXCEPT !.bye = TRUE]] /\ UNCHANGED breaker
    BY <2>1, <2>2, QuietRun DEF In
  <2>3. CASE OnExit(r, x, TRUE)
    BY <1>4, <2>3, ExitStep
  <2> QED BY <1>6, <2>2, <2>3 DEF Shutdown
<1>7. CASE ShutdownDone(r)
  <2>1. Timed([run[r] EXCEPT !.bye = FALSE])
        /\ [run[r] EXCEPT !.bye = FALSE].state = run[r].state
    BY <1>1 DEF Timed, RunInstance
  <2> QED BY <1>7, <2>1, ExitStep DEF ShutdownDone
<1>8. CASE Stop(r)
  <2>1. Timed(StopMarked(run[r])) /\ StopMarked(run[r]).state \in Listed
    <3> DEFINE d == Disarmed(run[r])
    <3>1. Timed(d) /\ d.bridge = run[r].bridge
      BY <1>1, TimedValues DEF Disarmed, RunInstance
    <3>2. StopMarked(run[r]) = [d EXCEPT !.state = "stopping", !.userStop = TRUE,
                                         !.bridge = Stopped(run[r].bridge), !.stops = TRUE]
      BY <3>1 DEF StopMarked, Timed, RunInstance
    <3> HIDE DEF d
    <3> QED BY <1>2, <3>1, <3>2 DEF Timed, RunInstance, RunState, Listed
  <2> QED BY <1>8, <2>1, TimedValues, QuietRun DEF Stop
<1>9. CASE StopDone(r)
  BY <1>1, <1>9, TimedValues, QuietRun DEF StopDone
<1> QED BY <1>3, <1>5, <1>6, <1>7, <1>8, <1>9

LEMMA TimerStep ==
    ASSUME ProbeInv, \/ \E r \in Run : RestartFires(r)
                     \/ \E p \in Repo : HalfOpen(p) \/ Survive(p)
    PROVE  ProbeInv'
<1>1. ASSUME NEW r \in Run, RestartFires(r) PROVE ProbeInv'
  <2> DEFINE y == [[run[r] EXCEPT !.timers = run[r].timers - 1] EXCEPT !.armed = FALSE]
  <2>1. Timed(run[r]) /\ run[r] \in RunInstance
    BY DEF ProbeInv, Timed
  <2>2. run[r].timers - 1 \in Nat
    <3>1. run[r].timers \in Nat
      BY <2>1 DEF RunInstance
    <3>2. run[r].timers > 0
      BY <1>1 DEF RestartFires
    <3> QED BY <3>1, <3>2
  <2>3. Timed(y)
    BY <2>1, <2>2 DEF Timed, RunInstance
  <2>4. PICK x \in Spawned(y) :
           /\ run' = [run EXCEPT ![r] = x]
           /\ breaker' = IF x.state = "gone" THEN Forget({r}) ELSE breaker
    BY <1>1 DEF RestartFires
  <2> HIDE DEF y
  <2>5. Timed(x) /\ x.state \in {"starting", "crashed", "gone"}
    BY <2>3, <2>4, TimedValues, SpawnedType DEF Timed
  <2> QED BY <2>4, <2>5, QuietRun DEF Listed
<1>2. ASSUME NEW p \in Repo, HalfOpen(p) \/ Survive(p) PROVE ProbeInv'
  <2>1. /\ Sound(Closed, p) /\ Sound([breaker[p] EXCEPT !.timer = "none"], p)
        /\ breaker[p].timer = "cooldown" => Sound(HalfOpened(breaker[p]), p)
        /\ Sound(breaker[p], p)
    BY <1>2, SoundTimers DEF ProbeInv
  <2>2. /\ Closed.probe = None /\ HalfOpened(breaker[p]).probe = None
        /\ [breaker[p] EXCEPT !.timer = "none"].probe = breaker[p].probe
    BY <2>1 DEF Closed, HalfOpened, Sound, Breaker
  <2>8. \E b \in {Closed, HalfOpened(breaker[p]), [breaker[p] EXCEPT !.timer = "none"]} :
           breaker' = [breaker EXCEPT ![p] = b] /\ Sound(b, p)
    BY <1>2, <2>1 DEF HalfOpen, Survive
  <2>3. PICK b : /\ breaker' = [breaker EXCEPT ![p] = b]
                 /\ Sound(b, p) /\ b.probe \in {None, breaker[p].probe}
    BY <2>2, <2>8
  <2>4. run' = run
    BY <1>2 DEF HalfOpen, Survive
  <2>5. \A q \in Repo : Sound(breaker'[q], q) /\ breaker'[q].probe \in {None, breaker[q].probe}
    BY <2>3 DEF ProbeInv
  <2>6. ProbeNotPinned'
    BY <2>4, <2>5 DEF ProbeInv, ProbeNotPinned, In
  <2>7. breaker' = [q \in Repo |-> breaker'[q]]
    BY <2>3 DEF ProbeInv
  <2> QED BY <2>4, <2>5, <2>6, <2>7 DEF ProbeInv
<1> QED BY <1>1, <1>2

LEMMA ProbeInvStep == ProbeInv /\ [Next]_vars => ProbeInv'
<1> SUFFICES ASSUME ProbeInv, [Next]_vars PROVE ProbeInv'
  OBVIOUS
<1>1. CASE UNCHANGED vars
  BY <1>1 DEF vars, ProbeInv, ProbeNotPinned, In
<1>2. CASE Next
  BY <1>2, StartStep, BridgeStep, EndStep, TimerStep DEF Next
<1> QED BY <1>1, <1>2

(* The process manager's maps hold what their types say: a counter of      *)
(* restarts, crashes or failed probes never passes its bound.              *)
THEOREM TypeCorrect == Spec => []TypeOK
<1>1. ProbeInv => TypeOK
  <2> SUFFICES ASSUME ProbeInv PROVE TypeOK
    OBVIOUS
  <2>1. \A r \in Run : run[r] \in RunInstance
    BY DEF ProbeInv, Timed
  <2>2. \A p \in Repo : breaker[p] \in Breaker
    BY DEF ProbeInv, Sound
  <2> QED BY <2>1, <2>2 DEF ProbeInv, TypeOK
<1> QED BY <1>1, InitProbeInv, ProbeInvStep, PTL DEF Spec

(* A half-open breaker never waits for a run that is gone.                 *)
THEOREM ProbeNeverPinned == Spec => []ProbeNotPinned
<1>1. ProbeInv => ProbeNotPinned
  BY DEF ProbeInv
<1> QED BY <1>1, InitProbeInv, ProbeInvStep, PTL DEF Spec

-----------------------------------------------------------------------------
(* Nothing waits for a timer nobody armed, whatever the bridges do.        *)

(* Who waits for a restart has a timer, who is being stopped is awaited    *)
(* and has no bridge left, the CLI of who runs came up; a run that is not  *)
(* listed has no timer.                                                    *)
Steady(x) ==
    /\ x.timers <= x.restarts
    /\ x.state = "crashed" => x.timers > 0
    /\ x.state = "stopping" => x.stops /\ ~Up(x.bridge)
    /\ x.state = "running" => x.bridge.spawned
    /\ x.state \notin Listed => x.timers = 0

(* An open breaker with trials left has a cooldown, only a half-open one   *)
(* has a probe.                                                            *)
Waits(b) ==
    /\ b.probe # None => b.state = "half_open"
    /\ b.state = "open" /\ b.failed < MaxProbes => b.timer = "cooldown"

(* A probe that runs has its survival timer; one with a restart timer is   *)
(* the crashed run whose bridge could not be made.                         *)
Trial(x, b) ==
    /\ x.state = "running" => b.timer = "survival"
    /\ x.timers > 0 => x.timers = 1 /\ x.state = "crashed" /\ x.bridge = None

SteadyInv ==
    /\ \A r \in Run : Steady(run[r])
    /\ \A p \in Repo : Waits(breaker[p])
    /\ \A p \in Repo : breaker[p].probe # None => Trial(run[breaker[p].probe], breaker[p])

(* The runs that were never restarted and hold a slot.                     *)
First == {r \in Run : In(r, Counted) /\ run[r].restarts = 0}

(* Only a start makes a run one of these.                                  *)
Fresh(a, x) ==
    x.state \in Counted /\ x.restarts = 0 => a.state \in Counted /\ a.restarts = 0

LEMMA InitSteady == Init => SteadyInv /\ First = {}
<1> SUFFICES ASSUME Init PROVE SteadyInv /\ First = {}
  OBVIOUS
<1>1. \A r \in Run : run[r].state = "new" /\ run[r].timers = 0 /\ run[r].restarts = 0
  BY DEF Init, NewRun
<1>2. \A r \in Run : Steady(run[r])
  BY <1>1 DEF Steady
<1>3. \A p \in Repo : Waits(breaker[p]) /\ breaker[p].probe = None
  BY DEF Init, Waits, Closed
<1>4. First = {}
  BY <1>1 DEF First, In, Counted
<1> QED BY <1>2, <1>3, <1>4 DEF SteadyInv

LEMMA SteadyGone ==
    ASSUME NEW x \in RunInstance
    PROVE  /\ Steady(Gone(x)) /\ Gone(x).state \notin Counted
           /\ Steady(Retired(x)) /\ Retired(x).state \notin Counted
<1>1. ASSUME NEW y \in RunInstance
      PROVE  Gone(y).state = "gone" /\ Gone(y).timers = 0 /\ Gone(y).restarts = 0
  BY DEF Gone, NewRun
<1>2. [x EXCEPT !.bridge = Stopped(@)] \in RunInstance
  BY StoppedType DEF RunInstance
<1>3. Retired(x).state = "gone" /\ Retired(x).timers = 0 /\ Retired(x).restarts = 0
  BY <1>1, <1>2 DEF Retired
<1> QED BY <1>1, <1>3 DEF Steady, Listed, Counted

LEMMA SteadyRescheduled ==
    ASSUME NEW x \in RunInstance, x.timers <= x.restarts
    PROVE  /\ Steady(Rescheduled(x)) /\ Rescheduled(x).state \notin Counted
           /\ Rescheduled(x).state # "gone" =>
                 /\ Rescheduled(x).state = "crashed"
                 /\ Rescheduled(x).timers = x.timers + 1
                 /\ Rescheduled(x).bridge = x.bridge
<1>1. CASE x.restarts >= MaxRestarts
  BY <1>1, SteadyGone, RetiredType DEF Rescheduled
<1>2. CASE ~(x.restarts >= MaxRestarts)
  <2>1. x.timers \in Nat /\ x.restarts \in Nat
    BY DEF RunInstance
  <2>2. /\ Rescheduled(x).state = "crashed" /\ Rescheduled(x).timers = x.timers + 1
        /\ Rescheduled(x).restarts = x.restarts + 1 /\ Rescheduled(x).bridge = x.bridge
    BY <1>2 DEF Rescheduled, RunInstance
  <2> QED BY <2>1, <2>2 DEF Steady, Listed, Counted
<1> QED BY <1>1, <1>2

(* spawn(): the run that starts keeps its restarts; a trial is one of it.  *)
LEMMA SteadySpawned ==
    ASSUME NEW x \in RunInstance, x.timers <= x.restarts, NEW y \in Spawned(x)
    PROVE  /\ Steady(y)
           /\ y.state \in Counted => y.restarts = x.restarts
           /\ x.timers = 0 /\ y.state # "gone" => \A b : Trial(y, b)
<1> DEFINE u == [x EXCEPT !.state = "starting", !.bridge = NewBridge]
           v == [x EXCEPT !.bridge = None]
<1>1. /\ u.state = "starting" /\ u.timers = x.timers /\ u.restarts = x.restarts
      /\ v \in RunInstance /\ v.timers = x.timers /\ v.restarts = x.restarts /\ v.bridge = None
  BY DEF RunInstance
<1>2. y = u \/ y = Rescheduled(v)
  BY DEF Spawned
<1> HIDE DEF u, v
<1>3. CASE y = u
  BY <1>1, <1>3 DEF Steady, Trial, Listed, Counted
<1>4. CASE y = Rescheduled(v)
  BY <1>1, <1>4, SteadyRescheduled DEF Trial
<1> QED BY <1>2, <1>3, <1>4

LEMMA WaitsValues ==
    ASSUME NEW p \in Repo, NEW b, Sound(b, p), Waits(b), NEW r \in Run, NEW G \in SUBSET Run
    PROVE  /\ Waits(ReleaseProbe(b, G)) /\ Waits(Claim(b, r)) /\ Waits(StartSurvival(b, r))
           /\ Waits(Tripped(b)) /\ Tripped(b).probe = None
<1>1. b \in Breaker /\ None \notin G
  BY DEF Sound
<1>2. Waits(ReleaseProbe(b, G))
  BY <1>1 DEF Waits, ReleaseProbe, Breaker
<1>3. Waits(Claim(b, r)) /\ Waits(StartSurvival(b, r))
  BY <1>1 DEF Waits, Claim, StartSurvival, Breaker
<1>4. Waits(Tripped(b)) /\ Tripped(b).probe = None
  <2> DEFINE n == IF b.state = "half_open" THEN b.failed + 1 ELSE b.failed
  <2>1. n \in Nat
    BY <1>1 DEF Breaker
  <2>2. Tripped(b) = [state |-> "open", failed |-> n, probe |-> None,
                      timer |-> IF n >= MaxProbes THEN "none" ELSE "cooldown"]
    BY DEF Tripped
  <2> HIDE DEF n
  <2> QED BY <2>1, <2>2 DEF Waits
<1> QED BY <1>2, <1>3, <1>4

LEMMA WaitsTimers ==
    ASSUME NEW p \in Repo, NEW b, Sound(b, p), Waits(b)
    PROVE  /\ Waits(Closed) /\ (b.timer = "cooldown" => Waits(HalfOpened(b)))
           /\ b.timer = "survival" => Waits([b EXCEPT !.timer = "none"])
<1>1. b \in Breaker
  BY DEF Sound
<1>2. Waits(Closed) /\ (b.timer = "cooldown" => Waits(HalfOpened(b)))
  BY <1>1 DEF Waits, Closed, HalfOpened, Breaker
<1>3. b.timer = "survival" => Waits([b EXCEPT !.timer = "none"])
  BY <1>1 DEF Sound, Waits, Breaker
<1> QED BY <1>2, <1>3

(* A step of one run, which takes the value x.                             *)
LEMMA OneSteady ==
    ASSUME ProbeInv, SteadyInv, NEW r \in Run, NEW x, Steady(x), Fresh(run[r], x),
           run' = [run EXCEPT ![r] = x],
           \A p \in Repo :
              /\ Waits(breaker'[p])
              /\ breaker'[p].probe = r => Trial(x, breaker'[p])
              /\ breaker'[p].probe \notin {None, r} => breaker'[p] = breaker[p]
    PROVE  SteadyInv' /\ First' \subseteq First
<1>1. run'[r] = x /\ \A q \in Run : q # r => run'[q] = run[q]
  BY DEF ProbeInv
<1>2. \A q \in Run : Steady(run'[q])
  BY <1>1 DEF SteadyInv
<1>3. ASSUME NEW p \in Repo, breaker'[p].probe # None
      PROVE  Trial(run'[breaker'[p].probe], breaker'[p])
  <2>1. CASE breaker'[p].probe = r
    BY <1>1, <2>1
  <2>2. CASE breaker'[p].probe # r
    <3>1. breaker'[p] = breaker[p] /\ breaker[p].probe # None
      BY <1>3, <2>2
    <3>2. breaker[p].probe \in Run
      BY <3>1 DEF ProbeInv, Sound, Breaker
    <3>3. Trial(run[breaker[p].probe], breaker[p])
      BY <3>1 DEF SteadyInv
    <3> QED BY <1>1, <2>2, <3>1, <3>2, <3>3
  <2> QED BY <2>1, <2>2
<1>4. First' \subseteq First
  BY <1>1 DEF First, In, Fresh
<1>5. SteadyInv'
  BY <1>2, <1>3 DEF SteadyInv, Steady, Waits, Trial
<1> QED BY <1>4, <1>5

(* ... and leaves the breakers alone, or is forgotten.                     *)
LEMMA QuietSteady ==
    ASSUME ProbeInv, SteadyInv, NEW r \in Run, NEW x, Steady(x), Fresh(run[r], x),
           run' = [run EXCEPT ![r] = x],
           \/ /\ breaker' = breaker
              /\ \A b : Trial(run[r], b) => Trial(x, b)
           \/ breaker' = Forget({r})
    PROVE  SteadyInv' /\ First' \subseteq First
<1>1. CASE breaker' = breaker /\ \A b : Trial(run[r], b) => Trial(x, b)
  <2>1. ASSUME NEW p \in Repo, breaker[p].probe = r PROVE Trial(x, breaker[p])
    BY <1>1, <2>1 DEF SteadyInv
  <2> QED BY <1>1, <2>1, OneSteady DEF SteadyInv
<1>2. CASE breaker' = Forget({r})
  <2>1. \A p \in Repo : breaker'[p] = ReleaseProbe(breaker[p], {r})
    BY <1>2 DEF Forget
  <2>2. \A p \in Repo : Waits(ReleaseProbe(breaker[p], {r}))
    BY WaitsValues DEF ProbeInv, SteadyInv
  <2>3. ASSUME NEW p \in Repo
        PROVE  /\ ReleaseProbe(breaker[p], {r}).probe # r
               /\ ReleaseProbe(breaker[p], {r}).probe # None =>
                     ReleaseProbe(breaker[p], {r}) = breaker[p]
    BY DEF ReleaseProbe, ProbeInv, Sound, Breaker
  <2> QED BY <2>1, <2>2, <2>3, OneSteady
<1> QED BY <1>1, <1>2


(* onExit().                                                               *)
LEMMA ExitSteady ==
    ASSUME ProbeInv, SteadyInv, NEW r \in Run, NEW x \in RunInstance, NEW clean \in BOOLEAN,
           OnExit(r, x, clean), x.timers <= x.restarts
    PROVE  SteadyInv' /\ First' \subseteq First
<1>1. /\ Steady(Gone(x)) /\ Fresh(run[r], Gone(x))
      /\ Steady(Retired(x)) /\ Fresh(run[r], Retired(x))
  BY SteadyGone DEF Fresh
<1>2. CASE ~In(r, Listed) /\ run' = [run EXCEPT ![r] = Gone(x)] /\ UNCHANGED breaker
  <2>1. Gone(x).timers = 0 /\ Gone(x).state = "gone"
    BY DEF Gone, NewRun
  <2>2. \A b : Trial(Gone(x), b)
    BY <2>1 DEF Trial
  <2> QED BY <1>1, <1>2, <2>2, QuietSteady
<1>3. CASE breaker' = Forget({r}) /\ run' = [run EXCEPT ![r] = IF x.userStop THEN Gone(x) ELSE Retired(x)]
  BY <1>1, <1>3, QuietSteady
<1>4. ASSUME NEW n \in 1 .. x.crashes + 1,
             LET y     == [x EXCEPT !.crashes = n]
                 trips == breaker[RepoOf[r]].state = "half_open" \/ n >= Threshold
                 z     == IF trips THEN Retired(y) ELSE Rescheduled(y)
             IN /\ run' = [run EXCEPT ![r] = z]
                /\ breaker' = IF trips THEN [breaker EXCEPT ![RepoOf[r]] = Tripped(@)]
                              ELSE IF z.state = "gone" THEN Forget({r})
                              ELSE breaker
      PROVE  SteadyInv' /\ First' \subseteq First
  <2> DEFINE y     == [x EXCEPT !.crashes = n]
             trips == breaker[RepoOf[r]].state = "half_open" \/ n >= Threshold
  <2>1. CASE trips
    <3>1. run' = [run EXCEPT ![r] = Retired(y)]
          /\ breaker' = [breaker EXCEPT ![RepoOf[r]] = Tripped(@)]
      BY <1>4, <2>1
    <3>2. Retired(y) = Retired(x)
      BY DEF Retired, Gone, RunInstance
    <3>3. ASSUME NEW p \in Repo
          PROVE  /\ Waits(breaker'[p]) /\ breaker'[p].probe # r
                 /\ breaker'[p].probe # None => breaker'[p] = breaker[p]
      <4>1. CASE p = RepoOf[r]
        <5>1. breaker'[p] = Tripped(breaker[p])
          BY <3>1, <4>1 DEF ProbeInv
        <5>2. Waits(Tripped(breaker[p])) /\ Tripped(breaker[p]).probe = None
          BY WaitsValues DEF ProbeInv, SteadyInv
        <5> QED BY <5>1, <5>2
      <4>2. CASE p # RepoOf[r]
        <5>1. breaker'[p] = breaker[p]
          BY <3>1, <4>2 DEF ProbeInv
        <5> QED BY <4>2, <5>1 DEF ProbeInv, Sound, SteadyInv
      <4> QED BY <4>1, <4>2
    <3> QED BY <1>1, <3>1, <3>2, <3>3, OneSteady
  <2>2. CASE ~trips
    <3>1. /\ run' = [run EXCEPT ![r] = Rescheduled(y)]
          /\ breaker' = IF Rescheduled(y).state = "gone" THEN Forget({r}) ELSE breaker
      BY <1>4, <2>2
    <3>2. n \in 0 .. Threshold
      BY <2>2 DEF RunInstance
    <3>3. y \in RunInstance /\ y.timers <= y.restarts
      BY <3>2 DEF RunInstance
    <3> HIDE DEF y
    <3>4. Steady(Rescheduled(y)) /\ Fresh(run[r], Rescheduled(y))
      BY <3>3, SteadyRescheduled DEF Fresh
    <3>5. CASE breaker' = breaker
      <4>1. breaker[RepoOf[r]].state # "half_open"
        BY <2>2
      <4>2. \A p \in Repo : Waits(breaker[p]) /\ breaker[p].probe # r
        BY <4>1 DEF SteadyInv, Waits, ProbeInv, Sound
      <4> QED BY <3>1, <3>4, <3>5, <4>2, OneSteady
    <3> QED BY <3>1, <3>4, <3>5, QuietSteady
  <2> QED BY <2>1, <2>2
<1> QED BY <1>2, <1>3, <1>4 DEF OnExit

(* The ways a run ends, and the restart.                                   *)
LEMMA EndSteady ==
    ASSUME ProbeInv, SteadyInv, NEW r \in Run,
           \/ \E clean \in BOOLEAN : CliExits(r, clean)
           \/ TerminalClose(r) \/ Shutdown(r) \/ ShutdownDone(r)
           \/ RestartFires(r) \/ Stop(r) \/ StopDone(r)
    PROVE  SteadyInv' /\ First' \subseteq First
<1>1. run[r] \in RunInstance /\ Steady(run[r]) /\ run[r].timers <= run[r].restarts
  BY DEF ProbeInv, Timed, SteadyInv, Steady
<1>2. Stopped(run[r].bridge) \in Bridge \cup {None} /\ ~Up(Stopped(run[r].bridge))
  BY <1>1, StoppedType DEF RunInstance, Stopped, Up, Bridge
<1> DEFINE w == [run[r] EXCEPT !.bridge = Stopped(@)]
<1>3. /\ w \in RunInstance /\ w.timers = run[r].timers /\ w.restarts = run[r].restarts
      /\ w.state = run[r].state /\ w.bridge = Stopped(run[r].bridge)
  BY <1>1, <1>2 DEF RunInstance
<1>4. CASE \E clean \in BOOLEAN : CliExits(r, clean)
  <2>1. PICK clean \in BOOLEAN : CliExits(r, clean)
    BY <1>4
  <2> DEFINE c == [run[r].bridge EXCEPT !.cli = FALSE]
             x == [run[r] EXCEPT !.bridge = c]
  <2>2. run[r].bridge \in Bridge
    BY <1>1, <2>1 DEF CliExits, Up, RunInstance
  <2>3. c \in Bridge
    BY <2>2 DEF Bridge
  <2>4. OnExit(r, x, clean)
    BY <2>1 DEF CliExits
  <2> HIDE DEF c
  <2>5. x \in RunInstance /\ x.timers <= x.restarts
    BY <1>1, <2>3 DEF RunInstance
  <2> QED BY <2>4, <2>5, ExitSteady
<1>5. CASE TerminalClose(r)
  BY <1>1, <1>3, <1>5, ExitSteady DEF TerminalClose
<1>6. CASE Shutdown(r)
  <2> DEFINE x == [w EXCEPT !.bye = TRUE]
  <2>1. CASE run' = [run EXCEPT ![r] = x] /\ UNCHANGED breaker
    <3>1. /\ x.timers = run[r].timers /\ x.restarts = run[r].restarts
          /\ x.state = run[r].state /\ x.bridge = Stopped(run[r].bridge)
      BY <1>1, <1>2 DEF RunInstance
    <3>2. run[r].bridge \in Bridge /\ Up(run[r].bridge)
      BY <1>1, <1>6 DEF Shutdown, Up, RunInstance
    <3>3. Stopped(run[r].bridge).spawned = run[r].bridge.spawned
      BY <3>2, StoppedBridge DEF Up
    <3> HIDE DEF x
    <3>4. Steady(x)
      <4>1. x.state # "stopping"
        BY <1>1, <3>1, <3>2 DEF Steady
      <4> QED BY <1>1, <3>1, <3>3, <4>1 DEF Steady
    <3>6. Fresh(run[r], x)
      BY <3>1 DEF Fresh
    <3>5. \A b : Trial(run[r], b) => Trial(x, b)
      BY <1>1, <3>1, <3>2 DEF Trial, Up
    <3> QED BY <2>1, <3>4, <3>5, <3>6, QuietSteady
  <2>2. CASE OnExit(r, w, TRUE)
    BY <1>1, <1>3, <2>2, ExitSteady
  <2> QED BY <1>6, <2>1, <2>2 DEF Shutdown
<1>7. CASE ShutdownDone(r)
  <2>1. LET x == [run[r] EXCEPT !.bye = FALSE] IN x \in RunInstance /\ x.timers <= x.restarts
    BY <1>1 DEF RunInstance
  <2> QED BY <1>7, <2>1, ExitSteady DEF ShutdownDone
<1>8. CASE RestartFires(r)
  <2> DEFINE y == [[run[r] EXCEPT !.timers = run[r].timers - 1] EXCEPT !.armed = FALSE]
  <2>1. run[r].timers \in Nat /\ run[r].timers > 0 /\ run[r].restarts \in Nat
    BY <1>1, <1>8 DEF RestartFires, RunInstance
  <2>2. run[r].timers - 1 \in Nat
    BY <2>1
  <2>3. /\ y \in RunInstance /\ y.timers = run[r].timers - 1
        /\ y.restarts = run[r].restarts
    BY <1>1, <2>2 DEF RunInstance
  <2>4. PICK x \in Spawned(y) :
           /\ run' = [run EXCEPT ![r] = x]
           /\ breaker' = IF x.state = "gone" THEN Forget({r}) ELSE breaker
    BY <1>8 DEF RestartFires
  <2> HIDE DEF y
  <2>5. /\ Steady(x) /\ (x.state \in Counted => x.restarts = y.restarts)
        /\ y.timers = 0 /\ x.state # "gone" => \A b : Trial(x, b)
    BY <1>1, <2>1, <2>3, <2>4, SteadySpawned
  <2>6. Fresh(run[r], x)
    BY <1>1, <2>1, <2>3, <2>5 DEF Fresh
  <2>7. \A b : Trial(run[r], b) => y.timers = 0
    BY <2>1, <2>3 DEF Trial
  <2> QED BY <2>4, <2>5, <2>6, <2>7, QuietSteady
<1>9. CASE Stop(r)
  <2> DEFINE d == Disarmed(run[r])
  <2>1. d \in RunInstance /\ d.bridge = run[r].bridge /\ d.restarts = run[r].restarts
    <3>1. Timed(run[r])
      BY DEF ProbeInv
    <3>2. d \in RunInstance
      BY <3>1, TimedValues DEF Timed
    <3>3. d.bridge = run[r].bridge /\ d.restarts = run[r].restarts
      BY <1>1 DEF Disarmed, RunInstance
    <3> QED BY <3>2, <3>3
  <2>2. d.timers = IF run[r].armed THEN run[r].timers - 1 ELSE run[r].timers
    BY <1>1 DEF Disarmed, RunInstance
  <2>3. StopMarked(run[r]) = [d EXCEPT !.state = "stopping", !.userStop = TRUE,
                                       !.bridge = Stopped(run[r].bridge), !.stops = TRUE]
    BY <2>1 DEF StopMarked, RunInstance
  <2> HIDE DEF d
  <2>4. /\ StopMarked(run[r]) \in RunInstance /\ StopMarked(run[r]).state = "stopping"
        /\ StopMarked(run[r]).timers = d.timers /\ StopMarked(run[r]).restarts = run[r].restarts
        /\ StopMarked(run[r]).stops /\ StopMarked(run[r]).bridge = Stopped(run[r].bridge)
    BY <1>2, <2>1, <2>3 DEF RunInstance, RunState, Listed
  <2>5. run[r].timers \in Nat /\ run[r].restarts \in Nat /\ (run[r].armed => run[r].timers > 0)
    BY <1>1 DEF RunInstance, ProbeInv, Timed
  <2>6. Steady(StopMarked(run[r])) /\ Fresh(run[r], StopMarked(run[r]))
    BY <1>1, <1>2, <2>2, <2>4, <2>5 DEF Steady, Fresh, Counted, Listed
  <2>7. Up(run[r].bridge) => \A b : Trial(run[r], b) => Trial(StopMarked(run[r]), b)
    <3>1. ASSUME Up(run[r].bridge), NEW b, Trial(run[r], b) PROVE run[r].timers = 0
      BY <2>5, <3>1 DEF Trial, Up
    <3>2. ASSUME Up(run[r].bridge), NEW b, Trial(run[r], b) PROVE StopMarked(run[r]).timers = 0
      BY <2>2, <2>4, <2>5, <3>1, <3>2
    <3> QED BY <2>4, <3>2 DEF Trial
  <2>8. Steady(Gone(StopMarked(run[r]))) /\ Fresh(run[r], Gone(StopMarked(run[r])))
    BY <2>4, SteadyGone DEF Fresh
  <2> QED BY <1>9, <2>6, <2>7, <2>8, QuietSteady DEF Stop
<1>10. CASE StopDone(r)
  <2>1. Steady(Gone(run[r])) /\ Fresh(run[r], Gone(run[r]))
    BY <1>1, SteadyGone DEF Fresh
  <2> QED BY <1>10, <2>1, QuietSteady DEF StopDone
<1> QED BY <1>4, <1>5, <1>6, <1>7, <1>8, <1>9, <1>10


(* What a run is while it stays, or its bridge does.                       *)
LEMMA BridgeSteady ==
    ASSUME ProbeInv, SteadyInv, NEW r \in Run,
           \/ Receive(r) \/ Refuse(r) \/ Connect(r) \/ MessageStartsCli(r) \/ LinkLost(r)
           \/ Ready(r) \/ Activity(r) \/ Age(r)
    PROVE  SteadyInv' /\ First' \subseteq First
<1>1. run[r] \in RunInstance /\ Steady(run[r])
  BY DEF ProbeInv, Timed, SteadyInv
<1>2. Up(run[r].bridge) =>
         /\ run[r].bridge \in Bridge /\ run[r].state # "stopping"
         /\ \A b : Trial(run[r], b) => run[r].timers = 0
  BY <1>1 DEF Up, RunInstance, Steady, Trial
<1>3. ASSUME Up(run[r].bridge), NEW b \in Bridge, b.spawned = run[r].bridge.spawned,
             run' = [run EXCEPT ![r] = [run[r] EXCEPT !.bridge = b]], breaker' = breaker
      PROVE  SteadyInv' /\ First' \subseteq First
  <2> DEFINE x == [run[r] EXCEPT !.bridge = b]
  <2>1. /\ x.state = run[r].state /\ x.bridge = b
        /\ x.timers = run[r].timers /\ x.restarts = run[r].restarts
    BY <1>1 DEF RunInstance
  <2> HIDE DEF x
  <2>2. Steady(x) /\ Fresh(run[r], x)
    BY <1>1, <1>2, <1>3, <2>1 DEF Steady, Fresh
  <2>3. \A c : Trial(run[r], c) => Trial(x, c)
    BY <1>2, <1>3, <2>1 DEF Trial
  <2> QED BY <1>3, <2>2, <2>3, QuietSteady DEF x
<1>4. CASE Receive(r) \/ Refuse(r)
  <2>1. PICK s \in {"checking", "refused"} : run' = [run EXCEPT ![r] = [run[r] EXCEPT !.state = s]]
    BY <1>4 DEF Receive, Refuse
  <2> DEFINE x == [run[r] EXCEPT !.state = s]
  <2>2. /\ x.state = s /\ x.timers = run[r].timers /\ x.restarts = run[r].restarts
    BY <1>1 DEF RunInstance
  <2>3. run[r].timers = 0 /\ 0 <= run[r].restarts
    BY <1>1, <1>4 DEF Receive, Refuse, In, Listed, Steady, RunInstance
  <2> HIDE DEF x
  <2>4. Steady(x) /\ Fresh(run[r], x) /\ \A c : Trial(x, c)
    BY <2>1, <2>2, <2>3 DEF Steady, Fresh, Counted, Listed, Trial
  <2> QED BY <1>4, <2>1, <2>4, QuietSteady DEF Receive, Refuse, x
<1>5. CASE Connect(r)
  <2> DEFINE b == [[run[r].bridge EXCEPT !.link = TRUE] EXCEPT !.cli = TRUE]
  <2>1. Up(run[r].bridge) /\ run' = [run EXCEPT ![r] = [run[r] EXCEPT !.bridge = b]] /\ breaker' = breaker
    BY <1>1, <1>5 DEF Connect, RunInstance
  <2>2. b \in Bridge /\ b.spawned = run[r].bridge.spawned
    BY <1>2, <2>1 DEF Bridge
  <2> HIDE DEF b
  <2> QED BY <1>3, <2>1, <2>2
<1>6. CASE MessageStartsCli(r)
  <2> DEFINE b == [run[r].bridge EXCEPT !.cli = TRUE]
  <2>1. Up(run[r].bridge) /\ run' = [run EXCEPT ![r] = [run[r] EXCEPT !.bridge = b]] /\ breaker' = breaker
    BY <1>1, <1>6 DEF MessageStartsCli, RunInstance
  <2>2. b \in Bridge /\ b.spawned = run[r].bridge.spawned
    BY <1>2, <2>1 DEF Bridge
  <2> HIDE DEF b
  <2> QED BY <1>3, <2>1, <2>2
<1>7. CASE LinkLost(r)
  <2> DEFINE b == [run[r].bridge EXCEPT !.link = FALSE]
  <2>1. Up(run[r].bridge) /\ run' = [run EXCEPT ![r] = [run[r] EXCEPT !.bridge = b]] /\ breaker' = breaker
    BY <1>1, <1>7 DEF LinkLost, RunInstance
  <2>2. b \in Bridge /\ b.spawned = run[r].bridge.spawned
    BY <1>2, <2>1 DEF Bridge
  <2> HIDE DEF b
  <2> QED BY <1>3, <2>1, <2>2
<1>8. CASE Ready(r)
  <2> DEFINE b == [run[r].bridge EXCEPT !.spawned = TRUE]
             s == IF In(r, Listed) THEN "running" ELSE run[r].state
             x == [[run[r] EXCEPT !.bridge = b] EXCEPT !.state = s]
  <2>1. /\ run' = [run EXCEPT ![r] = x] /\ Up(run[r].bridge)
        /\ breaker' = [breaker EXCEPT ![RepoOf[r]] = StartSurvival(@, r)]
    BY <1>1, <1>8 DEF Ready, ProbeInv, RunInstance
  <2>2. b.spawned
    BY <1>2, <2>1 DEF Bridge
  <2>3. /\ x.state = s /\ x.bridge = b
        /\ x.timers = run[r].timers /\ x.restarts = run[r].restarts
    BY <1>1 DEF RunInstance
  <2> HIDE DEF x, b
  <2>4. Steady(x)
    BY <1>1, <1>2, <2>1, <2>2, <2>3 DEF Steady, In, Listed
  <2>5. Fresh(run[r], x)
    <3>1. run[r].timers \in Nat /\ run[r].restarts \in Nat
      BY <1>1 DEF RunInstance
    <3>2. run[r].state = "crashed" => run[r].restarts > 0
      BY <1>1, <3>1 DEF Steady
    <3> QED BY <1>2, <2>1, <2>3, <3>2 DEF Fresh, In, Listed, Counted
  <2>6. ASSUME NEW p \in Repo
        PROVE  /\ Waits(breaker'[p])
               /\ breaker'[p].probe = r => Trial(x, breaker'[p])
               /\ breaker'[p].probe \notin {None, r} => breaker'[p] = breaker[p]
    <3>1. Waits(breaker[p]) /\ Waits(StartSurvival(breaker[p], r)) /\ breaker[p] \in Breaker
      BY WaitsValues DEF ProbeInv, SteadyInv, Sound
    <3>2. CASE p # RepoOf[r]
      <4>1. breaker'[p] = breaker[p] /\ breaker[p].probe # r
        BY <2>1, <3>2 DEF ProbeInv, Sound
      <4> QED BY <3>1, <4>1
    <3>3. CASE p = RepoOf[r]
      <4>1. breaker'[p] = StartSurvival(breaker[p], r)
        BY <2>1, <3>3 DEF ProbeInv
      <4>2. /\ StartSurvival(breaker[p], r).probe = breaker[p].probe
            /\ breaker[p].probe = r => StartSurvival(breaker[p], r).timer = "survival"
            /\ breaker[p].probe # r => StartSurvival(breaker[p], r) = breaker[p]
        BY <3>1 DEF StartSurvival, Waits, Breaker
      <4>3. breaker[p].probe = r => run[r].timers = 0
        BY <1>2, <2>1 DEF SteadyInv
      <4> QED BY <2>3, <3>1, <4>1, <4>2, <4>3 DEF Trial
    <3> QED BY <3>2, <3>3
  <2> QED BY <2>1, <2>4, <2>5, <2>6, OneSteady
<1>9. CASE Activity(r) \/ Age(r)
  <2>1. PICK a \in BOOLEAN : run' = [run EXCEPT ![r] = [run[r] EXCEPT !.aged = a]]
    BY <1>9 DEF Activity, Age
  <2> DEFINE x == [run[r] EXCEPT !.aged = a]
  <2>2. /\ x.state = run[r].state /\ x.bridge = run[r].bridge /\ x.stops = run[r].stops
        /\ x.timers = run[r].timers /\ x.restarts = run[r].restarts
    BY <1>1 DEF RunInstance
  <2> HIDE DEF x
  <2>3. Steady(x) /\ Fresh(run[r], x) /\ \A c : Trial(run[r], c) => Trial(x, c)
    BY <1>1, <2>2 DEF Steady, Fresh, Trial
  <2> QED BY <1>9, <2>1, <2>3, QuietSteady DEF Activity, Age, x
<1> QED BY <1>4, <1>5, <1>6, <1>7, <1>8, <1>9

LEMMA BreakerSteady ==
    ASSUME ProbeInv, SteadyInv, NEW p \in Repo, HalfOpen(p) \/ Survive(p)
    PROVE  SteadyInv' /\ First' \subseteq First
<1>1. run' = run /\ \A q \in Repo \ {p} : breaker'[q] = breaker[q]
  BY DEF HalfOpen, Survive, ProbeInv
<1>2. Sound(breaker[p], p) /\ Waits(breaker[p]) /\ breaker[p] \in Breaker
  BY DEF ProbeInv, SteadyInv, Sound
<1>3. /\ Waits(breaker'[p])
      /\ breaker'[p].probe # None => Trial(run[breaker'[p].probe], breaker'[p])
  <2>1. CASE HalfOpen(p)
    <3>1. breaker'[p] = HalfOpened(breaker[p]) /\ HalfOpened(breaker[p]).probe = None
      BY <1>2, <2>1 DEF HalfOpen, HalfOpened, ProbeInv, Breaker
    <3> QED BY <1>2, <2>1, <3>1, WaitsTimers DEF HalfOpen
  <2>2. CASE Survive(p) /\ breaker'[p] = Closed
    <3>1. Closed.probe = None
      BY DEF Closed
    <3> QED BY <1>2, <2>2, <3>1, WaitsTimers
  <2>3. CASE Survive(p) /\ breaker'[p] # Closed
    <3> DEFINE c == [breaker[p] EXCEPT !.timer = "none"]
    <3>1. /\ breaker'[p] = c /\ breaker[p].timer = "survival"
          /\ ~(breaker[p].state = "half_open" /\ breaker[p].probe # None /\ In(breaker[p].probe, Counted))
      BY <2>3 DEF Survive, ProbeInv
    <3>2. c.probe = breaker[p].probe /\ Waits(c)
      BY <1>2, <3>1, WaitsTimers DEF Breaker
    <3>3. c.probe # None => Trial(run[c.probe], breaker[p]) /\ run[c.probe].state \notin Counted
      BY <1>2, <3>1, <3>2 DEF SteadyInv, Waits, In
    <3> QED BY <3>1, <3>2, <3>3 DEF Trial, Counted
  <2> QED BY <2>1, <2>2, <2>3
<1>4. \A q \in Repo : breaker'[q].probe # None => Trial(run[breaker'[q].probe], breaker'[q])
  BY <1>1, <1>3 DEF SteadyInv
<1>5. \A q \in Repo : Waits(breaker'[q])
  BY <1>1, <1>3 DEF SteadyInv
<1>6. First' = First
  BY <1>1 DEF First, In
<1> QED BY <1>1, <1>4, <1>5, <1>6 DEF SteadyInv, Steady, Waits, Trial

(* A start evicts what is stranded; one that is admitted found a slot.     *)
LEMMA StartSteady ==
    ASSUME ProbeInv, SteadyInv, NEW r \in Run, RefuseBusy(r) \/ Admit(r)
    PROVE  /\ SteadyInv'
           /\ \/ First' \subseteq First
              \/ /\ HasSlot
                 /\ First' \subseteq ({q \in Run : In(q, Counted)} \ Stranded) \cup {r}
<1>1. /\ run[r] \in RunInstance /\ Steady(run[r]) /\ run[r].state = "checking"
      /\ run[r].timers = 0 /\ run[r].timers <= run[r].restarts /\ r \notin Stranded
  BY DEF ProbeInv, Timed, SteadyInv, Steady, RefuseBusy, Admit, In, Listed, Stranded, Counted
<1>2. ASSUME NEW q \in Run
      PROVE  /\ Steady(Reclaimed[q]) /\ (q \in Stranded => Reclaimed[q].state \notin Counted)
             /\ q \notin Stranded => Reclaimed[q] = run[q]
  <2>1. Reclaimed[q] = IF q \in Stranded THEN Retired(run[q]) ELSE run[q]
    BY DEF Reclaimed
  <2>2. run[q] \in RunInstance /\ Steady(run[q])
    BY DEF ProbeInv, Timed, SteadyInv
  <2> QED BY <2>1, <2>2, SteadyGone
<1>3. ASSUME NEW p \in Repo
      PROVE  LET b == ReleaseProbe(breaker[p], Stranded)
             IN /\ Sound(b, p) /\ Waits(b) /\ b \in Breaker /\ b.probe # r
                /\ b.probe # None => b = breaker[p] /\ b.probe \in Run \ Stranded
  <2> DEFINE b == ReleaseProbe(breaker[p], Stranded)
  <2>0. Stranded \in SUBSET Run
    BY DEF Stranded
  <2>1. Sound(b, p) /\ Waits(b) /\ b \in Breaker
    BY <2>0, SoundValues, WaitsValues DEF ProbeInv, SteadyInv, Sound
  <2>2. b.probe # None => b = breaker[p] /\ b.probe \notin Stranded
    BY DEF ReleaseProbe, ProbeInv, Sound, Breaker
  <2>3. breaker[p].probe # r
    BY <1>1 DEF ProbeInv, ProbeNotPinned, In, Listed
  <2>4. b.probe \in Run \cup {None}
    BY <2>1 DEF Breaker
  <2> HIDE DEF b
  <2> QED BY <2>1, <2>2, <2>3, <2>4 DEF b
<1>4. ASSUME NEW x, Steady(x), run' = [Reclaimed EXCEPT ![r] = x],
             \A p \in Repo :
                /\ Waits(breaker'[p])
                /\ breaker'[p].probe = r => Trial(x, breaker'[p])
                /\ breaker'[p].probe \notin {None, r} =>
                      breaker'[p] = ReleaseProbe(breaker[p], Stranded)
      PROVE  /\ SteadyInv'
             /\ First' \subseteq ({q \in First : q \notin Stranded}
                                     \cup (IF x.state \in Counted THEN {r} ELSE {}))
  <2>1. run'[r] = x /\ \A q \in Run : q # r => run'[q] = Reclaimed[q]
    BY <1>4 DEF Reclaimed
  <2>2. \A q \in Run : Steady(run'[q])
    BY <1>2, <1>4, <2>1
  <2>3. ASSUME NEW p \in Repo, breaker'[p].probe # None
        PROVE  Trial(run'[breaker'[p].probe], breaker'[p])
    <3>1. CASE breaker'[p].probe = r
      BY <1>4, <2>1, <3>1
    <3>2. CASE breaker'[p].probe # r
      <4>1. breaker'[p] = ReleaseProbe(breaker[p], Stranded)
        BY <1>4, <2>3, <3>2
      <4>2. breaker'[p] = breaker[p] /\ breaker[p].probe \in Run \ Stranded /\ breaker[p].probe # None
        BY <1>3, <2>3, <4>1
      <4>3. run'[breaker[p].probe] = run[breaker[p].probe]
        BY <1>2, <2>1, <3>2, <4>2
      <4> QED BY <4>2, <4>3 DEF SteadyInv
    <3> QED BY <3>1, <3>2
  <2>4. SteadyInv'
    BY <1>4, <2>2, <2>3 DEF SteadyInv, Steady, Waits, Trial
  <2>5. \A q \in First' : \/ q = r /\ x.state \in Counted
                          \/ q # r /\ q \in First /\ q \notin Stranded
    BY <1>2, <2>1 DEF First, In
  <2> QED BY <2>4, <2>5
<1>5. CASE RefuseBusy(r)
  <2> DEFINE x == [run[r] EXCEPT !.state = "refused"]
  <2>1. x.state = "refused" /\ x.timers = run[r].timers /\ x.restarts = run[r].restarts
    BY <1>1 DEF RunInstance
  <2>2. run' = [Reclaimed EXCEPT ![r] = x]
    BY <1>1, <1>2, <1>5 DEF RefuseBusy
  <2> HIDE DEF x
  <2>3. Steady(x) /\ x.state \notin Counted
    BY <1>1, <2>1 DEF Steady, Counted, Listed
  <2>4. \A p \in Repo : breaker'[p] = ReleaseProbe(breaker[p], Stranded)
    BY <1>5 DEF RefuseBusy, Forget
  <2>5. /\ SteadyInv'
        /\ First' \subseteq ({q \in First : q \notin Stranded}
                                \cup (IF x.state \in Counted THEN {r} ELSE {}))
    BY <1>3, <1>4, <2>2, <2>3, <2>4
  <2> QED BY <2>3, <2>5
<1>6. CASE Admit(r)
  <2>1. PICK x \in Spawned(run[r]) :
           /\ run' = [Reclaimed EXCEPT ![r] = x]
           /\ breaker' = [p \in Repo |->
                            LET b == ReleaseProbe(breaker[p], Stranded)
                                c == IF p = RepoOf[r] THEN Claim(b, r) ELSE b
                            IN IF x.state = "gone" THEN ReleaseProbe(c, {r}) ELSE c]
    BY <1>6 DEF Admit
  <2>2. Steady(x) /\ (x.state # "gone" => \A b : Trial(x, b))
    BY <1>1, <2>1, SteadySpawned
  <2>3. ASSUME NEW p \in Repo
        PROVE  /\ Waits(breaker'[p])
               /\ breaker'[p].probe = r => Trial(x, breaker'[p])
               /\ breaker'[p].probe \notin {None, r} =>
                      breaker'[p] = ReleaseProbe(breaker[p], Stranded)
    <3> DEFINE b == ReleaseProbe(breaker[p], Stranded)
               c == IF p = RepoOf[r] THEN Claim(b, r) ELSE b
    <3>1. Sound(b, p) /\ Waits(b) /\ b \in Breaker /\ b.probe # r
      BY <1>3
    <3>2. breaker'[p] = IF x.state = "gone" THEN ReleaseProbe(c, {r}) ELSE c
      BY <2>1
    <3> HIDE DEF b
    <3>3. Sound(c, p) /\ Waits(c) /\ c \in Breaker
      <4>1. Waits(Claim(b, r))
        BY <3>1, WaitsValues
      <4>2. p = RepoOf[r] => Sound(Claim(b, r), p)
        BY <3>1, SoundValues
      <4> QED BY <3>1, <4>1, <4>2 DEF Sound
    <3>4. c = b \/ c.probe = r
      BY <3>1 DEF Claim, Breaker
    <3> HIDE DEF c
    <3>5. /\ Waits(ReleaseProbe(c, {r}))
          /\ c.probe = r => ReleaseProbe(c, {r}).probe = None
          /\ c.probe # r => ReleaseProbe(c, {r}) = c
      BY <3>3, WaitsValues DEF ReleaseProbe, Breaker
    <3> QED BY <2>2, <3>1, <3>2, <3>3, <3>4, <3>5 DEF b
  <2>4. First' \subseteq {q \in First : q \notin Stranded} \cup {r} /\ SteadyInv'
    BY <1>4, <2>1, <2>2, <2>3
  <2>5. HasSlot
    BY <1>6 DEF Admit
  <2> QED BY <2>4, <2>5 DEF First
<1> QED BY <1>5, <1>6

(* Every step keeps the invariant; the runs that were never restarted are  *)
(* the ones there were, or a start found a slot.                           *)
LEMMA SteadyInvStep ==
    ASSUME ProbeInv, SteadyInv, [Next]_vars
    PROVE  /\ SteadyInv'
           /\ \/ First' \subseteq First
              \/ \E r \in Run :
                    /\ HasSlot
                    /\ First' \subseteq ({q \in Run : In(q, Counted)} \ Stranded) \cup {r}
<1>1. CASE UNCHANGED vars
  BY <1>1 DEF vars, SteadyInv, First, In
<1>2. ASSUME NEW p \in Repo, HalfOpen(p) \/ Survive(p)
      PROVE  SteadyInv' /\ First' \subseteq First
  BY <1>2, BreakerSteady
<1>3. ASSUME NEW r \in Run, RefuseBusy(r) \/ Admit(r)
      PROVE  /\ SteadyInv'
             /\ \/ First' \subseteq First
                \/ /\ HasSlot
                   /\ First' \subseteq ({q \in Run : In(q, Counted)} \ Stranded) \cup {r}
  BY <1>3, StartSteady
<1> QED BY <1>1, <1>2, <1>3, BridgeSteady, EndSteady DEF Next

LEMMA SteadyAlways == Spec => [](ProbeInv /\ SteadyInv)
<1>1. ProbeInv /\ SteadyInv /\ [Next]_vars => (ProbeInv /\ SteadyInv)'
  BY ProbeInvStep, SteadyInvStep
<1> QED BY <1>1, InitProbeInv, InitSteady, PTL DEF Spec

(* Nothing is forgotten.                                                   *)
Unforgotten ==
    /\ \A p \in Repo :
          LET b == breaker[p]
          IN /\ b.state = "open" /\ b.failed < MaxProbes => b.timer = "cooldown"
             /\ b.state = "half_open" /\ b.probe # None =>
                   \/ In(b.probe, {"starting"})
                   \/ In(b.probe, {"running"}) /\ b.timer = "survival"
                   \/ In(b.probe, {"crashed"}) /\ run[b.probe].timers = 1
                   \/ In(b.probe, {"stopping"}) /\ run[b.probe].stops
    /\ \A r \in Run :
          /\ In(r, {"crashed"}) => run[r].timers \in 1 .. MaxRestarts
          /\ In(r, {"stopping"}) => run[r].stops

LEMMA SteadyForgetsNothing == ProbeInv /\ SteadyInv => Unforgotten
<1> SUFFICES ASSUME ProbeInv, SteadyInv PROVE Unforgotten
  OBVIOUS
<1>1. ASSUME NEW r \in Run
      PROVE  /\ In(r, {"crashed"}) => run[r].timers \in 1 .. MaxRestarts
             /\ In(r, {"stopping"}) => run[r].stops
  <2>1. run[r].timers \in Nat /\ run[r].restarts \in 0 .. MaxRestarts /\ Steady(run[r])
    BY DEF ProbeInv, Timed, RunInstance, SteadyInv
  <2>2. MaxRestarts \in Nat
    OBVIOUS
  <2> QED BY <2>1, <2>2 DEF Steady, In
<1>2. ASSUME NEW p \in Repo, breaker[p].state = "half_open", breaker[p].probe # None
      PROVE  \/ In(breaker[p].probe, {"starting"})
             \/ In(breaker[p].probe, {"running"}) /\ breaker[p].timer = "survival"
             \/ In(breaker[p].probe, {"crashed"}) /\ run[breaker[p].probe].timers = 1
             \/ In(breaker[p].probe, {"stopping"}) /\ run[breaker[p].probe].stops
  <2> DEFINE q == breaker[p].probe
  <2>1. q \in Run /\ In(q, Listed) /\ Trial(run[q], breaker[p]) /\ Steady(run[q])
    BY <1>2 DEF ProbeInv, ProbeNotPinned, Sound, Breaker, SteadyInv
  <2> HIDE DEF q
  <2>2. CASE run[q].state = "crashed"
    BY <2>1, <2>2 DEF Steady, Trial, In, q
  <2>3. CASE run[q].state # "crashed"
    BY <2>1, <2>3 DEF Steady, Trial, In, Listed, q
  <2> QED BY <2>2, <2>3
<1>3. \A p \in Repo : breaker[p].state = "open" /\ breaker[p].failed < MaxProbes =>
                        breaker[p].timer = "cooldown"
  BY DEF SteadyInv, Waits
<1> QED BY <1>1, <1>2, <1>3 DEF Unforgotten

(* Nothing is forgotten, whatever the bridges do: an open breaker with a   *)
(* trial left can half-open; a half-open one can admit a trial, or has one *)
(* that starts, that its survival timer or its restart timer is on, or     *)
(* that a stop() will forget; a run in backoff is restarted at most        *)
(* MaxRestarts times, and one being stopped is forgotten (the safety part  *)
(* of BreakerHeals and of RunSettles).                                     *)
THEOREM NothingForgotten == Spec => []Unforgotten
BY SteadyForgetsNothing, SteadyAlways, PTL

(* The runs that were never restarted fit into maxConcurrent, whatever the *)
(* bridges of crashed runs do.                                             *)
THEOREM FirstRunsFit ==
    ASSUME IsFiniteSet(Run)
    PROVE  Spec => []FirstRunsWithinCap
<1> DEFINE Fits == IsFiniteSet(First) /\ Cardinality(First) <= MaxConcurrent
<1>1. Init => Fits
  BY InitSteady, FS_EmptySet
<1>2. ASSUME ProbeInv, SteadyInv, [Next]_vars, Fits
      PROVE  Fits'
  <2>1. CASE First' \subseteq First
    <3>1. IsFiniteSet(First') /\ Cardinality(First') <= Cardinality(First)
      BY <1>2, <2>1, FS_Subset
    <3>2. Cardinality(First') \in Nat /\ Cardinality(First) \in Nat
      BY <1>2, <3>1, FS_CardinalityType
    <3> QED BY <1>2, <3>1, <3>2
  <2>2. ASSUME NEW r \in Run, HasSlot,
               First' \subseteq ({q \in Run : In(q, Counted)} \ Stranded) \cup {r}
        PROVE  Fits'
    <3> DEFINE S == {q \in Run : In(q, Counted)} \ Stranded
    <3>1. IsFiniteSet(S)
      BY FS_Subset
    <3>2. Cardinality(S) < MaxConcurrent
      BY <2>2 DEF HasSlot
    <3>3. First' \subseteq S \cup {r}
      BY <2>2
    <3> HIDE DEF S
    <3>4. IsFiniteSet(S \cup {r}) /\ Cardinality(S) \in Nat
          /\ Cardinality(S \cup {r}) <= Cardinality(S) + 1
      <4>1. Cardinality(S) \in Nat
        BY <3>1, FS_CardinalityType
      <4>2. IsFiniteSet(S \cup {r}) /\ Cardinality(S \cup {r})
               = IF r \in S THEN Cardinality(S) ELSE Cardinality(S) + 1
        BY <3>1, FS_AddElement
      <4> QED BY <4>1, <4>2
    <3>5. IsFiniteSet(First') /\ Cardinality(First') <= Cardinality(S \cup {r})
      BY <3>3, <3>4, FS_Subset
    <3>6. Cardinality(First') \in Nat /\ Cardinality(S \cup {r}) \in Nat
      BY <3>4, <3>5, FS_CardinalityType
    <3> QED BY <3>2, <3>4, <3>5, <3>6
  <2> QED BY <1>2, <2>1, <2>2, SteadyInvStep
<1>3. Fits => FirstRunsWithinCap
  BY DEF First, FirstRunsWithinCap
<1> HIDE DEF Fits
<1> QED BY <1>1, <1>2, <1>3, SteadyAlways, PTL DEF Spec

-----------------------------------------------------------------------------
(* Bridges and repositories, where the bridge of a crashed run stays quiet *)
(* until the restart.                                                      *)

Live == {"starting", "running", "crashed"}

(* Only a live run has a bridge that is not stopped, only a crashed one a  *)
(* restart timer, which is held, and no CLI; who is being stopped is       *)
(* stopping.                                                               *)
Owns(x) ==
    /\ Up(x.bridge) => x.state \in Live
    /\ x.timers > 0 => x.timers = 1 /\ x.armed /\ x.state = "crashed"
    /\ x.userStop \/ x.stops => x.state = "stopping"
    /\ x.state = "stopping" => x.userStop
    /\ x.state = "crashed" /\ Up(x.bridge) => ~x.bridge.cli

LEMMA OwnsGone ==
    ASSUME NEW x \in RunInstance
    PROVE  /\ ~Up(x.bridge) => Owns(Gone(x))
           /\ Owns(Retired(x))
           /\ Gone(x).state \notin Live /\ Retired(x).state \notin Live
<1>1. ASSUME NEW y \in RunInstance, ~Up(y.bridge) PROVE Owns(Gone(y))
  <2>1. Gone(y) = [NewRun EXCEPT !.state = "gone", !.bridge = None]
    BY <1>1 DEF Gone
  <2> QED BY <2>1 DEF Owns, NewRun, Up
<1>2. ~Up(Stopped(x.bridge))
  BY DEF Up, Stopped, RunInstance, Bridge
<1>3. [x EXCEPT !.bridge = Stopped(@)] \in RunInstance
      /\ [x EXCEPT !.bridge = Stopped(@)].bridge = Stopped(x.bridge)
  BY StoppedType DEF RunInstance
<1>4. Owns(Retired(x))
  BY <1>1, <1>2, <1>3 DEF Retired
<1>5. Gone(x).state \notin Live /\ Retired(x).state \notin Live
  BY GoneType, RetiredType DEF Live
<1> QED BY <1>1, <1>4, <1>5

(* A crash that is rescheduled.                                            *)
Crashed(x) ==
    /\ x \in RunInstance
    /\ x.timers = 0 /\ ~x.userStop /\ ~x.stops
    /\ Up(x.bridge) => ~x.bridge.cli

LEMMA OwnsRescheduled ==
    ASSUME NEW x, Crashed(x)
    PROVE  Owns(Rescheduled(x)) /\ (Rescheduled(x).state = "crashed" \/ Rescheduled(x).state \notin Live)
<1>1. CASE x.restarts >= MaxRestarts
  BY <1>1, OwnsGone DEF Rescheduled, Crashed
<1>2. CASE ~(x.restarts >= MaxRestarts)
  <2>1. x \in RunInstance /\ x.restarts \in Nat
    BY DEF Crashed, RunInstance
  <2>2. /\ Rescheduled(x).timers = x.timers + 1 /\ Rescheduled(x).armed
        /\ Rescheduled(x).state = "crashed" /\ Rescheduled(x).restarts = x.restarts + 1
        /\ Rescheduled(x).userStop = x.userStop /\ Rescheduled(x).stops = x.stops
        /\ Rescheduled(x).bridge = x.bridge
    BY <1>2, <2>1 DEF Rescheduled, RunInstance
  <2> QED BY <2>1, <2>2 DEF Owns, Live, Crashed
<1> QED BY <1>1, <1>2

LEMMA OwnsSpawned ==
    ASSUME NEW x \in RunInstance, x.timers = 0, ~x.userStop, ~x.stops, NEW y \in Spawned(x)
    PROVE  /\ Owns(y)
           /\ y.state \in Live => y.state \in {"starting", "crashed"}
<1>1. LET z == [x EXCEPT !.state = "starting", !.bridge = NewBridge]
      IN Owns(z) /\ z.state = "starting"
  BY DEF Owns, Live, RunInstance
<1>2. Crashed([x EXCEPT !.bridge = None])
  BY DEF Crashed, RunInstance, Up
<1> QED BY <1>1, <1>2, OwnsRescheduled DEF Spawned

(* The invariant: at most one live run of a repository, none while its     *)
(* breaker is open, and the probe alone while it is half open.             *)
RunInv ==
    /\ \A r \in Run : Owns(run[r])
    /\ \A q, r \in Run : In(q, Live) /\ In(r, Live) /\ RepoOf[q] = RepoOf[r] => q = r
    /\ \A r \in Run : In(r, Live) =>
          /\ breaker[RepoOf[r]].state # "open"
          /\ breaker[RepoOf[r]].state = "half_open" => breaker[RepoOf[r]].probe = r

(* What a step other than a start may make of a run's value.               *)
Follows(a, x) == x.state \in Live => a.state \in Live

LEMMA InitRunInv == Init => RunInv
BY DEF Init, RunInv, Owns, NewRun, In, Live, Up

(* A step of one run that starts none.  The breaker of its repository      *)
(* stays in its state with its probe, or the run is no longer live.        *)
LEMMA OneFollows ==
    ASSUME ProbeInv, RunInv, NEW r \in Run, NEW x, Owns(x), Follows(run[r], x),
           run' = [run EXCEPT ![r] = x],
           \A p \in Repo \ {RepoOf[r]} : breaker'[p] = breaker[p],
           \/ x.state \notin Live /\ In(r, Live)
           \/ /\ breaker'[RepoOf[r]].state = breaker[RepoOf[r]].state
              /\ \/ breaker'[RepoOf[r]].probe = breaker[RepoOf[r]].probe
                 \/ x.state \notin Live /\ breaker[RepoOf[r]].probe = r
    PROVE  RunInv'
<1>1. run'[r] = x /\ \A q \in Run : q # r => run'[q] = run[q]
  BY DEF ProbeInv
<1>2. \A q \in Run : run'[q].state \in Live => run[q].state \in Live
  BY <1>1 DEF Follows
<1>3. \A q \in Run : Owns(run'[q])
  BY <1>1 DEF RunInv
<1>5. ASSUME NEW q \in Run, run'[q].state \in Live
      PROVE  /\ breaker'[RepoOf[q]].state # "open"
             /\ breaker'[RepoOf[q]].state = "half_open" => breaker'[RepoOf[q]].probe = q
  <2>1. run[q].state \in Live
    BY <1>2, <1>5
  <2>2. CASE RepoOf[q] # RepoOf[r]
    <3>1. breaker'[RepoOf[q]] = breaker[RepoOf[q]]
      BY <2>2
    <3> QED BY <2>1, <3>1 DEF RunInv, In
  <2>3. CASE RepoOf[q] = RepoOf[r] /\ x.state \in Live
    BY <2>1, <2>3 DEF RunInv, In
  <2>4. CASE RepoOf[q] = RepoOf[r] /\ x.state \notin Live
    <3>1. q # r
      BY <1>1, <1>5, <2>4
    <3>2. ~In(r, Live)
      BY <2>1, <2>4, <3>1 DEF RunInv, In
    <3> QED BY <2>1, <2>4, <3>1, <3>2 DEF RunInv, In
  <2> QED BY <2>2, <2>3, <2>4
<1> QED BY <1>2, <1>3, <1>5 DEF RunInv, In

(* ... as it is where the breakers stay or the run is forgotten.           *)
LEMMA QuietFollows ==
    ASSUME ProbeInv, RunInv, NEW r \in Run, NEW x, Owns(x), Follows(run[r], x),
           run' = [run EXCEPT ![r] = x],
           breaker' = breaker \/ (breaker' = Forget({r}) /\ x.state \notin Live)
    PROVE  RunInv'
<1>1. CASE breaker' = breaker
  BY <1>1, OneFollows
<1>2. CASE breaker' = Forget({r}) /\ x.state \notin Live
  <2>1. \A p \in Repo : breaker'[p] = ReleaseProbe(breaker[p], {r})
    BY <1>2 DEF Forget
  <2>2. ASSUME NEW p \in Repo
        PROVE  /\ ReleaseProbe(breaker[p], {r}).state = breaker[p].state
               /\ breaker[p].probe # r => ReleaseProbe(breaker[p], {r}) = breaker[p]
    BY DEF ReleaseProbe, ProbeInv, Sound, Breaker
  <2>3. \A p \in Repo \ {RepoOf[r]} : breaker[p].probe # r
    BY DEF ProbeInv, Sound
  <2>4. RepoOf[r] \in Repo
    OBVIOUS
  <2> QED BY <1>2, <2>1, <2>2, <2>3, <2>4, OneFollows
<1> QED BY <1>1, <1>2

(* onExit().                                                               *)
LEMMA ExitFollows ==
    ASSUME ProbeInv, RunInv, NEW r \in Run, NEW x \in RunInstance, NEW clean \in BOOLEAN,
           OnExit(r, x, clean), x.state = run[r].state, Owns(x),
           ~clean /\ Up(x.bridge) => ~x.bridge.cli, x.state = "crashed" => clean
    PROVE  RunInv'
<1>1. /\ Gone(x).state \notin Live /\ Retired(x).state \notin Live
      /\ Gone(x).state = "gone" /\ Retired(x).state = "gone" /\ Owns(Retired(x))
  BY OwnsGone, GoneType, RetiredType
<1>2. Follows(run[r], Gone(x)) /\ Follows(run[r], Retired(x))
  BY <1>1 DEF Follows, Live, Counted
<1>3. CASE ~In(r, Listed) /\ run' = [run EXCEPT ![r] = Gone(x)] /\ UNCHANGED breaker
  <2>1. ~Up(x.bridge)
    BY <1>3 DEF Owns, In, Listed, Live
  <2> QED BY <1>1, <1>2, <1>3, <2>1, OwnsGone, QuietFollows
<1>4. CASE In(r, Listed) /\ (x.userStop \/ clean) /\ breaker' = Forget({r})
           /\ run' = [run EXCEPT ![r] = IF x.userStop THEN Gone(x) ELSE Retired(x)]
  <2>1. x.userStop => ~Up(x.bridge)
    BY DEF Owns, Live
  <2> QED BY <1>1, <1>2, <1>4, <2>1, OwnsGone, QuietFollows
<1>5. ASSUME NEW n \in 1 .. x.crashes + 1, In(r, Listed), ~x.userStop, ~clean,
             LET y     == [x EXCEPT !.crashes = n]
                 trips == breaker[RepoOf[r]].state = "half_open" \/ n >= Threshold
                 z     == IF trips THEN Retired(y) ELSE Rescheduled(y)
             IN /\ run' = [run EXCEPT ![r] = z]
                /\ breaker' = IF trips THEN [breaker EXCEPT ![RepoOf[r]] = Tripped(@)]
                              ELSE IF z.state = "gone" THEN Forget({r})
                              ELSE breaker
      PROVE  RunInv'
  <2> DEFINE y     == [x EXCEPT !.crashes = n]
             trips == breaker[RepoOf[r]].state = "half_open" \/ n >= Threshold
  <2>1. CASE trips
    <3>1. run' = [run EXCEPT ![r] = Retired(y)]
          /\ breaker' = [breaker EXCEPT ![RepoOf[r]] = Tripped(@)]
      BY <1>5, <2>1
    <3>2. Retired(y) = Retired(x)
      BY DEF Retired, Gone, RunInstance
    <3>3. In(r, Live)
      BY <1>5 DEF In, Listed, Live, Owns
    <3>4. \A p \in Repo \ {RepoOf[r]} : breaker'[p] = breaker[p]
      BY <3>1 DEF ProbeInv
    <3> QED BY <1>1, <1>2, <3>1, <3>2, <3>3, <3>4, OneFollows
  <2>2. CASE ~trips
    <3>1. /\ run' = [run EXCEPT ![r] = Rescheduled(y)]
          /\ breaker' = IF Rescheduled(y).state = "gone" THEN Forget({r}) ELSE breaker
      BY <1>5, <2>2
    <3>2. n \in 0 .. Threshold
      BY <2>2 DEF RunInstance
    <3>3. x.timers = 0 /\ ~x.stops
      BY <1>5 DEF Owns, RunInstance
    <3>4. Crashed(y) /\ y \in RunInstance
      BY <1>5, <3>2, <3>3 DEF Crashed, RunInstance
    <3> HIDE DEF y
    <3>5. /\ Owns(Rescheduled(y)) /\ Rescheduled(y).state \in {"crashed", "gone"}
          /\ Rescheduled(y).state = "crashed" => Rescheduled(y).state \in Live
          /\ Rescheduled(y).state = "gone" => Rescheduled(y).state \notin Live
          /\ Rescheduled(y).state \notin Counted
      BY <3>4, OwnsRescheduled, RescheduledType DEF Live, Counted
    <3>6. In(r, Live)
      BY <1>5 DEF In, Listed, Live, Owns
    <3>7. Follows(run[r], Rescheduled(y))
      BY <3>5, <3>6 DEF Follows, In
    <3> QED BY <3>1, <3>5, <3>7, QuietFollows
  <2> QED BY <2>1, <2>2
<1> QED BY <1>3, <1>4, <1>5 DEF OnExit

(* The ways a run ends.                                                    *)
LEMMA EndFollows ==
    ASSUME ProbeInv, RunInv, ~BackoffEvents, NEW r \in Run,
           \/ \E clean \in BOOLEAN : CliExits(r, clean)
           \/ TerminalClose(r) \/ Shutdown(r) \/ ShutdownDone(r)
           \/ Stop(r) \/ StopDone(r)
    PROVE  RunInv'
<1>1. run[r] \in RunInstance /\ Owns(run[r]) /\ Timed(run[r])
  BY DEF ProbeInv, Timed, RunInv
<1>2. Stopped(run[r].bridge) \in Bridge \cup {None} /\ ~Up(Stopped(run[r].bridge))
  BY <1>1, StoppedType DEF RunInstance, Stopped, Up, Bridge
<1> DEFINE w == [run[r] EXCEPT !.bridge = Stopped(@)]
<1>3. w \in RunInstance /\ Owns(w) /\ w.state = run[r].state /\ ~Up(w.bridge)
  BY <1>1, <1>2 DEF Owns, RunInstance
<1>4. CASE \E clean \in BOOLEAN : CliExits(r, clean)
  <2>1. PICK clean \in BOOLEAN : CliExits(r, clean)
    BY <1>4
  <2> DEFINE c == [run[r].bridge EXCEPT !.cli = FALSE]
             x == [run[r] EXCEPT !.bridge = c]
  <2>2. run[r].bridge \in Bridge /\ Up(run[r].bridge) /\ run[r].bridge.cli
    BY <1>1, <2>1 DEF CliExits, Up, RunInstance
  <2>3. c \in Bridge /\ ~c.cli
    BY <2>2 DEF Bridge
  <2>4. OnExit(r, x, clean)
    BY <2>1 DEF CliExits
  <2>5. run[r].state # "crashed" /\ run[r].state \in Live
    BY <1>1, <2>2 DEF Owns
  <2> HIDE DEF c
  <2>6. x \in RunInstance /\ x.state = run[r].state /\ x.bridge = c
    BY <1>1, <2>3 DEF RunInstance
  <2>7. Owns(x)
    BY <1>1, <2>3, <2>5 DEF Owns, RunInstance
  <2> HIDE DEF x
  <2> QED BY <2>3, <2>4, <2>5, <2>6, <2>7, ExitFollows
<1>5. CASE TerminalClose(r)
  <2>1. run[r].state # "crashed" /\ OnExit(r, w, FALSE)
    BY <1>5 DEF TerminalClose, Acts, In
  <2> QED BY <1>3, <2>1, ExitFollows
<1>6. CASE Shutdown(r)
  <2>1. CASE run' = [run EXCEPT ![r] = [w EXCEPT !.bye = TRUE]] /\ UNCHANGED breaker
    <3>1. Owns([w EXCEPT !.bye = TRUE]) /\ Follows(run[r], [w EXCEPT !.bye = TRUE])
      BY <1>1, <1>2 DEF Owns, Follows, RunInstance
    <3> QED BY <2>1, <3>1, QuietFollows
  <2>2. CASE OnExit(r, w, TRUE)
    BY <1>3, <2>2, ExitFollows
  <2> QED BY <1>6, <2>1, <2>2 DEF Shutdown
<1>7. CASE ShutdownDone(r)
  <2> DEFINE x == [run[r] EXCEPT !.bye = FALSE]
  <2>1. x \in RunInstance /\ x.state = run[r].state /\ Owns(x)
    BY <1>1 DEF Owns, RunInstance
  <2> QED BY <1>7, <2>1, ExitFollows DEF ShutdownDone
<1>8. CASE Stop(r)
  <2>1. /\ StopMarked(run[r]) \in RunInstance /\ StopMarked(run[r]).state = "stopping"
        /\ StopMarked(run[r]).timers = 0 /\ StopMarked(run[r]).userStop
        /\ StopMarked(run[r]).bridge = Stopped(run[r].bridge)
    <3> DEFINE d == Disarmed(run[r])
    <3>1. /\ d \in RunInstance /\ d.bridge = run[r].bridge /\ d.timers = 0
      <4>1. d \in RunInstance /\ d.bridge = run[r].bridge
        BY <1>1, TimedValues DEF Disarmed, RunInstance, Timed
      <4>2. run[r].timers \in {0, 1} /\ (run[r].timers = 1 => run[r].armed)
        BY <1>1 DEF Owns, RunInstance
      <4>3. d.timers = IF run[r].armed THEN run[r].timers - 1 ELSE run[r].timers
        <5>1. run[r] \in RunInstance
          BY <1>1
        <5> QED BY <5>1 DEF Disarmed, RunInstance
      <4>4. run[r].armed => run[r].timers = 1
        BY <1>1, <4>2 DEF Timed
      <4> QED BY <4>1, <4>2, <4>3, <4>4
    <3>2. StopMarked(run[r]) = [d EXCEPT !.state = "stopping", !.userStop = TRUE,
                                         !.bridge = Stopped(run[r].bridge), !.stops = TRUE]
      BY <3>1 DEF StopMarked, RunInstance
    <3> HIDE DEF d
    <3> QED BY <1>2, <3>1, <3>2 DEF RunInstance, RunState, Listed
  <2>2. Owns(StopMarked(run[r])) /\ Follows(run[r], StopMarked(run[r]))
    BY <1>2, <2>1 DEF Owns, Follows, Live, Counted
  <2>3. Owns(Gone(StopMarked(run[r]))) /\ Follows(run[r], Gone(StopMarked(run[r])))
        /\ Gone(StopMarked(run[r])).state \notin Live
    BY <1>2, <2>1, OwnsGone, GoneType DEF Follows, Live, Counted
  <2> QED BY <1>8, <2>2, <2>3, QuietFollows DEF Stop
<1>9. CASE StopDone(r)
  <2>1. ~Up(run[r].bridge)
    BY <1>1, <1>9 DEF StopDone, Owns, Live
  <2>2. Owns(Gone(run[r])) /\ Follows(run[r], Gone(run[r])) /\ Gone(run[r]).state \notin Live
    BY <1>1, <2>1, OwnsGone, GoneType DEF Follows, Live, Counted
  <2> QED BY <1>9, <2>2, QuietFollows DEF StopDone
<1> QED BY <1>4, <1>5, <1>6, <1>7, <1>8, <1>9

(* What happens to a bridge while its run stays, and the restart.          *)
LEMMA BridgeFollows ==
    ASSUME ProbeInv, RunInv, ~BackoffEvents, NEW r \in Run,
           \/ Connect(r) \/ MessageStartsCli(r) \/ LinkLost(r)
           \/ Activity(r) \/ Age(r) \/ Ready(r) \/ RestartFires(r)
    PROVE  RunInv'
<1>1. run[r] \in RunInstance /\ Owns(run[r])
  BY DEF ProbeInv, Timed, RunInv
<1>2. ASSUME NEW b \in Bridge, Up(run[r].bridge),
             run[r].state = "crashed" /\ Up(b) => ~b.cli
      PROVE  /\ Owns([run[r] EXCEPT !.bridge = b])
             /\ Follows(run[r], [run[r] EXCEPT !.bridge = b])
  BY <1>1, <1>2 DEF Owns, Follows, RunInstance
<1>3. Up(run[r].bridge) => run[r].bridge \in Bridge
  BY <1>1 DEF Up, RunInstance
<1>4. CASE Connect(r)
  <2> DEFINE b == [[run[r].bridge EXCEPT !.link = TRUE] EXCEPT !.cli = TRUE]
  <2>1. b \in Bridge
    BY <1>3, <1>4 DEF Connect, Bridge
  <2>2. run' = [run EXCEPT ![r] = [run[r] EXCEPT !.bridge = b]]
    BY <1>1, <1>4 DEF Connect, RunInstance, Bridge
  <2>3. run[r].state # "crashed"
    BY <1>4 DEF Connect, Acts, In
  <2> HIDE DEF b
  <2> QED BY <1>2, <1>4, <2>1, <2>2, <2>3, QuietFollows DEF Connect
<1>5. CASE MessageStartsCli(r)
  <2> DEFINE b == [run[r].bridge EXCEPT !.cli = TRUE]
  <2>1. b \in Bridge
    BY <1>3, <1>5 DEF MessageStartsCli, Bridge
  <2>2. run' = [run EXCEPT ![r] = [run[r] EXCEPT !.bridge = b]]
    BY <1>5 DEF MessageStartsCli
  <2>3. run[r].state # "crashed"
    BY <1>5 DEF MessageStartsCli, Acts, In
  <2> HIDE DEF b
  <2> QED BY <1>2, <1>5, <2>1, <2>2, <2>3, QuietFollows DEF MessageStartsCli
<1>6. CASE LinkLost(r)
  <2> DEFINE b == [run[r].bridge EXCEPT !.link = FALSE]
  <2>1. b \in Bridge /\ b.cli = run[r].bridge.cli
    BY <1>3, <1>6 DEF LinkLost, Bridge
  <2>2. run' = [run EXCEPT ![r] = [run[r] EXCEPT !.bridge = b]]
    BY <1>6 DEF LinkLost
  <2>3. run[r].state = "crashed" => ~b.cli
    BY <1>1, <1>6, <2>1 DEF LinkLost, Owns
  <2> HIDE DEF b
  <2> QED BY <1>2, <1>6, <2>1, <2>2, <2>3, QuietFollows DEF LinkLost
<1>7. CASE Activity(r) \/ Age(r)
  <2>1. \A a \in BOOLEAN : /\ Owns([run[r] EXCEPT !.aged = a])
                            /\ Follows(run[r], [run[r] EXCEPT !.aged = a])
    BY <1>1 DEF Owns, Follows, RunInstance
  <2> QED BY <1>7, <2>1, QuietFollows DEF Activity, Age
<1>8. CASE Ready(r)
  <2> DEFINE b == [run[r].bridge EXCEPT !.spawned = TRUE]
             x == [[run[r] EXCEPT !.bridge = b] EXCEPT !.state = "running"]
  <2>1. b \in Bridge
    BY <1>3, <1>8 DEF Ready, Bridge
  <2>2. run[r].state \in {"starting", "running"}
    BY <1>1, <1>8 DEF Ready, Owns, Live
  <2>3. run' = [run EXCEPT ![r] = x]
    BY <1>1, <1>8, <2>2 DEF Ready, In, Listed, RunInstance
  <2>4. Owns(x) /\ Follows(run[r], x)
    BY <1>1, <2>1, <2>2 DEF Owns, Follows, RunInstance, Live, Counted
  <2>5. breaker' = [breaker EXCEPT ![RepoOf[r]] = StartSurvival(@, r)]
    BY <1>8 DEF Ready
  <2>6. /\ breaker'[RepoOf[r]] = StartSurvival(breaker[RepoOf[r]], r)
        /\ \A p \in Repo \ {RepoOf[r]} : breaker'[p] = breaker[p]
    BY <2>5 DEF ProbeInv
  <2>7. /\ StartSurvival(breaker[RepoOf[r]], r).state = breaker[RepoOf[r]].state
        /\ StartSurvival(breaker[RepoOf[r]], r).probe = breaker[RepoOf[r]].probe
    BY DEF StartSurvival, ProbeInv, Sound, Breaker
  <2> HIDE DEF x
  <2> QED BY <2>3, <2>4, <2>6, <2>7, OneFollows
<1>9. CASE RestartFires(r)
  <2> DEFINE y == [[run[r] EXCEPT !.timers = run[r].timers - 1] EXCEPT !.armed = FALSE]
  <2>1. run[r].timers = 1 /\ run[r].state = "crashed"
        /\ ~run[r].userStop /\ ~run[r].stops
    BY <1>1, <1>9 DEF RestartFires, Owns
  <2> DEFINE z == [[run[r] EXCEPT !.timers = 0] EXCEPT !.armed = FALSE]
  <2>0. y = z
    BY <2>1
  <2>6. z \in RunInstance
    BY <1>1 DEF RunInstance
  <2>7. z.timers = 0 /\ z.userStop = run[r].userStop /\ z.stops = run[r].stops
    BY <1>1 DEF RunInstance
  <2> HIDE DEF z
  <2>2. y \in RunInstance /\ y.timers = 0 /\ ~y.userStop /\ ~y.stops
    BY <2>0, <2>1, <2>6, <2>7
  <2>3. PICK x \in Spawned(y) :
           /\ run' = [run EXCEPT ![r] = x]
           /\ breaker' = IF x.state = "gone" THEN Forget({r}) ELSE breaker
    BY <1>9 DEF RestartFires
  <2> HIDE DEF y
  <2>4. Owns(x) /\ x.state \in {"starting", "crashed", "gone"}
    BY <2>2, <2>3, OwnsSpawned, SpawnedType DEF Live
  <2>5. Follows(run[r], x)
    BY <2>1, <2>4 DEF Follows, Live, Counted
  <2> QED BY <2>3, <2>4, <2>5, QuietFollows DEF Live
<1> QED BY <1>4, <1>5, <1>6, <1>7, <1>8, <1>9

LEMMA BreakerFollows ==
    ASSUME ProbeInv, RunInv, NEW p \in Repo, HalfOpen(p) \/ Survive(p)
    PROVE  RunInv'
<1>1. run' = run /\ \A q \in Repo \ {p} : breaker'[q] = breaker[q]
  BY DEF HalfOpen, Survive, ProbeInv
<1>2. \/ breaker[p].state = "open"
      \/ breaker'[p].state = "closed"
      \/ breaker'[p].state = breaker[p].state /\ breaker'[p].probe = breaker[p].probe
  <2>1. CASE HalfOpen(p)
    BY <2>1 DEF HalfOpen, ProbeInv, Sound
  <2>2. CASE Survive(p)
    <3>1. breaker'[p] = Closed \/ breaker'[p] = [breaker[p] EXCEPT !.timer = "none"]
      BY <2>2 DEF Survive, ProbeInv
    <3>2. [breaker[p] EXCEPT !.timer = "none"].state = breaker[p].state
          /\ [breaker[p] EXCEPT !.timer = "none"].probe = breaker[p].probe
      BY DEF ProbeInv, Sound, Breaker
    <3>3. CASE breaker'[p] = Closed
      BY <3>3 DEF Closed
    <3>4. CASE breaker'[p] = [breaker[p] EXCEPT !.timer = "none"]
      BY <3>2, <3>4
    <3> QED BY <3>1, <3>3, <3>4
  <2> QED BY <2>1, <2>2
<1>4. ASSUME NEW r \in Run, In(r, Live)
      PROVE  /\ breaker'[RepoOf[r]].state # "open"
             /\ breaker'[RepoOf[r]].state = "half_open" => breaker'[RepoOf[r]].probe = r
  BY <1>1, <1>2, <1>4 DEF RunInv
<1> QED BY <1>1, <1>4 DEF RunInv, In

(* What the reconciler leaves of a run, and of a breaker.                  *)
LEMMA ReclaimedFollows ==
    ASSUME ProbeInv, RunInv, NEW q \in Run
    PROVE  /\ Owns(Reclaimed[q])
           /\ q \in Stranded => Reclaimed[q].state \notin Live
           /\ q \notin Stranded => Reclaimed[q] = run[q]
<1>1. Reclaimed[q] = IF q \in Stranded THEN Retired(run[q]) ELSE run[q]
  BY DEF Reclaimed
<1>2. run[q] \in RunInstance /\ Owns(run[q])
  BY DEF ProbeInv, Timed, RunInv
<1> QED BY <1>1, <1>2, OwnsGone

LEMMA ReleasedFollows ==
    ASSUME NEW b \in Breaker, NEW G
    PROVE  /\ ReleaseProbe(b, G).state = b.state
           /\ ReleaseProbe(b, G).probe \in {b.probe, None}
           /\ b.probe \notin G => ReleaseProbe(b, G) = b
           /\ ReleaseProbe(b, G) \in Breaker
BY DEF ReleaseProbe, Breaker

(* A start that is refused for the cap or a duplicate.                     *)
LEMMA BusyFollows ==
    ASSUME ProbeInv, RunInv, NEW r \in Run, RefuseBusy(r)
    PROVE  RunInv'
<1>1. run[r] \in RunInstance /\ Owns(run[r]) /\ run[r].state = "checking"
  BY DEF ProbeInv, Timed, RunInv, RefuseBusy, In
<1>2. r \notin Stranded /\ Reclaimed[r] = run[r]
  BY <1>1, ReclaimedFollows DEF Stranded, In, Counted
<1> DEFINE x == [run[r] EXCEPT !.state = "refused"]
<1>3. Owns(x) /\ x.state \notin Live
  BY <1>1 DEF Owns, Live, RunInstance
<1>4. run' = [Reclaimed EXCEPT ![r] = x]
  BY <1>2 DEF RefuseBusy
<1> HIDE DEF x
<1>5. run'[r] = x /\ \A q \in Run : q # r => run'[q] = Reclaimed[q]
  BY <1>4 DEF Reclaimed
<1>6. ASSUME NEW q \in Run, run'[q].state \in Live
      PROVE  q # r /\ q \notin Stranded /\ run'[q] = run[q]
  BY <1>3, <1>5, <1>6, ReclaimedFollows
<1>7. \A q \in Run : Owns(run'[q])
  BY <1>3, <1>5, ReclaimedFollows
<1>8. ASSUME NEW q \in Run, run'[q].state \in Live
      PROVE  /\ breaker'[RepoOf[q]].state # "open"
             /\ breaker'[RepoOf[q]].state = "half_open" => breaker'[RepoOf[q]].probe = q
  <2>1. breaker'[RepoOf[q]] = ReleaseProbe(breaker[RepoOf[q]], Stranded)
    BY DEF RefuseBusy, Forget
  <2>2. breaker[RepoOf[q]] \in Breaker
    BY DEF ProbeInv, Sound
  <2>3. In(q, Live) /\ q \notin Stranded
    BY <1>6, <1>8 DEF In
  <2>4. /\ breaker[RepoOf[q]].state # "open"
        /\ breaker[RepoOf[q]].state = "half_open" => breaker[RepoOf[q]].probe = q
    BY <2>3 DEF RunInv
  <2> QED BY <2>1, <2>2, <2>3, <2>4, ReleasedFollows
<1>10. \A p, q \in Run : run'[p].state \in Live /\ run'[q].state \in Live
                            /\ RepoOf[p] = RepoOf[q] => p = q
  BY <1>6 DEF RunInv, In
<1> QED BY <1>7, <1>8, <1>10 DEF RunInv, In

(* A start that is admitted.                                               *)
LEMMA AdmitFollows ==
    ASSUME ProbeInv, RunInv, NEW r \in Run, Admit(r)
    PROVE  RunInv'
<1>1. run[r] \in RunInstance /\ Owns(run[r]) /\ run[r].state = "checking"
  BY DEF ProbeInv, Timed, RunInv, Admit, In
<1>2. run[r].timers = 0 /\ ~run[r].userStop /\ ~run[r].stops
  BY <1>1 DEF Owns, RunInstance
<1>3. PICK x \in Spawned(run[r]) :
           /\ run' = [Reclaimed EXCEPT ![r] = x]
           /\ breaker' = [p \in Repo |->
                            LET b == ReleaseProbe(breaker[p], Stranded)
                                c == IF p = RepoOf[r] THEN Claim(b, r) ELSE b
                            IN IF x.state = "gone" THEN ReleaseProbe(c, {r}) ELSE c]
  BY DEF Admit
<1>4. Owns(x) /\ x.state \in {"starting", "crashed", "gone"}
  BY <1>1, <1>2, <1>3, OwnsSpawned, SpawnedType
<1>5. run'[r] = x /\ \A q \in Run : q # r => run'[q] = Reclaimed[q]
  BY <1>3 DEF Reclaimed
<1>6. ASSUME NEW q \in Run, run'[q].state \in Live, q # r
      PROVE  q \notin Stranded /\ run'[q] = run[q] /\ In(q, Live) /\ RepoOf[q] # RepoOf[r]
  <2>1. q \notin Stranded /\ run'[q] = run[q] /\ In(q, Live)
    BY <1>5, <1>6, ReclaimedFollows DEF In
  <2>2. q \notin Of(RepoOf[r], {"crashed"}) /\ Of(RepoOf[r], Counted) \subseteq Stranded
    BY DEF Admit, BreakerAdmits, Idle
  <2> QED BY <2>1, <2>2 DEF Of, In, Live, Counted
<1>7. \A q \in Run : Owns(run'[q])
  BY <1>4, <1>5, ReclaimedFollows
<1>8. ASSUME NEW q \in Run, run'[q].state \in Live, q # r
      PROVE  /\ breaker'[RepoOf[q]].state # "open"
             /\ breaker'[RepoOf[q]].state = "half_open" => breaker'[RepoOf[q]].probe = q
  <2> DEFINE b == ReleaseProbe(breaker[RepoOf[q]], Stranded)
  <2>1. breaker'[RepoOf[q]] = IF x.state = "gone" THEN ReleaseProbe(b, {r}) ELSE b
    BY <1>3, <1>6, <1>8
  <2>2. breaker[RepoOf[q]] \in Breaker
    BY DEF ProbeInv, Sound
  <2>3. /\ breaker[RepoOf[q]].state # "open"
        /\ breaker[RepoOf[q]].state = "half_open" => breaker[RepoOf[q]].probe = q
    BY <1>6, <1>8 DEF RunInv
  <2>4. /\ b \in Breaker /\ b.state # "open"
        /\ b.state = "half_open" => b.probe = q
    BY <1>6, <1>8, <2>2, <2>3, ReleasedFollows
  <2> HIDE DEF b
  <2> QED BY <1>8, <2>1, <2>4, ReleasedFollows
<1>9. ASSUME x.state \in Live
      PROVE  /\ breaker'[RepoOf[r]].state # "open"
             /\ breaker'[RepoOf[r]].state = "half_open" => breaker'[RepoOf[r]].probe = r
  <2> DEFINE b == ReleaseProbe(breaker[RepoOf[r]], Stranded)
  <2>1. breaker'[RepoOf[r]] = Claim(b, r)
    BY <1>3, <1>9 DEF Live
  <2>2. breaker[RepoOf[r]] \in Breaker
    BY DEF ProbeInv, Sound
  <2>3. /\ breaker[RepoOf[r]].state # "open"
        /\ breaker[RepoOf[r]].state = "half_open" => breaker[RepoOf[r]].probe \in {None, r}
    BY DEF Admit, BreakerAdmits
  <2>4. /\ b \in Breaker /\ b.state # "open"
        /\ b.state = "half_open" => b.probe \in {None, r}
    BY <2>2, <2>3, ReleasedFollows
  <2> HIDE DEF b
  <2>5. Claim(b, r).state = b.state /\ (b.state = "half_open" => Claim(b, r).probe = r)
    BY <2>4 DEF Claim, Breaker
  <2> QED BY <2>1, <2>4, <2>5
<1>10. \A q \in Run : run'[q].state \in Live =>
          /\ breaker'[RepoOf[q]].state # "open"
          /\ breaker'[RepoOf[q]].state = "half_open" => breaker'[RepoOf[q]].probe = q
  BY <1>5, <1>8, <1>9
<1>11. \A p, q \in Run : run'[p].state \in Live /\ run'[q].state \in Live
                            /\ RepoOf[p] = RepoOf[q] => p = q
  BY <1>6 DEF RunInv, In
<1> QED BY <1>7, <1>10, <1>11 DEF RunInv, In

LEMMA RunInvStep ==
    ASSUME ProbeInv, RunInv, ~BackoffEvents, [Next]_vars
    PROVE  RunInv'
<1>1. CASE UNCHANGED vars
  BY <1>1 DEF vars, RunInv, In
<1>2. ASSUME NEW r \in Run, Receive(r) \/ Refuse(r)
      PROVE  RunInv'
  <2>1. run[r] \in RunInstance /\ Owns(run[r]) /\ run[r].state \in {"new", "checking"}
    BY <1>2 DEF ProbeInv, Timed, RunInv, Receive, Refuse, In
  <2>2. \A s \in {"checking", "refused"} :
           LET x == [run[r] EXCEPT !.state = s] IN Owns(x) /\ Follows(run[r], x)
    BY <2>1 DEF Owns, Follows, Live, Counted, RunInstance
  <2> QED BY <1>2, <2>2, QuietFollows DEF Receive, Refuse
<1>3. ASSUME NEW r \in Run, Admit(r)
      PROVE  RunInv'
  BY <1>3, AdmitFollows
<1>4. ASSUME NEW r \in Run,
             \/ Connect(r) \/ MessageStartsCli(r) \/ LinkLost(r)
             \/ Activity(r) \/ Age(r) \/ Ready(r) \/ RestartFires(r)
      PROVE  RunInv'
  BY <1>4, BridgeFollows
<1>5. ASSUME NEW r \in Run,
             \/ \E clean \in BOOLEAN : CliExits(r, clean)
             \/ TerminalClose(r) \/ Shutdown(r) \/ ShutdownDone(r)
             \/ Stop(r) \/ StopDone(r)
      PROVE  RunInv'
  BY <1>5, EndFollows
<1>6. ASSUME NEW p \in Repo, HalfOpen(p) \/ Survive(p)
      PROVE  RunInv'
  BY <1>6, BreakerFollows
<1>7. ASSUME NEW r \in Run, RefuseBusy(r)
      PROVE  RunInv'
  BY <1>7, BusyFollows
<1> QED BY <1>1, <1>2, <1>3, <1>4, <1>5, <1>6, <1>7 DEF Next

LEMMA BothInv ==
    ASSUME ~BackoffEvents
    PROVE  Spec => [](ProbeInv /\ RunInv)
<1>1. ProbeInv /\ RunInv /\ [Next]_vars => (ProbeInv /\ RunInv)'
  BY ProbeInvStep, RunInvStep
<1> QED BY <1>1, InitProbeInv, InitRunInv, PTL DEF Spec

-----------------------------------------------------------------------------
(* A bridge that is not stopped belongs to a run the manager tracks.       *)
THEOREM NoBridgeOrphaned ==
    ASSUME ~BackoffEvents
    PROVE  Spec => []NoOrphanBridge
<1>1. RunInv => NoOrphanBridge
  BY DEF RunInv, Owns, NoOrphanBridge, In, Live, Listed
<1> QED BY <1>1, BothInv, PTL

(* Open is no run at all, half-open is one trial run.                      *)
THEOREM HalfOpenIsOneTrial ==
    ASSUME ~BackoffEvents
    PROVE  Spec => []OneTrial
<1>1. RunInv => OneTrial
  BY DEF RunInv, OneTrial, Of, In, Live
<1> QED BY <1>1, BothInv, PTL

(* At most one run of a repository is up or waiting to be restarted.       *)
THEOREM RepoHasOneRun ==
    ASSUME ~BackoffEvents
    PROVE  Spec => []OneRunPerRepo
<1>1. ASSUME RunInv, NEW p \in Repo
      PROVE  Cardinality(Of(p, {"starting", "running", "crashed"})) <= 1
  <2> DEFINE S == Of(p, {"starting", "running", "crashed"})
  <2>1. \A q, r \in S : q = r
    BY <1>1 DEF Of, RunInv, In, Live
  <2> HIDE DEF S
  <2>2. CASE S = {}
    BY <2>2, FS_EmptySet DEF S
  <2>3. ASSUME NEW r \in S PROVE Cardinality(S) = 1
    <3>1. S = {r}
      BY <2>1, <2>3
    <3> QED BY <3>1, FS_Singleton
  <2> QED BY <2>2, <2>3 DEF S
<1>2. RunInv => OneRunPerRepo
  BY <1>1 DEF OneRunPerRepo
<1> QED BY <1>2, BothInv, PTL

-----------------------------------------------------------------------------
(* A breaker closes only over a healthy probe.                             *)

Healthy(x) == x.state \in Live => x.state = "running" /\ x.bridge.spawned

HealthInv ==
    \A p \in Repo : breaker[p].timer = "survival" =>
        breaker[p].probe # None /\ Healthy(run[breaker[p].probe])

(* A step of one run, which takes the value x: a survival timer that is    *)
(* not of this run was there before, one of this run has a healthy x.      *)
LEMMA OneHealth ==
    ASSUME ProbeInv, HealthInv, NEW r \in Run, NEW x, run' = [run EXCEPT ![r] = x],
           \A p \in Repo : breaker'[p].timer = "survival" =>
              \/ breaker'[p].probe = r /\ Healthy(x)
              \/ /\ breaker'[p].probe # r
                 /\ breaker'[p].probe = breaker[p].probe /\ breaker[p].timer = "survival"
    PROVE  HealthInv'
<1> SUFFICES ASSUME NEW p \in Repo, breaker'[p].timer = "survival"
             PROVE  breaker'[p].probe # None /\ Healthy(run'[breaker'[p].probe])
  BY DEF HealthInv, Healthy
<1>1. run'[r] = x /\ \A q \in Run : q # r => run'[q] = run[q]
  BY DEF ProbeInv
<1>2. CASE breaker'[p].probe = r /\ Healthy(x)
  BY <1>1, <1>2, RepoAssumption
<1>3. CASE /\ breaker'[p].probe # r
           /\ breaker'[p].probe = breaker[p].probe /\ breaker[p].timer = "survival"
  <2>1. breaker[p].probe # None /\ Healthy(run[breaker[p].probe])
    BY <1>3 DEF HealthInv
  <2>2. breaker[p].probe \in Run
    BY <2>1 DEF ProbeInv, Sound, Breaker
  <2> QED BY <1>1, <1>3, <2>1, <2>2
<1> QED BY <1>2, <1>3

(* ... where the breakers stay or the run is forgotten.                    *)
LEMMA QuietHealth ==
    ASSUME ProbeInv, HealthInv, NEW r \in Run, NEW x, run' = [run EXCEPT ![r] = x],
           \/ /\ breaker' = breaker
              /\ breaker[RepoOf[r]].timer = "survival" /\ breaker[RepoOf[r]].probe = r => Healthy(x)
           \/ breaker' = Forget({r})
    PROVE  HealthInv'
<1>1. CASE /\ breaker' = breaker
           /\ breaker[RepoOf[r]].timer = "survival" /\ breaker[RepoOf[r]].probe = r => Healthy(x)
  <2>1. \A p \in Repo : breaker[p].probe = r => p = RepoOf[r]
    BY DEF ProbeInv, Sound
  <2> QED BY <1>1, <2>1, OneHealth
<1>2. CASE breaker' = Forget({r})
  <2>1. \A p \in Repo : breaker'[p] = ReleaseProbe(breaker[p], {r})
    BY <1>2 DEF Forget
  <2>2. ASSUME NEW p \in Repo, ReleaseProbe(breaker[p], {r}).timer = "survival"
        PROVE  breaker[p].probe # r /\ ReleaseProbe(breaker[p], {r}) = breaker[p]
    BY <2>2 DEF ReleaseProbe, ProbeInv, Sound, Breaker
  <2>3. \A p \in Repo : breaker'[p].timer = "survival" =>
           /\ breaker'[p].probe # r
           /\ breaker'[p].probe = breaker[p].probe /\ breaker[p].timer = "survival"
    BY <2>1, <2>2
  <2> QED BY <2>3, OneHealth
<1> QED BY <1>1, <1>2

LEMMA ExitHealth ==
    ASSUME ProbeInv, HealthInv, NEW r \in Run, NEW x, NEW clean \in BOOLEAN, OnExit(r, x, clean)
    PROVE  HealthInv'
<1>1. CASE /\ ~In(r, Listed)
           /\ run' = [run EXCEPT ![r] = Gone(x)]
           /\ UNCHANGED breaker
  <2>1. breaker[RepoOf[r]].probe # r
    BY <1>1 DEF ProbeInv, ProbeNotPinned
  <2> QED BY <1>1, <2>1, QuietHealth
<1>2. CASE /\ run' = [run EXCEPT ![r] = IF x.userStop THEN Gone(x) ELSE Retired(x)]
           /\ breaker' = Forget({r})
  BY <1>2, QuietHealth
<1>3. ASSUME NEW z, NEW trips \in BOOLEAN,
             breaker[RepoOf[r]].state = "half_open" => trips,
             run' = [run EXCEPT ![r] = z],
             breaker' = IF trips THEN [breaker EXCEPT ![RepoOf[r]] = Tripped(@)]
                        ELSE IF z.state = "gone" THEN Forget({r}) ELSE breaker
      PROVE  HealthInv'
  <2>1. CASE trips
    <3>1. Tripped(breaker[RepoOf[r]]).timer # "survival"
      BY DEF Tripped
    <3>2. /\ breaker'[RepoOf[r]] = Tripped(breaker[RepoOf[r]])
          /\ \A p \in Repo \ {RepoOf[r]} : breaker'[p] = breaker[p] /\ breaker[p].probe # r
      BY <1>3, <2>1 DEF ProbeInv, Sound
    <3>3. \A p \in Repo : breaker'[p].timer = "survival" =>
             /\ breaker'[p].probe # r
             /\ breaker'[p].probe = breaker[p].probe /\ breaker[p].timer = "survival"
      BY <3>1, <3>2
    <3> QED BY <1>3, <3>3, OneHealth
  <2>2. CASE ~trips
    <3>1. breaker[RepoOf[r]].timer # "survival"
      BY <1>3, <2>2 DEF ProbeInv, Sound
    <3> QED BY <1>3, <2>2, <3>1, QuietHealth
  <2> QED BY <2>1, <2>2
<1>4. ASSUME NEW n \in 1 .. x.crashes + 1,
             LET y     == [x EXCEPT !.crashes = n]
                 trips == breaker[RepoOf[r]].state = "half_open" \/ n >= Threshold
                 z     == IF trips THEN Retired(y) ELSE Rescheduled(y)
             IN /\ run' = [run EXCEPT ![r] = z]
                /\ breaker' = IF trips THEN [breaker EXCEPT ![RepoOf[r]] = Tripped(@)]
                              ELSE IF z.state = "gone" THEN Forget({r})
                              ELSE breaker
      PROVE  HealthInv'
  <2> DEFINE y     == [x EXCEPT !.crashes = n]
             trips == breaker[RepoOf[r]].state = "half_open" \/ n >= Threshold
             z     == IF trips THEN Retired(y) ELSE Rescheduled(y)
  <2>1. /\ run' = [run EXCEPT ![r] = z]
        /\ breaker' = IF trips THEN [breaker EXCEPT ![RepoOf[r]] = Tripped(@)]
                      ELSE IF z.state = "gone" THEN Forget({r}) ELSE breaker
    BY <1>4
  <2>2. trips \in BOOLEAN /\ (breaker[RepoOf[r]].state = "half_open" => trips)
    OBVIOUS
  <2> HIDE DEF trips, z
  <2> QED BY <1>3, <2>1, <2>2
<1> QED BY <1>1, <1>2, <1>4 DEF OnExit

(* What a run is, or its bridge does.                                      *)
LEMMA BridgeHealth ==
    ASSUME ProbeInv, SteadyInv, HealthInv, NEW r \in Run,
           \/ Receive(r) \/ Refuse(r) \/ Connect(r) \/ MessageStartsCli(r) \/ LinkLost(r)
           \/ Ready(r) \/ Activity(r) \/ Age(r)
    PROVE  HealthInv'
<1>1. run[r] \in RunInstance
  BY DEF ProbeInv, Timed
<1>2. breaker[RepoOf[r]].timer = "survival" /\ breaker[RepoOf[r]].probe = r => Healthy(run[r])
  BY DEF HealthInv
<1>3. CASE Receive(r)
  <2>1. Healthy([run[r] EXCEPT !.state = "checking"])
    BY <1>1 DEF Healthy, Live, RunInstance
  <2> QED BY <1>3, <2>1, QuietHealth DEF Receive
<1>4. CASE Refuse(r)
  <2>1. Healthy([run[r] EXCEPT !.state = "refused"])
    BY <1>1 DEF Healthy, Live, RunInstance
  <2> QED BY <1>4, <2>1, QuietHealth DEF Refuse
<1>5. CASE Connect(r)
  <2> DEFINE b == [[run[r].bridge EXCEPT !.link = TRUE] EXCEPT !.cli = TRUE]
             x == [run[r] EXCEPT !.bridge = b]
  <2>1. run' = [run EXCEPT ![r] = x] /\ breaker' = breaker
    BY <1>1, <1>5 DEF Connect, ProbeInv, RunInstance
  <2>2. run[r].bridge \in Bridge
    BY <1>1, <1>5 DEF Connect, Up, RunInstance
  <2>3. b.spawned = run[r].bridge.spawned
    BY <2>2 DEF Bridge
  <2>4. Healthy(run[r]) => Healthy(x)
    BY <1>1, <2>3 DEF Healthy, RunInstance
  <2> HIDE DEF x
  <2> QED BY <1>2, <2>1, <2>4, QuietHealth
<1>6. CASE MessageStartsCli(r)
  <2> DEFINE b == [run[r].bridge EXCEPT !.cli = TRUE]
             x == [run[r] EXCEPT !.bridge = b]
  <2>1. run' = [run EXCEPT ![r] = x] /\ breaker' = breaker
    BY <1>1, <1>6 DEF MessageStartsCli, ProbeInv, RunInstance
  <2>2. run[r].bridge \in Bridge
    BY <1>1, <1>6 DEF MessageStartsCli, Up, RunInstance
  <2>3. b.spawned = run[r].bridge.spawned
    BY <2>2 DEF Bridge
  <2>4. Healthy(run[r]) => Healthy(x)
    BY <1>1, <2>3 DEF Healthy, RunInstance
  <2> HIDE DEF x
  <2> QED BY <1>2, <2>1, <2>4, QuietHealth
<1>7. CASE LinkLost(r)
  <2> DEFINE b == [run[r].bridge EXCEPT !.link = FALSE]
             x == [run[r] EXCEPT !.bridge = b]
  <2>1. run' = [run EXCEPT ![r] = x] /\ breaker' = breaker
    BY <1>1, <1>7 DEF LinkLost, ProbeInv, RunInstance
  <2>2. run[r].bridge \in Bridge
    BY <1>1, <1>7 DEF LinkLost, Up, RunInstance
  <2>3. b.spawned = run[r].bridge.spawned
    BY <2>2 DEF Bridge
  <2>4. Healthy(run[r]) => Healthy(x)
    BY <1>1, <2>3 DEF Healthy, RunInstance
  <2> HIDE DEF x
  <2> QED BY <1>2, <2>1, <2>4, QuietHealth
<1>8. CASE Ready(r)
  <2> DEFINE b == [run[r].bridge EXCEPT !.spawned = TRUE]
             s == IF In(r, Listed) THEN "running" ELSE run[r].state
             x == [[run[r] EXCEPT !.bridge = b] EXCEPT !.state = s]
  <2>1. /\ run' = [run EXCEPT ![r] = x]
        /\ breaker' = [breaker EXCEPT ![RepoOf[r]] = StartSurvival(@, r)]
    BY <1>1, <1>8 DEF Ready, ProbeInv, RunInstance
  <2>2. run[r].bridge \in Bridge
    BY <1>1, <1>8 DEF Ready, Up, RunInstance
  <2>3. b.spawned
    BY <2>2 DEF Bridge
  <2>4. x.state = s /\ x.bridge = b
    BY <1>1 DEF RunInstance
  <2>5. Healthy(x)
    BY <2>3, <2>4 DEF Healthy, In, Listed, Live
  <2>6. /\ breaker'[RepoOf[r]] = StartSurvival(breaker[RepoOf[r]], r)
        /\ \A p \in Repo \ {RepoOf[r]} : breaker'[p] = breaker[p] /\ breaker[p].probe # r
    BY <2>1 DEF ProbeInv, Sound
  <2>7. /\ StartSurvival(breaker[RepoOf[r]], r).probe = breaker[RepoOf[r]].probe
        /\ \/ breaker[RepoOf[r]].probe = r
           \/ StartSurvival(breaker[RepoOf[r]], r) = breaker[RepoOf[r]]
    BY DEF StartSurvival, ProbeInv, Sound, Breaker
  <2> HIDE DEF x
  <2>8. \A p \in Repo : breaker'[p].timer = "survival" =>
           \/ breaker'[p].probe = r /\ Healthy(x)
           \/ /\ breaker'[p].probe # r
              /\ breaker'[p].probe = breaker[p].probe /\ breaker[p].timer = "survival"
    BY <2>5, <2>6, <2>7
  <2> QED BY <2>1, <2>8, OneHealth
<1>9. CASE Activity(r)
  <2>1. run' = [run EXCEPT ![r] = [run[r] EXCEPT !.aged = FALSE]] /\ breaker' = breaker
    BY <1>9 DEF Activity, ProbeInv
  <2>2. Healthy(run[r]) => Healthy([run[r] EXCEPT !.aged = FALSE])
    BY <1>1 DEF Healthy, RunInstance
  <2> QED BY <1>2, <2>1, <2>2, QuietHealth
<1>10. CASE Age(r)
  <2>1. run' = [run EXCEPT ![r] = [run[r] EXCEPT !.aged = TRUE]] /\ breaker' = breaker
    BY <1>10 DEF Age, ProbeInv
  <2>2. Healthy(run[r]) => Healthy([run[r] EXCEPT !.aged = TRUE])
    BY <1>1 DEF Healthy, RunInstance
  <2> QED BY <1>2, <2>1, <2>2, QuietHealth
<1> QED BY <1>3, <1>4, <1>5, <1>6, <1>7, <1>8, <1>9, <1>10

(* How a run ends, or is restarted.                                        *)
LEMMA EndHealth ==
    ASSUME ProbeInv, SteadyInv, HealthInv, NEW r \in Run,
           \/ \E clean \in BOOLEAN : CliExits(r, clean)
           \/ TerminalClose(r) \/ Shutdown(r) \/ ShutdownDone(r)
           \/ RestartFires(r) \/ Stop(r) \/ StopDone(r)
    PROVE  HealthInv'
<1>1. run[r] \in RunInstance
  BY DEF ProbeInv, Timed
<1>2. breaker[RepoOf[r]].timer = "survival" /\ breaker[RepoOf[r]].probe = r => Healthy(run[r])
  BY DEF HealthInv
<1>3. CASE (\E clean \in BOOLEAN : CliExits(r, clean)) \/ TerminalClose(r) \/ ShutdownDone(r)
  BY <1>3, ExitHealth DEF CliExits, TerminalClose, ShutdownDone
<1>4. CASE Shutdown(r)
  <2> DEFINE x == [run[r] EXCEPT !.bridge = Stopped(run[r].bridge)]
             y == [x EXCEPT !.bye = TRUE]
  <2>1. \/ run' = [run EXCEPT ![r] = y] /\ UNCHANGED breaker
        \/ OnExit(r, x, TRUE)
    BY <1>4 DEF Shutdown
  <2>2. run[r].bridge \in Bridge
    BY <1>1, <1>4 DEF Shutdown, Up, RunInstance
  <2>3. Stopped(run[r].bridge).spawned = run[r].bridge.spawned
    BY <2>2, RepoAssumption, <1>4 DEF Stopped, Bridge, Shutdown, Up
  <2>4. y.state = run[r].state /\ y.bridge = Stopped(run[r].bridge)
    BY <1>1 DEF RunInstance
  <2>5. Healthy(run[r]) => Healthy(y)
    BY <2>3, <2>4 DEF Healthy
  <2> HIDE DEF x, y
  <2> QED BY <1>2, <2>1, <2>5, QuietHealth, ExitHealth
<1>5. CASE RestartFires(r)
  <2>1. breaker[RepoOf[r]].probe = r => run[r].state = "crashed"
    BY <1>1, <1>5 DEF RestartFires, SteadyInv, Trial
  <2>2. ~(breaker[RepoOf[r]].timer = "survival" /\ breaker[RepoOf[r]].probe = r)
    BY <1>2, <2>1 DEF Healthy, Live
  <2>3. \E x : /\ run' = [run EXCEPT ![r] = x]
               /\ breaker' = IF x.state = "gone" THEN Forget({r}) ELSE breaker
    BY <1>5 DEF RestartFires
  <2> QED BY <2>2, <2>3, QuietHealth
<1>6. CASE Stop(r)
  <2>1. StopMarked(run[r]).state = "stopping"
    BY <1>1 DEF StopMarked, Disarmed, RunInstance
  <2>2. Healthy(StopMarked(run[r]))
    BY <2>1 DEF Healthy, Live
  <2> QED BY <1>6, <2>2, QuietHealth DEF Stop
<1>7. CASE StopDone(r)
  BY <1>7, QuietHealth DEF StopDone
<1> QED BY <1>3, <1>4, <1>5, <1>6, <1>7

(* The reconciler frees the probe slots of what it evicts.                 *)
LEMMA StartHealth ==
    ASSUME ProbeInv, SteadyInv, HealthInv, NEW r \in Run, RefuseBusy(r) \/ Admit(r)
    PROVE  HealthInv'
<1> SUFFICES ASSUME NEW p \in Repo, breaker'[p].timer = "survival"
             PROVE  breaker'[p].probe # None /\ Healthy(run'[breaker'[p].probe])
  BY DEF HealthInv, Healthy
<1> DEFINE b == ReleaseProbe(breaker[p], Stranded)
<1>1. run[r].state = "checking"
  BY DEF RefuseBusy, Admit, In
<1>2. \E x : run' = [Reclaimed EXCEPT ![r] = x]
  BY DEF RefuseBusy, Admit, Reclaimed, Stranded
<1>3. \A q \in Run : q # r => run'[q] = Reclaimed[q]
  BY <1>2 DEF Reclaimed
<1>4. breaker[p] \in Breaker /\ breaker[p].probe # r
  BY <1>1 DEF ProbeInv, Sound, ProbeNotPinned, In, Listed
<1>5. /\ b.probe = None => b.timer # "survival"
      /\ b.timer = "survival" => b = breaker[p] /\ breaker[p].probe \notin Stranded
  BY <1>4 DEF ReleaseProbe, Breaker, HealthInv
<1>6. breaker'[p] = b
  <2>1. CASE RefuseBusy(r)
    BY <2>1 DEF RefuseBusy, Forget
  <2>2. CASE Admit(r)
    <3>1. breaker'[p] \in {b, Claim(b, r), ReleaseProbe(b, {r}), ReleaseProbe(Claim(b, r), {r})}
      BY <2>2 DEF Admit
    <3>2. b \in Breaker /\ b.probe # r
      BY <1>4 DEF ReleaseProbe, Breaker
    <3> HIDE DEF b
    <3>3. ReleaseProbe(b, {r}) = b
      BY <3>2 DEF ReleaseProbe
    <3>4. Claim(b, r) = b \/ (b.probe = None /\ Claim(b, r) = [b EXCEPT !.probe = r])
      BY DEF Claim
    <3>5. b.probe = None => /\ [b EXCEPT !.probe = r].timer # "survival"
                           /\ ReleaseProbe([b EXCEPT !.probe = r], {r}).timer # "survival"
      BY <1>5, <3>2 DEF ReleaseProbe, Breaker
    <3> QED BY <3>1, <3>3, <3>4, <3>5
  <2> QED BY <2>1, <2>2
<1>7. b = breaker[p] /\ breaker[p].probe \notin Stranded
  BY <1>5, <1>6
<1>8. breaker[p].probe # None /\ Healthy(run[breaker[p].probe])
  BY <1>6, <1>7 DEF HealthInv
<1>9. run'[breaker[p].probe] = run[breaker[p].probe]
  <2>1. breaker[p].probe \in Run
    BY <1>4, <1>8 DEF Breaker
  <2> QED BY <1>3, <1>4, <1>7, <2>1 DEF Reclaimed
<1> QED BY <1>6, <1>7, <1>8, <1>9

LEMMA HealthInvStep ==
    ASSUME ProbeInv, SteadyInv, HealthInv, [Next]_vars
    PROVE  HealthInv'
<1>1. CASE UNCHANGED vars
  BY <1>1 DEF vars, HealthInv, Healthy
<1>2. ASSUME NEW p \in Repo, HalfOpen(p) \/ Survive(p) PROVE HealthInv'
  <2>1. /\ run' = run /\ breaker'[p].timer # "survival"
        /\ \A q \in Repo \ {p} : breaker'[q] = breaker[q]
    <3>1. breaker[p] \in Breaker
      BY DEF ProbeInv, Sound
    <3>2. /\ HalfOpened(breaker[p]).timer # "survival" /\ Closed.timer # "survival"
          /\ [breaker[p] EXCEPT !.timer = "none"].timer # "survival"
      BY <3>1 DEF HalfOpened, Closed, Breaker
    <3> QED BY <1>2, <3>2 DEF HalfOpen, Survive, ProbeInv
  <2> QED BY <2>1 DEF HealthInv, Healthy
<1> QED BY <1>1, <1>2, BridgeHealth, EndHealth, StartHealth DEF Next

(* No step but the survival timer's closes a half-open breaker.            *)
LEMMA OnlySurviveCloses ==
    ASSUME ProbeInv, [Next]_vars, NEW p \in Repo,
           breaker[p].state = "half_open", breaker'[p].state = "closed"
    PROVE  Survive(p)
<1> USE DEF ProbeInv
<1>1. /\ breaker[p] \in Breaker
      /\ breaker[p].timer # "cooldown"
  BY DEF Sound
<1>2. \A G : ReleaseProbe(breaker[p], G).state = "half_open" /\ ReleaseProbe(breaker[p], G) \in Breaker
  BY <1>1, ReleasedFollows
<1>3. \A G : breaker' # Forget(G)
  BY <1>2 DEF Forget
<1>4. breaker' # breaker
  OBVIOUS
<1>5. \A r \in Run : \A x : \A clean \in BOOLEAN : ~OnExit(r, x, clean)
  <2>1. \A q \in Repo : breaker' # [breaker EXCEPT ![q] = Tripped(@)]
    <3>1. Tripped(breaker[p]).state # "closed"
      BY DEF Tripped
    <3> QED BY <3>1
  <2> QED BY <1>3, <1>4, <2>1 DEF OnExit
<1>6. \A r \in Run : ~Ready(r)
  <2>1. \A r \in Run : StartSurvival(breaker[p], r).state # "closed"
    BY <1>1 DEF StartSurvival, Breaker
  <2> QED BY <2>1 DEF Ready
<1>7. ASSUME NEW r \in Run, Admit(r) PROVE FALSE
  <2> DEFINE b == ReleaseProbe(breaker[p], Stranded)
  <2>1. breaker'[p] \in {b, Claim(b, r), ReleaseProbe(b, {r}), ReleaseProbe(Claim(b, r), {r})}
    BY <1>7 DEF Admit
  <2>2. b \in Breaker /\ b.state = "half_open"
    BY <1>2
  <2> HIDE DEF b
  <2>3. Claim(b, r) \in Breaker /\ Claim(b, r).state = "half_open"
    BY <2>2 DEF Claim, Breaker
  <2> QED BY <2>1, <2>2, <2>3, ReleasedFollows
<1>8. ASSUME NEW q \in Repo, HalfOpen(q) PROVE FALSE
  BY <1>1, <1>8 DEF HalfOpen
<1>9. ASSUME NEW q \in Repo, Survive(q) PROVE Survive(p)
  BY <1>9 DEF Survive
<1>10. ASSUME NEW r \in Run,
              \/ Receive(r) \/ Refuse(r) \/ RefuseBusy(r) \/ Connect(r) \/ MessageStartsCli(r)
              \/ LinkLost(r) \/ Activity(r) \/ Age(r) \/ \E clean \in BOOLEAN : CliExits(r, clean)
              \/ TerminalClose(r) \/ Shutdown(r) \/ ShutdownDone(r)
              \/ RestartFires(r) \/ Stop(r) \/ StopDone(r)
       PROVE  FALSE
  BY <1>3, <1>4, <1>5, <1>10 DEF Receive, Refuse, RefuseBusy, Connect, MessageStartsCli, LinkLost,
     Activity, Age, CliExits, TerminalClose, Shutdown, ShutdownDone, RestartFires, Stop, StopDone
<1>11. CASE UNCHANGED vars
  BY <1>4, <1>11 DEF vars
<1> QED BY <1>6, <1>7, <1>8, <1>9, <1>10, <1>11 DEF Next

(* Spawning is not health: a breaker closes only over a probe whose CLI    *)
(* has come up and whose run has not crashed since (the survival timer of  *)
(* process-manager.ts), whatever the bridges of crashed runs do.           *)
THEOREM ClosesOverHealth == Spec => ClosedByHealth
<1>1. ProbeInv /\ SteadyInv /\ HealthInv /\ [Next]_vars => HealthInv'
  BY HealthInvStep
<1>2. Init => HealthInv
  BY DEF Init, Closed, HealthInv
<1>3. ASSUME ProbeInv, HealthInv, [Next]_vars, NEW p \in Repo,
             breaker[p].state = "half_open", breaker'[p].state = "closed"
      PROVE  /\ breaker[p].probe # None
             /\ In(breaker[p].probe, {"running"})
             /\ run[breaker[p].probe].bridge.spawned
  <2>1. Survive(p)
    BY <1>3, OnlySurviveCloses
  <2>2. breaker[p].timer = "survival" /\ breaker[p] \in Breaker
    BY <1>3, <2>1 DEF Survive, ProbeInv, Sound
  <2>3. breaker[p].probe # None /\ In(breaker[p].probe, Counted)
    <3>1. [breaker[p] EXCEPT !.timer = "none"].state = "half_open"
      BY <1>3, <2>2 DEF Breaker
    <3> QED BY <1>3, <2>1, <3>1 DEF Survive, ProbeInv
  <2>4. Healthy(run[breaker[p].probe])
    BY <1>3, <2>2 DEF HealthInv
  <2> QED BY <2>3, <2>4 DEF Healthy, In, Counted, Live
<1>4. ProbeInv /\ HealthInv /\ [Next]_vars =>
         \A p \in Repo :
            breaker[p].state = "half_open" /\ breaker'[p].state = "closed" =>
               /\ breaker[p].probe # None
               /\ In(breaker[p].probe, {"running"})
               /\ run[breaker[p].probe].bridge.spawned
  BY <1>3
<1> QED BY <1>1, <1>2, <1>4, SteadyAlways, PTL DEF Spec, ClosedByHealth

-----------------------------------------------------------------------------
(* The budget of trials.                                                   *)

(* How the breaker of a repository may move: a trial that fails costs one  *)
(* of MaxProbes, no step but a close gives one back, an open breaker only  *)
(* half-opens, and one whose trials are spent does not.                    *)
Moves(b, c) ==
    /\ b.state = "closed" => c.state # "half_open" /\ c.failed = b.failed
    /\ b.state = "open" => c.state # "closed" /\ c.failed = b.failed
    /\ b.state = "open" /\ b.failed >= MaxProbes => c.state = "open"
    /\ b.state = "half_open" =>
          \/ c.state = "half_open" /\ c.failed = b.failed
          \/ c.state = "open" /\ c.failed = b.failed + 1
          \/ c.state = "closed" /\ c.failed = 0

LEMMA MoveValues ==
    ASSUME NEW p \in Repo, NEW b, Sound(b, p)
    PROVE  /\ \A c : c.state = b.state /\ c.failed = b.failed => Moves(b, c)
           /\ Moves(b, Tripped(b))
           /\ b.timer = "cooldown" => Moves(b, HalfOpened(b))
           /\ b.state = "half_open" => Moves(b, Closed)
<1>1. b \in Breaker
  BY DEF Sound
<1>2. \A c : c.state = b.state /\ c.failed = b.failed => Moves(b, c)
  BY <1>1 DEF Moves, Breaker
<1>3. Moves(b, Tripped(b))
  <2>1. /\ Tripped(b).state = "open"
        /\ Tripped(b).failed = IF b.state = "half_open" THEN b.failed + 1 ELSE b.failed
    BY DEF Tripped
  <2> QED BY <1>1, <2>1 DEF Moves, Breaker
<1>4. b.timer = "cooldown" => Moves(b, HalfOpened(b))
  <2>1. HalfOpened(b).state = "half_open" /\ HalfOpened(b).failed = b.failed
    BY <1>1 DEF HalfOpened, Breaker
  <2>2. b.timer = "cooldown" => b.state = "open" /\ b.failed \in Nat /\ b.failed < MaxProbes
    BY <1>1 DEF Sound, Breaker
  <2> QED BY <2>1, <2>2 DEF Moves
<1>5. b.state = "half_open" => Moves(b, Closed)
  BY DEF Moves, Closed
<1> QED BY <1>2, <1>3, <1>4, <1>5

(* What keeps the state and the count of a breaker.                        *)
LEMMA MoveKept ==
    ASSUME NEW b \in Breaker, NEW r \in Run, NEW G
    PROVE  /\ Claim(b, r) \in Breaker /\ Claim(b, r).state = b.state /\ Claim(b, r).failed = b.failed
           /\ ReleaseProbe(b, G) \in Breaker
           /\ ReleaseProbe(b, G).state = b.state /\ ReleaseProbe(b, G).failed = b.failed
<1>1. /\ Claim(b, r) \in Breaker /\ Claim(b, r).state = b.state /\ Claim(b, r).failed = b.failed
  BY DEF Claim, Breaker
<1>2. /\ ReleaseProbe(b, G) \in Breaker
      /\ ReleaseProbe(b, G).state = b.state /\ ReleaseProbe(b, G).failed = b.failed
  BY DEF ReleaseProbe, Breaker
<1> QED BY <1>1, <1>2

LEMMA BreakerMoves ==
    ASSUME ProbeInv, [Next]_vars, NEW p \in Repo
    PROVE  Moves(breaker[p], breaker'[p])
<1> USE DEF ProbeInv
<1>1. breaker[p] \in Breaker /\ Sound(breaker[p], p)
  BY DEF Sound
<1>2. breaker'[p] = breaker[p] => Moves(breaker[p], breaker'[p])
  BY <1>1, MoveValues
<1>3. \A G : breaker' = Forget(G) => Moves(breaker[p], breaker'[p])
  <2>1. ASSUME NEW G, breaker' = Forget(G) PROVE Moves(breaker[p], breaker'[p])
    <3>1. breaker'[p] = ReleaseProbe(breaker[p], G)
      BY <2>1 DEF Forget
    <3>2. ReleaseProbe(breaker[p], G).state = breaker[p].state
          /\ ReleaseProbe(breaker[p], G).failed = breaker[p].failed
      BY <1>1 DEF ReleaseProbe, Breaker
    <3> QED BY <1>1, <3>1, <3>2, MoveValues
  <2> QED BY <2>1
<1>4. \A r \in Run : \A x : \A clean \in BOOLEAN : OnExit(r, x, clean) => Moves(breaker[p], breaker'[p])
  <2>1. ASSUME NEW r \in Run, breaker' = [breaker EXCEPT ![RepoOf[r]] = Tripped(@)]
        PROVE  Moves(breaker[p], breaker'[p])
    <3>1. breaker'[p] = breaker[p] \/ breaker'[p] = Tripped(breaker[p])
      BY <2>1
    <3> QED BY <1>1, <1>2, <3>1, MoveValues
  <2> QED BY <1>2, <1>3, <2>1 DEF OnExit
<1>5. ASSUME NEW r \in Run, Ready(r) PROVE Moves(breaker[p], breaker'[p])
  <2>1. breaker'[p] = breaker[p] \/ breaker'[p] = StartSurvival(breaker[p], r)
    BY <1>5 DEF Ready
  <2>2. StartSurvival(breaker[p], r).state = breaker[p].state
        /\ StartSurvival(breaker[p], r).failed = breaker[p].failed
    BY <1>1 DEF StartSurvival, Breaker
  <2> QED BY <1>1, <1>2, <2>1, <2>2, MoveValues
<1>6. ASSUME NEW r \in Run, Admit(r) PROVE Moves(breaker[p], breaker'[p])
  <2> DEFINE b == ReleaseProbe(breaker[p], Stranded)
  <2>1. breaker'[p] \in {b, Claim(b, r), ReleaseProbe(b, {r}), ReleaseProbe(Claim(b, r), {r})}
    BY <1>6 DEF Admit
  <2>2. b \in Breaker /\ b.state = breaker[p].state /\ b.failed = breaker[p].failed
    BY <1>1, <1>6, MoveKept
  <2> HIDE DEF b
  <2>3. breaker'[p].state = b.state /\ breaker'[p].failed = b.failed
    BY <2>1, <2>2, MoveKept
  <2> QED BY <1>1, <2>2, <2>3, MoveValues
<1>7. ASSUME NEW q \in Repo, HalfOpen(q) \/ Survive(q) PROVE Moves(breaker[p], breaker'[p])
  <2>1. CASE q # p
    <3>1. breaker'[p] = breaker[p]
      BY <1>7, <2>1 DEF HalfOpen, Survive
    <3> QED BY <1>2, <3>1
  <2>2. CASE q = p /\ HalfOpen(p)
    BY <1>1, <2>2, MoveValues DEF HalfOpen
  <2>3. CASE q = p /\ Survive(p)
    <3>1. \/ breaker'[p] = Closed /\ breaker[p].state = "half_open"
          \/ breaker'[p] = [breaker[p] EXCEPT !.timer = "none"]
      BY <2>3 DEF Survive
    <3>2. [breaker[p] EXCEPT !.timer = "none"].state = breaker[p].state
          /\ [breaker[p] EXCEPT !.timer = "none"].failed = breaker[p].failed
      BY <1>1 DEF Breaker
    <3> QED BY <1>1, <3>1, <3>2, MoveValues
  <2> QED BY <1>7, <2>1, <2>2, <2>3
<1>8. ASSUME NEW r \in Run,
             \/ Receive(r) \/ Refuse(r) \/ RefuseBusy(r) \/ Connect(r) \/ MessageStartsCli(r)
             \/ LinkLost(r) \/ Activity(r) \/ Age(r) \/ \E clean \in BOOLEAN : CliExits(r, clean)
             \/ TerminalClose(r) \/ Shutdown(r) \/ ShutdownDone(r)
             \/ RestartFires(r) \/ Stop(r) \/ StopDone(r)
      PROVE  Moves(breaker[p], breaker'[p])
  BY <1>2, <1>3, <1>4, <1>8 DEF Receive, Refuse, RefuseBusy, Connect, MessageStartsCli, LinkLost,
     Activity, Age, CliExits, TerminalClose, Shutdown, ShutdownDone, RestartFires, Stop, StopDone
<1>9. CASE UNCHANGED vars
  BY <1>2, <1>9 DEF vars
<1> QED BY <1>5, <1>6, <1>7, <1>8, <1>9 DEF Next

(* CIRCUIT_MAX_PROBES: each trial that fails is counted, only a close over *)
(* a survivor clears the count, and when it is spent the repository stays  *)
(* refused for as long as the supervisor runs, whatever is asked.          *)
THEOREM TrialsAreBudgeted ==
    Spec => [][\A p \in Repo : Moves(breaker[p], breaker'[p])]_vars
<1>1. ProbeInv /\ [Next]_vars => \A p \in Repo : Moves(breaker[p], breaker'[p])
  BY BreakerMoves
<1> QED BY <1>1, InitProbeInv, ProbeInvStep, PTL DEF Spec

(* ... so nothing is admitted there again: a breaker whose trials are      *)
(* spent is open for ever.                                                 *)
Spent(p) == breaker[p].state = "open" /\ breaker[p].failed >= MaxProbes

THEOREM SpentIsForEver ==
    ASSUME NEW p \in Repo
    PROVE  Spec => [](Spent(p) => []Spent(p))
<1>1. ASSUME ProbeInv, [Next]_vars, Spent(p) PROVE Spent(p)'
  <2>1. Moves(breaker[p], breaker'[p])
    BY <1>1, BreakerMoves
  <2> QED BY <1>1, <2>1 DEF Moves, Spent
<1>2. ProbeInv /\ [Next]_vars /\ Spent(p) => Spent(p)'
  BY <1>1
<1> QED BY <1>2, InitProbeInv, ProbeInvStep, PTL DEF Spec
=============================================================================
