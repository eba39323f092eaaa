--------------------------- MODULE ProcessManager ---------------------------
(***************************************************************************)
(* The supervisor's process manager                                        *)
(* (src/supervisor/src/process-manager.ts) with the session bridges it     *)
(* owns (src/supervisor/src/runners/session-bridge.ts): start, stop, crash *)
(* and restart of runs, the concurrency slots and their reconciler, and    *)
(* one circuit breaker per repository.                                     *)
(*                                                                         *)
(* A timer is armed or not; that it fires is a step.  "aged" says that the *)
(* 30 s grace of the reconciler has passed since the run's last activity,  *)
(* or since its start if it had none.  The CLI is the stream-json runner.  *)
(* A session.stop for a run that is not in the runs map changes nothing.   *)
(***************************************************************************)
EXTENDS Integers, FiniteSets

CONSTANTS
    Run,            \* run ids the hub sends session.start for, each once
    Repo,           \* repository paths
    RepoOf,         \* the repository of a run
    None,           \* no run, no bridge
    MaxConcurrent,  \* cfg.maxConcurrent
    MaxRestarts,    \* MAX_RESTART_COUNT
    Threshold,      \* CIRCUIT_THRESHOLD
    MaxProbes,      \* CIRCUIT_MAX_PROBES
    BackoffEvents,  \* the bridge of a crashed run may act before the restart
    BridgeFails     \* making a bridge may throw

ASSUME RepoAssumption == RepoOf \in [Run -> Repo] /\ None \notin Run
ASSUME BoundAssumption ==
    /\ MaxConcurrent \in Nat /\ MaxRestarts \in Nat
    /\ Threshold \in Nat \ {0} /\ MaxProbes \in Nat \ {0}
    /\ BackoffEvents \in BOOLEAN /\ BridgeFails \in BOOLEAN

VARIABLES
    run,            \* the RunInstance of a run id
    breaker         \* the circuit breaker of a repository

vars == <<run, breaker>>

(* new: no session.start yet; checking: start() awaits the sandbox check;   *)
(* refused: start() returned a rejection; gone: deleted from the runs map. *)
Listed == {"starting", "running", "stopping", "crashed"}
Counted == {"starting", "running"}
RunState == Listed \cup {"new", "checking", "refused", "gone"}

(* A bridge: its hub socket is authenticated, its CLI lives, onSpawned was *)
(* called, stop() was called.                                              *)
Bridge == [link : BOOLEAN, cli : BOOLEAN, spawned : BOOLEAN, stopped : BOOLEAN]
NewBridge == [link |-> FALSE, cli |-> FALSE, spawned |-> FALSE, stopped |-> FALSE]

(* timers: restart timers that have not fired; armed: the last one is held  *)
(* in restartTimer; stops: a stop() awaits the bridge; bye: the bridge's    *)
(* shutdown handler awaits its own stop() and will call onExit.            *)
RunInstance ==
    [state : RunState, restarts : 0 .. MaxRestarts, crashes : 0 .. Threshold,
     timers : Nat, armed : BOOLEAN, aged : BOOLEAN, userStop : BOOLEAN,
     bridge : Bridge \cup {None}, stops : BOOLEAN, bye : BOOLEAN]
NewRun == [state |-> "new", restarts |-> 0, crashes |-> 0, timers |-> 0,
           armed |-> FALSE, aged |-> FALSE, userStop |-> FALSE,
           bridge |-> None, stops |-> FALSE, bye |-> FALSE]

(* A missing entry of the breakers map is the closed breaker.              *)
Breaker == [state : {"closed", "open", "half_open"}, failed : 0 .. MaxProbes,
            timer : {"none", "cooldown", "survival"}, probe : Run \cup {None}]
Closed == [state |-> "closed", failed |-> 0, timer |-> "none", probe |-> None]

(* The one type invariant: the values of the process manager's maps.       *)
TypeOK == run \in [Run -> RunInstance] /\ breaker \in [Repo -> Breaker]

Init == run = [r \in Run |-> NewRun] /\ breaker = [p \in Repo |-> Closed]

-----------------------------------------------------------------------------
(* The values a run takes.                                                 *)
In(r, S) == run[r].state \in S
Of(p, S) == {r \in Run : RepoOf[r] = p /\ In(r, S)}
Up(b) == b # None /\ ~b.stopped

(* bridge.stop(): socket and CLI are closed.                               *)
Stopped(b) ==
    IF b = None THEN None
    ELSE [b EXCEPT !.stopped = TRUE, !.link = FALSE, !.cli = FALSE]
Disarmed(x) ==
    [x EXCEPT !.timers = IF x.armed THEN @ - 1 ELSE @, !.armed = FALSE]

(* Deleted from the runs map: what is left is a bridge nobody stopped.     *)
Gone(x) == [NewRun EXCEPT !.state = "gone",
                          !.bridge = IF Up(x.bridge) THEN x.bridge ELSE None]
(* ... after closeBridge() or retireBridge() (variant: without).            *)
Kept(x) == Gone(x)
Retired(x) == Gone([x EXCEPT !.bridge = Stopped(@)])

(* forgetRun(): a removed run frees the probe slot it holds (variant: not). *)
Held(b, gone) == b
ReleaseProbe(b, gone) ==
    IF b.probe \in gone THEN [b EXCEPT !.probe = None, !.timer = "none"] ELSE b
Forget(gone) == [p \in Repo |-> ReleaseProbe(breaker[p], gone)]

(* scheduleRestart(): one more backoff timer, unless the cap is reached    *)
(* (variants: a second crash finds a timer and arms none; the cap is taken *)
(* for the number of restarts that may be exceeded).                       *)
NotRescheduled(x) ==
    IF x.restarts >= MaxRestarts THEN Retired(x)
    ELSE [x EXCEPT !.state = "crashed", !.restarts = @ + 1,
                   !.timers = IF x.restarts = 0 THEN @ + 1 ELSE @]
RescheduledOnceMore(x) ==
    IF x.restarts > MaxRestarts THEN Retired(x)
    ELSE [x EXCEPT !.state = "crashed", !.restarts = @ + 1,
                   !.timers = @ + 1, !.armed = TRUE]
Rescheduled(x) ==
    IF x.restarts >= MaxRestarts THEN Retired(x)
    ELSE [x EXCEPT !.state = "crashed", !.restarts = @ + 1,
                   !.timers = @ + 1, !.armed = TRUE]

(* spawn(): what the run may be when it returns.                           *)
Spawned(x) ==
    {[x EXCEPT !.state = "starting", !.bridge = NewBridge]}
        \cup (IF BridgeFails THEN {Rescheduled([x EXCEPT !.bridge = None])} ELSE {})

-----------------------------------------------------------------------------
(* start().                                                                *)
Receive(r) ==
    /\ In(r, {"new"})
    /\ run' = [run EXCEPT ![r].state = "checking"]
    /\ UNCHANGED breaker

(* The sandbox or the git check refuses it, or one of BreakerAdmits fails. *)
Refuse(r) ==
    /\ In(r, {"checking"})
    /\ run' = [run EXCEPT ![r].state = "refused"]
    /\ UNCHANGED breaker

(* Variant: a start beside a restart that is pending.                      *)
AdmitsBesideCrashed(r) ==
    LET b == breaker[RepoOf[r]]
    IN b.state # "open" /\ (b.state = "half_open" => b.probe \in {None, r})

BreakerAdmits(r) ==
    LET b == breaker[RepoOf[r]]
    IN /\ b.state # "open"
       /\ b.state = "half_open" => b.probe \in {None, r}
       /\ Of(RepoOf[r], {"crashed"}) = {}

(* reconcileSlots(): the counted runs whose bridge is not alive or never   *)
(* spawned, past their grace.                                              *)
Alive(b) == Up(b) /\ (b.link \/ b.cli) /\ b.spawned
Stranded == {r \in Run : In(r, Counted) /\ run[r].aged /\ ~Alive(run[r].bridge)}
Reclaimed == [r \in Run |-> IF r \in Stranded THEN Retired(run[r]) ELSE run[r]]

(* The cap and the duplicate check, after the reconcile.                   *)
HasSlot == Cardinality({r \in Run : In(r, Counted)} \ Stranded) < MaxConcurrent
Idle(p) == Of(p, Counted) \subseteq Stranded

RefuseBusy(r) ==
    /\ In(r, {"checking"})
    /\ BreakerAdmits(r)
    /\ ~(HasSlot /\ Idle(RepoOf[r]))
    /\ run' = [Reclaimed EXCEPT ![r].state = "refused"]
    /\ breaker' = Forget(Stranded)

(* The half-open slot is claimed last, and the bridge is made.             *)
NoClaim(b, r) == b
Claim(b, r) ==
    IF b.state = "half_open" /\ b.probe = None THEN [b EXCEPT !.probe = r] ELSE b

Admit(r) ==
    /\ In(r, {"checking"})
    /\ BreakerAdmits(r)
    /\ HasSlot /\ Idle(RepoOf[r])
    /\ \E x \in Spawned(run[r]) :
          /\ run' = [Reclaimed EXCEPT ![r] = x]
          /\ breaker' = [p \in Repo |->
                            LET b == ReleaseProbe(breaker[p], Stranded)
                                c == IF p = RepoOf[r] THEN Claim(b, r) ELSE b
                            IN IF x.state = "gone" THEN ReleaseProbe(c, {r}) ELSE c]

-----------------------------------------------------------------------------
(* What happens to a bridge.                                               *)

(* The bridge of a crashed run is there until the restart replaces it.     *)
Acts(r) == In(r, {"crashed"}) => BackoffEvents

(* auth_ok, on the first connect and on every reconnect: ensureRunner().   *)
Connect(r) ==
    /\ Up(run[r].bridge) /\ ~run[r].bridge.link
    /\ Acts(r)
    /\ run' = [run EXCEPT ![r].bridge.link = TRUE, ![r].bridge.cli = TRUE]
    /\ UNCHANGED breaker

(* A user_message finds no CLI: ensureRunner().                            *)
MessageStartsCli(r) ==
    /\ Up(run[r].bridge) /\ run[r].bridge.link /\ ~run[r].bridge.cli
    /\ Acts(r)
    /\ run' = [run EXCEPT ![r].bridge.cli = TRUE]
    /\ UNCHANGED breaker

(* A close code that is not terminal: the bridge will reconnect.           *)
LinkLost(r) ==
    /\ Up(run[r].bridge) /\ run[r].bridge.link
    /\ run' = [run EXCEPT ![r].bridge.link = FALSE]
    /\ UNCHANGED breaker

(* The CLI reports ready: onSpawned(), once per bridge; a probe's survival *)
(* timer starts.                                                           *)
CloseOnSpawn(b, r) == IF b.state = "half_open" /\ b.probe = r THEN Closed ELSE b
StartSurvival(b, r) ==
    IF b.state = "half_open" /\ b.probe = r THEN [b EXCEPT !.timer = "survival"] ELSE b

Ready(r) ==
    /\ Up(run[r].bridge) /\ run[r].bridge.cli /\ ~run[r].bridge.spawned
    /\ run' = [run EXCEPT ![r].bridge.spawned = TRUE,
                          ![r].state = IF In(r, Listed) THEN "running" ELSE @]
    /\ breaker' = [breaker EXCEPT ![RepoOf[r]] = StartSurvival(@, r)]

(* noteActivityForRun(), and the passing of the grace.                     *)
Activity(r) ==
    /\ In(r, Listed) /\ run[r].aged
    /\ Up(run[r].bridge) /\ run[r].bridge.cli
    /\ run' = [run EXCEPT ![r].aged = FALSE]
    /\ UNCHANGED breaker

Age(r) ==
    /\ In(r, Counted \cup {"crashed"}) /\ ~run[r].aged
    /\ run' = [run EXCEPT ![r].aged = TRUE]
    /\ UNCHANGED breaker

(* tripBreaker() (variant: only the first trip arms the cooldown).         *)
TrippedOnce(b) ==
    LET failed == IF b.state = "half_open" THEN b.failed + 1 ELSE b.failed
    IN [state |-> "open", failed |-> failed, probe |-> None,
        timer |-> IF failed >= 1 THEN "none" ELSE "cooldown"]
Tripped(b) ==
    LET failed == IF b.state = "half_open" THEN b.failed + 1 ELSE b.failed
    IN [state |-> "open", failed |-> failed, probe |-> None,
        timer |-> IF failed >= MaxProbes THEN "none" ELSE "cooldown"]

(* onExit() of run r, whose value is x once its CLI or bridge has ended.   *)
(* Of the earlier crashes some may be older than the ten minutes window.   *)
OnExit(r, x, clean) ==
    \/ /\ ~In(r, Listed)
       /\ run' = [run EXCEPT ![r] = Gone(x)]
       /\ UNCHANGED breaker
    \/ /\ In(r, Listed) /\ (x.userStop \/ clean)
       /\ run' = [run EXCEPT ![r] = IF x.userStop THEN Gone(x) ELSE Retired(x)]
       /\ breaker' = Forget({r})
    \/ /\ In(r, Listed) /\ ~x.userStop /\ ~clean
       /\ \E n \in 1 .. x.crashes + 1 :
             LET y     == [x EXCEPT !.crashes = n]
                 trips == breaker[RepoOf[r]].state = "half_open" \/ n >= Threshold
                 z     == IF trips THEN Retired(y) ELSE Rescheduled(y)
             IN /\ run' = [run EXCEPT ![r] = z]
                /\ breaker' = IF trips THEN [breaker EXCEPT ![RepoOf[r]] = Tripped(@)]
                              ELSE IF z.state = "gone" THEN Forget({r})
                              ELSE breaker

CliExits(r, clean) ==
    /\ Up(run[r].bridge) /\ run[r].bridge.cli
    /\ OnExit(r, [run[r] EXCEPT !.bridge.cli = FALSE], clean)

(* Close code 4001 or 4002: the CLI is killed, the bridge exits and never  *)
(* connects again: what is left of it is as good as stopped.               *)
TerminalClose(r) ==
    /\ Up(run[r].bridge) /\ Acts(r)
    /\ OnExit(r, [run[r] EXCEPT !.bridge = Stopped(@)], FALSE)

(* The hub's shutdown message: a live CLI is given some seconds to end.    *)
Shutdown(r) ==
    /\ Up(run[r].bridge) /\ run[r].bridge.link
    /\ LET x == [run[r] EXCEPT !.bridge = Stopped(@)]
       IN IF run[r].bridge.cli /\ In(r, Listed)
          THEN run' = [run EXCEPT ![r] = [x EXCEPT !.bye = TRUE]] /\ UNCHANGED breaker
          ELSE OnExit(r, x, TRUE)

ShutdownDone(r) ==
    /\ run[r].bye
    /\ OnExit(r, [run[r] EXCEPT !.bye = FALSE], TRUE)

-----------------------------------------------------------------------------
(* Timers.                                                                 *)

(* The oldest restart timer fires: it clears restartTimer, also when that  *)
(* is a later timer's, closes the bridge and spawns.                       *)
RestartFires(r) ==
    /\ In(r, Listed) /\ run[r].timers > 0
    /\ \E x \in Spawned([run[r] EXCEPT !.timers = @ - 1, !.armed = FALSE]) :
          /\ run' = [run EXCEPT ![r] = x]
          /\ breaker' = IF x.state = "gone" THEN Forget({r}) ELSE breaker

HalfOpened(b) == [b EXCEPT !.state = "half_open", !.timer = "none", !.probe = None]
HalfOpen(p) ==
    /\ breaker[p].timer = "cooldown"
    /\ breaker' = [breaker EXCEPT ![p] = HalfOpened(@)]
    /\ UNCHANGED run

(* The survival timer finds its probe still counted: closeBreaker().       *)
Survive(p) ==
    LET b == breaker[p]
    IN /\ b.timer = "survival"
       /\ breaker' = [breaker EXCEPT ![p] =
                         IF b.state = "half_open" /\ b.probe # None /\ In(b.probe, Counted)
                         THEN Closed ELSE [@ EXCEPT !.timer = "none"]]
       /\ UNCHANGED run

-----------------------------------------------------------------------------
(* stop(): clears the timer it knows of and stops the bridge.  It waits    *)
(* for a live CLI, then forgets the run; without one it does so at once.   *)
StopMarked(x) == [Disarmed(x) EXCEPT !.state = "stopping", !.userStop = TRUE,
                                     !.bridge = Stopped(@), !.stops = TRUE]

Stop(r) ==
    /\ In(r, Listed \ {"stopping"})
    /\ IF Up(run[r].bridge) /\ run[r].bridge.cli
       THEN run' = [run EXCEPT ![r] = StopMarked(@)] /\ UNCHANGED breaker
       ELSE /\ run' = [run EXCEPT ![r] = Gone(StopMarked(@))]
            /\ breaker' = Forget({r})

StopDone(r) ==
    /\ In(r, Listed) /\ run[r].stops
    /\ run' = [run EXCEPT ![r] = Gone(@)]
    /\ breaker' = Forget({r})

Next ==
    \/ \E r \in Run :
          \/ Receive(r) \/ Refuse(r) \/ RefuseBusy(r) \/ Admit(r)
          \/ Connect(r) \/ MessageStartsCli(r) \/ LinkLost(r) \/ Ready(r)
          \/ Activity(r) \/ Age(r)
          \/ \E clean \in BOOLEAN : CliExits(r, clean)
          \/ TerminalClose(r) \/ Shutdown(r) \/ ShutdownDone(r)
          \/ RestartFires(r) \/ Stop(r) \/ StopDone(r)
    \/ \E p \in Repo : HalfOpen(p) \/ Survive(p)

Spec == Init /\ [][Next]_vars

(* Timers fire, and an awaited check or stop ends (both have a time limit). *)
Fairness ==
    /\ \A r \in Run : /\ WF_vars(Refuse(r) \/ RefuseBusy(r) \/ Admit(r))
                      /\ WF_vars(RestartFires(r)) /\ WF_vars(StopDone(r))
                      /\ WF_vars(ShutdownDone(r))
    /\ \A p \in Repo : WF_vars(HalfOpen(p)) /\ WF_vars(Survive(p))
FairSpec == Spec /\ Fairness

-----------------------------------------------------------------------------
(* A bridge that is not stopped belongs to a run the manager still tracks: *)
(* every way a run leaves the map tears its bridge down, so the hub never  *)
(* keeps a channel with no run behind it (retireBridge, closeBridge).      *)
NoOrphanBridge == \A r \in Run : Up(run[r].bridge) => In(r, Listed)

(* At most one run of a repository is up or waiting to be restarted,       *)
(* whatever starts, restarts, evictions and stops interleave.              *)
OneRunPerRepo ==
    \A p \in Repo : Cardinality(Of(p, {"starting", "running", "crashed"})) <= 1

(* Runs beyond the cap are restarts: those that were never restarted fit   *)
(* into maxConcurrent (activeSlotCount leaves crashed runs out).           *)
FirstRunsWithinCap ==
    Cardinality({r \in Run : In(r, Counted) /\ run[r].restarts = 0}) <= MaxConcurrent

(* A half-open breaker never waits for a run that is gone: the probe slot  *)
(* is free or its holder is tracked (forgetRun's reason to exist).         *)
ProbeNotPinned ==
    \A p \in Repo : breaker[p].probe # None => In(breaker[p].probe, Listed)

(* Half-open is one trial run and nothing else, open is no run at all.     *)
OneTrial ==
    \A p \in Repo : \A r \in Of(p, {"starting", "running", "crashed"}) :
        CASE breaker[p].state = "open" -> FALSE
          [] breaker[p].state = "half_open" -> breaker[p].probe = r
          [] OTHER -> TRUE

(* Spawning is not health: a breaker closes only over a probe whose CLI    *)
(* has come up and whose run has not crashed since.                        *)
ClosedByHealth ==
    [][\A p \in Repo :
          breaker[p].state = "half_open" /\ breaker'[p].state = "closed" =>
              /\ breaker[p].probe # None
              /\ In(breaker[p].probe, {"running"})
              /\ run[breaker[p].probe].bridge.spawned]_vars

(* Self-healing: an open breaker whose budget is not spent admits a trial  *)
(* some time later (no trip leaves it open without a timer).               *)
BreakerHeals ==
    \A p \in Repo : (breaker[p].state = "open" /\ breaker[p].failed < MaxProbes)
                        ~> breaker[p].state # "open"

(* A request, a crash and a stop are each followed by an outcome.          *)
RunSettles ==
    \A r \in Run : \A s \in {"checking", "crashed", "stopping"} : In(r, {s}) ~> ~In(r, {s})
=============================================================================
