# Verification of remo-code

remo-code lets people drive coding agents (Claude Code, Codex, Gemini) that run
on their own machines from a browser, a phone, Telegram, a scheduler or another
program.  A *hub* (Bun/TypeScript, `hub/`) keeps the accounts, sessions and
queues and talks over WebSockets to *agents* and to *supervisors*
(`supervisor/`), which start and watch the agents' processes.  This directory
holds TLA+ specifications of the hub's concurrent core, TLC configurations that
model-check them on small instances, and theorems that TLAPS proves for all
instances.

## The system

| Component | Source | State | Operations | Hard part | What makes it correct |
|---|---|---|---|---|---|
| Session queue | `hub/src/dispatch/session-queue.ts` | in-flight token and FIFO waiters per session | enqueue, releaseAndTakeNext, abandon | full queue, retries of a token | one token in flight; no waiter lost or doubled |
| Dispatch pipeline | `hub/src/dispatch/pipeline.ts` | armed finalize hook per session, contexts of waiters | dispatch, onSessionReply, reapTimedOutHooks, releaseClosedRun | ten awaits per dispatch, each a place where replies, reapers and other dispatches get in | the slot is held exactly while a run is in flight; the queue keeps draining; caps, kill switch and ledger are respected at the send |
| Reconnect grace buffer | `hub/src/dispatch/grace.ts` | parked replay thunks per session | register, drain, sweep | a drain awaits each replay while others park, drain and sweep | a parked request is replayed or expired once |
| Automation controls | `hub/src/dispatch/automation-controls.ts` | kill switch, inject ledger, pending releases (database) | engage, release, reserve, releaseInject, reset | last reservation, failed releases | never more sends than the ceiling; what is not sent is not charged |
| Gates, preflight, spawn-on-error | `hub/src/dispatch/gates.ts`, `pty-preflight.ts`, `spawn-on-error.ts`, `sessions/budget.ts` | spending, thresholds, launch budget, per-session lock | check, ensureOnline | budget reserved over awaits | no launch beyond the budget, no leak of a reservation |
| Agent channels, supervisor sockets | `hub/src/ws/registry.ts`, `ws/agent.ts`, `ws/supervisor-registry.ts` | channel per session, socket and pending requests per supervisor | register, unregister, close, sendRequest | a reconnect overlaps the old socket's close | a connected agent is reachable; a request is answered once |
| Routine-cycle queue | `hub/src/orchestrator/queue.ts` | rows pending / running / settled (database) | enqueue, claim, run, release | several drainers, failed releases, restarts | global cap, one cycle per session, no row stuck |
| Orchestrator | `hub/src/orchestrator/*` | macro-cycle state, waves, run log | tick, inject, launch, resume, reap | long cycles over restarts | a cycle injects once per tick; orphans are resumed once |
| Scheduler | `hub/src/scheduler/*` | tasks, runs, timers | fire, claim, rearm, send, finalize, time out, chain | several hubs, restarts between claim and send, timeouts racing replies | a one-time task is dispatched once, no kill switch burns it; a run reaches an end |
| Revanote | `hub/src/revanote/*` | annotations, batches, pull requests, callbacks | dispatch, reopen, batch, park, finalize, gate, merge, call back | resends, retries, sweeps and late replies race for one row | an annotation is resolved by the reply to its own prompt only, is never stranded, and its end is reported |
| Telegram bridge | `hub/src/telegram/*`, `api/telegram-webhook.ts` | links, turn lock, approvals | webhook, approve, stop | two turns of a chat, stale approvals | one turn at a time; an approval is used once |
| Error capture, feedback, ask, work | `hub/src/error-capture`, `feedback`, `ask`, `work` | their own rows | build a request, finalize it | none of their own beyond the pipeline | — |
| Session reapers | `hub/src/ws/*-reaper.ts`, `idle-teardown.ts`, `sessions/stale-run-reaper.ts` | timers | close dead sessions and runs | a reaper racing a late answer | a live run is left alone |
| Supervisor | `supervisor/src/*` | processes, restart counters, hub connection, PTYs | start, stop, restart, reconnect | circuit breaker, duplicate starts, restarts of the supervisor | one process per session; bounded restarts |
| API, auth, database layer | `hub/src/api`, `auth`, `db` | PostgreSQL rows | request handlers | — | out of scope: validation and SQL |
| Web, mobile, tray, MCP, tools | `web`, `mobile`, `supervisor/tauri`, `mcp`, `tools` | — | — | — | out of scope: clients |

Every machine-origin and Telegram prompt — scheduled task, orchestrator cycle,
error repair, Revanote annotation, feedback, work item — becomes a
`DispatchRequest` and passes through the one dispatch pipeline on its way to an
agent session.  A mistake there wedges a session, loses or doubles a prompt, or
lets automation run past a cap or a kill switch.  It is therefore modelled
first.  The second core is the supervisor's process manager, on which every
session depends; then the two row protocols whose races cross hub processes and
restarts: one-time tasks and annotations.  The third is the life of the run
rows of the orchestrator session, which sweeps, launches, stops and closing
sockets write at once.  `hazards` in `PROJECT.json` lists,
line by line, what is hard to test.

## Modules

| Module | Models | Notes |
|---|---|---|
| `SessionQueue` | `SessionQueue` class | synchronous methods, one action each; `slot` and `waiters` |
| `GraceBuffer` | `GraceBufferImpl` | `parked`, `stale`, `drains`; a drain is a loop that awaits each replay |
| `DispatchPipeline` | `dispatch()` and its finalizers | composes the two (EXTENDS `SessionQueue`, INSTANCE `GraceBuffer`) |
| `OneRunPerSession` | what callers are promised | abstract; no queues, hooks or buffers |
| `MCDispatchPipeline` | instances for TLC | one session, two to four requests of given kinds |
| `RoutineQueue` | `orchestrator/queue.ts` and the due-scan of `controller.ts` | database rows; one action per statement of a claim |
| `MCRoutineQueue` | instances for TLC | two sessions with two cycles each |
| `RoutineQueueProofs` | type, one cycle per session, refinement, global cap, order, fleet cap, backlog, no stuck claims or locks | theorems about `Spec` |
| `DispatchPipelineProofs` | type, structure, no stranded waiter | theorems about `Spec` |
| `DispatchRunProofs` | one run at a time, the slot never leaks | theorems about `Spec` |
| `DispatchGuardProofs` | gates, kill switch, ledger and ceiling, grace buffer, waiters, FIFO, nothing wedged, refinement | theorems about `Spec` |
| `ProcessManager` | the supervisor's `ProcessManager` with its `SessionBridge`s | runs, slots, restarts, circuit breakers |
| `MCProcessManager` | instances for TLC | two or three runs in one or two repositories |
| `ProcessManagerProofs` | type, probe, nothing forgotten, budget of trials, cap, bridges, repositories | theorems about `Spec` |
| `OnceTask` | one-time tasks of the scheduler, four senders, run rows | `scheduled_tasks` and `scheduled_task_runs` |
| `MCOnceTask` | instances for TLC | one task, three activations in two hubs |
| `OnceTaskProofs` | type, one dispatch per claim, no burnt task | theorems about `Spec` |
| `Annotation` | one Revanote annotation, alone or in a batch | `annotations` and `annotation_runs`, hooks, grace buffer, sweeps |
| `MCAnnotation` | instances for TLC | two activations |
| `AnnotationProofs` | type, own verdict, verdicts stand, reported ends, the turn keeps its row | theorems about `Spec` |
| `OrchestratorRuns` | the `session_runs` rows of a user's orchestrator session | orphan sweep, launch primitive, auto-launch, stops, reports, sockets |
| `MCOrchestratorRuns` | instances for TLC | one supervisor, two run ids, two jobs |
| `OrchestratorRunsProofs` | type, one open run, cap, final stops, nothing dropped | theorems about `Spec` |

### How state and actions correspond to the code

JavaScript runs from one `await` to the next without interruption.  `pc[r]` is
the await at which the activation of `dispatch()` for request `r` is suspended,
and each action is the code from one await to the next:

| `pc[r]` | awaited | next action |
|---|---|---|
| `gates` | the first gate: the kill switch of a machine list | `KillSwitchPasses`, `GatesBlock` |
| `caps` (`gates` if no machine list) | threshold, cost and token caps | `CapsPass`, `GatesBlock`, `GatesFail` |
| `lifetime` | the lifetime counter, read without consuming | `LifetimePasses`, `GatesBlock` |
| `skipping` | `store.markSkipped` | `ReturnSkipped` (with `releaseAndPromoteIfIdle`) |
| `claim` | nothing: gates done, `queue.enqueue` next | `ClaimSlot`, `JoinQueue`, `JoinTwin`, `DropBusy` |
| `online` | `isOnline` | `IsOnline` (may park) |
| `precheck` | the halt check before a lazy start | `PreEnsureCheck` |
| `ensure` | `ensureOnline`, `isOnline` | `EnsureOnline` (may park) |
| `guard` | `preSendGuard`: the kill switch | `PreSendGuard` |
| `reserve` | `preSendGuard`: `reserveInject`, which drains the pending releases first | `ReserveInject` |
| `open` | `store.open` | `OpenRow` (arms the hook), `OpenThrows` |
| `openFailed` | `releaseInject` | `RethrowOpen` |
| `marking` | `store.markDispatched` | `MarkDispatched`, `SendThrows` |
| `halt` | `finalHaltCheck` | `FinalHaltCheck` |
| `send`, `sending` | `send`: channel lookup, then the stored message | `BeginSend`, `Send`, `SendThrows` |
| `unwind`, `haltUnwind` | `releaseInject` of a failed or halted send | `GiveBack` |
| `failing`, `halting` | `markFailed`, `markSkipped` | `Unwind` |

`ReleaseAndPromote` is the synchronous part of `releaseAndPromote()` and is part
of every action whose code calls it: it frees the slot, takes the oldest waiter
with a context and starts its activation at its gates.  `slot`/`waiters` are the
`SessionQueue`, `ctx` is `waiterCtx`, `hook` is `activeBySession`, `closing` the
runs between the removal of the hook and the end of the store's write,
`charged` the unreleased reservations of the one counter key, `pending` the
releases that have failed and are tried again (`pendingReleases`).  `from` says who
started an activation (its source, a promotion, a replay), because the code
after a promoted dispatch differs.  `okSince` and `clearSince` are history
variables for the two cap properties.

What is abstracted: the threshold and the two caps are one flag `capped` that
flips freely, the kill switch one flag `halted`; the kill switch and the counter
also block when they cannot be read.  `reserveInject()` is one step, from its
drain to its commit, and `releaseInject()` one with the drain that follows it; how
many of the pending releases a drain settles is left open.  Time is the number of lapsed leading entries of a parked
list (all callers use the default time to live, so entries lapse in order) and
"held for four hours" is "everyone who holds the slot hangs".  `isOnline` is
"has a channel" (all adapters look the channel up).  A run id is its request.
A replay loop is resumed by the end of the activation it started; an activation
of the same request started meanwhile by a promotion is not waited for.

### The routine queue

The orchestrator's cycles do not wait in memory but in a table that all hub
processes share, so its races are races of transactions.  `status[c]` is the
committed status of row `c` and `at[c]` its rank in `enqueued_at`.  `drain[h]`
says where hub `h`'s `drainOnce()` is: `idle` (the `draining` flag is off),
`picking` and `promoting` (in the transaction of `claimCycles()`, before the
SELECT and before the UPDATE), `running` (in the `Promise.all` over the
runners).  `claimed[h]` are the rows the open transaction has promoted and
nobody else sees yet, `work[h]` its cycles with the state of their runners.

| Code | Actions |
|---|---|
| `scanAndEnqueueDueCycles`: guard, due rows, insert | `CheckActive`, `EnqueueCycle`, `SkipSession` |
| `claimCycles`: count, SELECT ... SKIP LOCKED, UPDATE, commit | `BeginClaim`, `Pick`, `Promote`, `Commit` |
| `claimCycles`: unique-index violation, deadlock, other failure | `PromoteFails`, `ClaimFails` |
| `drainOnce`: runner settles or throws, release, second release | `SettleRunner`, `ReleaseCycle`, `ReleaseFails`, `EndDrain` |

A statement reads what was committed when it began and its own transaction's
writes (PostgreSQL's default isolation).  The UPDATE waits while an uncommitted
promotion of the same session exists (`WaitsFor`) and fails when a committed one
does (`IndexConflict`); transactions that wait for each other are resolved by
failing one of them (`Deadlocked`, the one definition that models PostgreSQL
and not this repository).  `claimCycles()` catches the failure of its UPDATE and
continues, but the transaction is aborted, its next SELECT is refused, and all
of it rolls back: `PromoteFails` is therefore `RollBack`, not "skip".  What the
runner does (the macro cycle) is one step that ends well or throws.  The table's
cascade on deleted sessions and the unused `cancelled` status are left out.

### The supervisor's process manager

`run[r]` is the `RunInstance` of a run id with its bridge, `breaker[p]` the
circuit breaker of a repository.  The code is synchronous but for three awaits
(the sandbox check in `start()`, the end of a CLI in `stop()` and in the
bridge's shutdown handler); everything else that interleaves is timers and
socket callbacks.

| Code | Actions |
|---|---|
| `start()`: sandbox await; rejections; `reconcileSlots()`, cap and duplicate check; admission | `Receive`; `Refuse`; `RefuseBusy`; `Admit` |
| bridge socket and CLI: `auth_ok`, `user_message`, non-terminal close, `ready` | `Connect`, `MessageStartsCli`, `LinkLost`, `Ready` |
| `noteActivityForRun()` and the reconciler's grace | `Activity`, `Age` |
| `onExit()` of a CLI, of a terminal close, of the hub's shutdown | `CliExits`, `TerminalClose`, `Shutdown`, `ShutdownDone` |
| `setTimeout`s: restart, cooldown, survival | `RestartFires`, `HalfOpen`, `Survive` |
| `stop()` before and after its await | `Stop`, `StopDone` |
| `tripBreaker`, `forgetRun`, `closeBridge`/`retireBridge`, `reconcileSlots` | `Tripped`, `Forget`, `Retired`, `Stranded`/`Reclaimed`, inside the actions above |

Time is abstracted: a timer is armed or not and may fire whenever it is armed;
of the crashes a run remembers any number may have left the ten-minute window.
`timers` counts the restart timers that have not fired and `armed` says whether
the last of them is the one in `restartTimer`: `stop()` clears that one only.
`BackoffEvents` says whether the bridge of a crashed run may still act (start a
CLI on a message, be closed by the hub) before the restart replaces it.  The
runner is the stream-json one; the PTY runner keeps its process over a lost
socket and is not modelled.

### One-time tasks

`row[t]` is the task's row, `act[f]` an activation of `fire()` or `runNow()` in
hub `HubOf[f]` together with the run row that it inserts.

| Code | Actions |
|---|---|
| `fire()`: read of the row, `claimOnceTask()` | `Begin`, `Claim`, `ClaimFails` |
| `runNow()` | `RunNow` |
| `fireTask()`: halt check, `rearmOnceTask()`, gates and insert, a throw | `HaltCheck`, `Rearm`, `Gate`, `GateThrows` |
| senders: mark in flight, failure, throw, last halt check and send, refusal | `Mark`, `SendFails`, `SendThrows`, `Send`, `SendRefused`, `Restore`, `Refuse` |
| finalizers: reply or poll, `reapStaleRuns()`, `cancelRun()` | `Reply`, `Reap`, `Cancel` |
| kill switch, restart of a hub | `Engage`, `Release`, `Crash` |

The ten-second sweep, a rescheduled timer and the boot all end in `fire()`,
which reads the row again: they are one action.  The four senders share their
shape and differ in who marks the run in flight, which finalizers use
`only_if_active` (`Guarded`) and who gives the claim back (`Restores`).  The last
look at the kill switch and the send are one step: between them the code awaits
nothing that an owner could observe.  A task has one target, and edits of the
task by its owner are left out.

### Annotations

The module follows one row of `annotations` through the activations that race
for it.  An activation of `dispatchAnnotationRow()` (`single`), of the retry
route (`forced`) or of a turn of the row's batch (`batch`) owns at most one
`annotation_runs` row, whose id is the generation its prompt states.

| Code | Actions |
|---|---|
| webhook resend, retry route, `reopenAnnotationForRedispatch()` | `Redeliver`, `Retry`, `Check`, `Reset`, `Supersede` |
| `dispatchPendingAnnotation()` and the gates | `Load`, `Reject` |
| the pipeline, seen from the row: slot, queue, twin, promotion, park | `TakeSlot`, `Queue`, `Vanish`, `Promote`, `Park`, `MarkParked` |
| the store and the send: open, no channel, claim, bind, message | `Open`, `FindNoChannel`, `Claim`, `Bind`, `Send` |
| finalizers: reply, ceiling, reaper, `markFailed()`, the close, its callback | `Answer`, `Timeout`, `Release`, `Fail`, `Close`, `Report` |
| `redispatchStalePending()`, `runSweepOnce()`, `onParkExpire()`, replay | `SweepSingle`, `SweepBatch`, `Expire`, `Connect`, `Replay` |
| a failing statement, a restart, a lost channel, a run past its ceiling | `Throw`, `Crash`, `Drop`, `Age` |

The pipeline is proved elsewhere to run a session's requests one at a time;
here attempts of one row may target different sessions (the retry route takes a
session, and a binding may change), so two hooks of one row may be armed at
once, and the slot is taken from outside at will.  `run` says of the
activation's run row whether it is closed, in flight, or in flight past its
ceiling, `agent` what the prompted agent has said, `owed` which activation must
still report an end.  A slot whose activation is over is used again when
neither its run row nor its prompt can matter (`Free`), so that the number of
dispatches is bounded by `MaxAsks` and the faults only.

Two writes check the status of the row but not its generation: the reset of a
row that was seen dispatched, and `markFailed()`.  They can take the row from a
turn that is alive, and they do so in the runs.  The history variable `raced`
says beside which turns such a write was under way: when the turn's claim
committed, or because a send threw before its own claim while the turn was in
flight.  `TurnKeepsRow` excuses those turns and no other; every other property
holds for them too.  The status `archived` is never written by the hub and is
left out.

### The orchestrator's runs

A user has at most one orchestrator session, and a row of `session_runs` for
each time it was started.  `row[r]` is such a row, `job[j]` a sweep or a launch
between two of its awaits, `at` the statement it comes to next.

| Code | Actions |
|---|---|
| `supervisor.hello`: registration, sweep, auto-launch | `Hello`, `AutoLaunch` |
| a browser's connect, release of the kill switch | `StartSweep` |
| `resumeOrphansInner()`: stale rows; open rows; per orphan the stop guard, the kill switch, its end | `SweepStale`; `ListOrphans`; `LookAtOrphan`, `FinishStopped`, `EndOrphan` |
| `launchOrchestrator()`: checks, target, transaction, last halt check and send, withdrawal | `CheckLaunch`, `ResolveTarget`, `Insert`, `Send`, `Unwind` |
| `reopenOrphanIfNoReplacement()` | `Reopen` |
| REST start, `launchSessionForUser()` | `Ask` |
| stop and disconnect, `last_exit`, inventory and unbacked-run reapers | `Stop`, `Report`, `Inventory` |
| `handleAgentClose()`: the rows, then the registry; a replaced socket | `CloseSocket`, `Unregister`; `LateClose` |
| `reserveSessionSlot()` for other sessions | `OtherStarts`, `OtherEnds` |
| a statement that throws, a restart of the hub | `Throw`, `Crash` |

The two transactions under the per-user advisory lock are one step each, so is
every other statement.  A read of the kill switch or of the owner's setting
returns either value.  `lastStopped` is what `lastUserStopped()` reads: whether
the row with the latest `ended_at` was ended by the user.  `late` are the
supervisors with an old socket still to be closed: its close ends all open rows
of the supervisor and leaves the registry entry alone.  `closing` are the
supervisors whose rows the close has ended, or failed to end, and whose entry is
still registered: launches can be sent to them in between, and a hello replaces
the entry.  Runs of other sessions count for the cap only, and may start on a
supervisor that is not online, since `reserveSessionSlot()` does not ask.  `final` is a history variable: the user stopped the run
while no sweep had listed its orphans and no automatic launch was under way
(`Quiet`), and nobody has asked for the orchestrator since.  The cap on
restarts of an orphan is left out, since the orchestrator's rows are inserted
with a count of zero; so is the deletion of the session.

## Model checking

All runs of the pipeline use `MCDispatchPipeline` with one session; nothing in the pipeline
couples two sessions except the counter key, which the runs with counted
requests cover through several requests.

| Run | Instance | Checks |
|---|---|---|
| `PipelineQueue` | 4 requests, 2 waiters, symmetric | `TypeOK`, `AtMostOneInFlight`, `SlotHeldByRun`, `NoStrandedWaiter`, `WaitersHaveContext` |
| `PipelineFaults` | 2 requests of every kind, two socket drops, early events, throwing gates, hanging calls | `SendRespectsCap`, `SendRespectsHalt`, `ChargedExactly`, `ParkedOnce` |
| `PipelineLive` | 3 requests, two with one token | `ImplementsOneRun`, `DispatchSettles` |

Bounds.  Four requests are the least that fill a queue of two waiters behind a
run while one more arrives, so that a promoted waiter can race a new claim with
the queue full.  A ceiling of one is reached by two counted requests.  A drop
of the socket gives a reconnect, hence a second drain while the first still
awaits a replay; the second drop sends a request that was replayed back to the
buffer.  `MaxDrops` is the only bound on the state space; each request
enters from its source once.

| Run | Instance | Checks |
|---|---|---|
| `RoutineHubs` | 2 hubs, cap 2, failing statements, one restart, symmetric | `TypeOK`, `OneCyclePerSession`, `FleetCap`, `ImplementsOneRun` |
| `RoutineOneHub` | 1 hub, cap 1, no faults, fair | `NoOvertaking`, `CycleSettles` |

All have two sessions, two cycles of each, one of the four a deploy fix, and two
passes of the due-scan.  Two cycles of a session and two hubs are what the
unique index is for; two sessions are what a claim can lose when it rolls back;
with a cap of one the cap is reached by any cycle, with two by two sessions.
`MaxRestarts` and the number of cycles bound the state space.  The symmetry of
hubs and passes is sound for the refinement, whose mapping mentions neither.
`RoutineHubs` does not check deadlock: a row whose release has failed twice, or
whose hub has restarted, stays `running` with no runner and uses up the cap, and
the queue then really stops.  `CycleSettles` therefore holds only without
faults.  `FleetCap` is what the global cap is worth where hubs overlap: what runs
and what the claims under way may yet start is one cap per hub at most.  The
claims' budgets reach that bound in the instance although two sessions cannot
have more than two running rows.

| Run | Instance | Checks |
|---|---|---|
| `SupervisorRuns` | 3 runs, 2 of one repository, cap 1, 2 restarts, threshold 3, 1 probe, failing bridges, quiet backoff, symmetric | `TypeOK`, `NoOrphanBridge`, `OneRunPerRepo`, `OneTrial`, `ClosedByHealth` |
| `SupervisorLive` | 2 runs of one repository, cap 1, 2 restarts, threshold 2, 2 probes, failing bridges, bridges that act in the backoff, fair | `ProbeNotPinned`, `BreakerHeals`, `RunSettles` |

Two runs of a repository are what the duplicate check and the probe slot are
for, a third in another repository what the cap is for.  A threshold of three
is the least at which a run crashes, is restarted, crashes again and only then
trips; two restarts reach the restart cap before it.  Two probes are the least
that let a breaker open again with budget left.  Run ids are fresh in the code,
so each is received once.  Deadlock is not checked: once every run has ended
the supervisor waits for the hub.

| Run | Instance | Checks |
|---|---|---|
| `OnceTasks` | 1 task, 3 activations in 2 hubs, senders work, supervisor and teab; one engage, restart, Run Now, cancel and failing statement each; fair | `TypeOK`, `DispatchedOnce`, `HaltNeverBurns`, `OnceFires`, `RunSettles` |

Two activations race for a claim; the third is the one that claims again after
a refusal has given the claim back, or a Run Now beside them.  Tasks share
nothing but the kill switch.  The agent sender is left out of this run because
`HaltNeverBurns` fails with it (see below); the theorem about `DispatchedOnce`
covers it.  `Limit` bounds every event; deadlock is not checked because a
claimed task with its run ended is the end.

| Run | Instance | Checks |
|---|---|---|
| `Annotations` | 1 row, alone or batched; 2 activations, 2 resends or retries, 1 fault; fair | `TypeOK`, `OwnVerdict`, `TurnKeepsRow`, `EndIsReported`, `PendingSettles` |

Two activations at a time are a turn in flight and whoever races it; slots are
used again, so that more than two dispatches follow each other.  Two asks are a
resend that is refused and one that resets; one fault is a restart, a lost
channel or a failed statement at any point.  Deadlock is not checked: a
resolved annotation stays resolved.

| Run | Instance | Checks |
|---|---|---|
| `OrchestratorRuns` | 1 supervisor with a cap of 1, 2 run ids, 2 jobs, 2 faults, symmetric | `TypeOK`, `OneOpenRun`, `StopHolds`, `CapKept`, `NeverDropped` |

Two jobs are the sweeps of a hello and of a browser's connect, a sweep beside a
launch, or an orphan that is reopened beside a launch; two ids are an orphan and
its replacement; with a cap of one any other run takes the orphan's place.  Two
faults let a reopen fail twice, or a restart follow a failure.  Other instances
were checked once and gave nothing new: three ids with one fault, and two
supervisors with one job and two faults.  The theorems are about any number of
each.  Deadlock is not checked: run ids are used once, and the instance ends
when both are.  No liveness is stated of this module: whether a launch succeeds
is up to the kill switch, the owner and the supervisors.

Environment flags.  `EarlyEvents`, `GatesThrow` and `Hangs` switch on behaviours
of the pipeline's environment: a message, a reaper or a sweep that takes the
hook before the prompt has been sent; a gate whose database read throws; an
awaited call that never settles.  `PipelineFaults` has all three on.  The other
pipeline runs have them off where a property does not survive them.

What the code does where a property's condition is dropped was found with TLC
and is reproduced by changing the named constant or definition:

| Change | Violated | What happens |
|---|---|---|
| `EarlyEvents = TRUE` in `PipelineQueue` | `AtMostOneInFlight` | an event between the arming of the hook and the send frees the slot under a run that is still being sent (`pipeline.ts:436`) |
| `GatesThrow = TRUE` in `PipelineQueue` | `NoStrandedWaiter` | a gate that throws for a promoted waiter leaves the remaining waiters without a promotion (`pipeline.ts:647`) |
| `Hangs = TRUE` in `PipelineQueue` | `WaitersHaveContext`, `SlotHeldByRun` | the stale-lock reaper frees the slot of a dispatch that still awaits and drops the waiters behind it (`stale-lock-reaper.ts:117`) |
| `GlobalCap` as an invariant of `RoutineHubs` with `Cap = 1` | `GlobalCap` | both hubs count the running cycles before either commits (`queue.ts:113`) |
| the session sender in `OnceTasks` (`Kinds = {"session"}`) | `HaltNeverBurns` | the agent's sender records the refusal and does not give the claim back |
| `AllStopsFinal = TRUE` in `OrchestratorRuns` | `StopHolds` | a stop while a sweep or an automatic launch is under way: the sweep's UPDATE by id makes a `reboot` of it and launches a replacement, a launch inserts its row after the stop, or a reopened orphan follows it (`orphan-resume.ts:187`) |
| two counted requests of one token in `PipelineFaults` | `ChargedExactly` | a twin that fails gives back the reservation of the one that was sent, at once or through a pending release drained later (`automation-controls.ts:449`) |
| `raced` never set (`Claim`, `Throw`) | `TurnKeepsRow` | a reset or a failure that was decided before a claim takes the row from the turn that won it |

Some further outcomes need no run to see: a waiter that is promoted while others
have filled the queue is dropped as `session_busy` (`DropBusy` of a promotion),
and losing the unique-index race for one session rolls back the whole claim
(`PromoteFails`).  A supervisor's last report about a run that the user has
stopped replaces `user_stopped` by its own reason, since `endRun()` asks for no
open row (`Report`).  A first launch that the cap or the kill switch refuses
after its transaction leaves a session without a run, and the auto-launch, which
asks only whether there is a session, never tries again (`auto-launch.ts:384`).
The stop guard of the sweep looks at the latest ended run only, and so ends as
stopped also a run that was started again after a stop
(`orphan-resume.ts:149`).  A restart between the end of an orphan and the insert
of its replacement loses the orchestrator (the excuse `Lost` of `NeverDropped`).

Runs that TLC finds violated, each against a sentence of the repository
(`findings` in `PROJECT.json` quotes them):

| Run | Shows |
|---|---|
| `SupervisorLostTimer` | the bridge of a crashed run starts a CLI during the backoff, its crash arms a second restart timer, and `stop()` clears only that one: the run is spawned again while it is being stopped, and nobody stops the bridge |
| `AnnotationReopened` | a refused resend leaves its cancelled run as the annotation's latest; the next resend judges the row by it and resets a row whose run is in flight |

Fairness.  `FairSpec` of the pipeline: weak fairness of each activation's steps and of
`FinishClose`: awaited calls settle, and the event loop runs continuations.  Of
`EndRun`: a run that was sent ends, since the agent answers or one of the
reapers (run timeout, hook ceiling, stale lock, dead session) closes it.  Of
`Drain` and `DrainLoop`: the connect handler goes on to its drain, and the loop
goes on once a replay has settled.  Nothing is assumed of connects, kill
switches or spending.  `FairSpec` of the routine queue: weak fairness of each
hub's drain (its timer fires every second) and of runners and releases; nothing
is assumed of the due-scan, nor of faults, which the run excludes.  `FairSpec` of
the process manager: timers fire, and the two awaits with a time limit (the
sandbox check, the end of a CLI) end; nothing is assumed of CLIs or the hub.
`FairSpec` of one-time tasks: the sweep comes again every ten seconds, awaited
calls end, the run reaper comes again, a TEAB poll has a deadline; nothing is
assumed of replies, and `OnceFires` is conditional on the kill switch staying
off.  `FairSpec` of annotations: the hub's own steps, the sweeps, the grace
sweep and the ageing of a run go on; strong fairness only of `TakeSlot`, since
a session whose slot is taken by others is free again and again
(`DispatchSettles` of the pipeline).

## Proofs

`DispatchPipelineProofs` proves, for any sets of sessions, tokens and requests,
any queue depth and any setting of the environment flags:

* `TypeCorrect`: `Spec => []TypeOK`, which says beside the types that no session
  has more waiters than the queue's depth (`QueueBounded`);
* `AlwaysStructure`: the inductive invariant
  `Structure == Types /\ QueueOK /\ CtxOK /\ ListOK /\ LoopsOK` — no token
  waits twice and every waiting token has a context (`QueueOK`), a context is a
  waiting request of that session and token (`CtxOK`), and what the lists and
  the drain loops hold is parked, belongs to their session and is there once
  (`ListOK`, `LoopsOK`).  Without it `Types` is not inductive: the promoted
  request and the replayed request are read out of these structures;
* `NobodyStranded`: `~GatesThrow => (Spec => []NoStrandedWaiter)`.

`DispatchRunProofs` proves, with `~EarlyEvents /\ ~Hangs`:

* `OneRunAtATime`: `Spec => []AtMostOneInFlight`;
* `SlotNeverLeaks`: `Spec => []SlotHeldByRun`.

The invariant is `RunsOK`: the two properties together with facts about the
hook (`HookOK`: an armed hook is its session's run and that run is past
`open`; `ArmedOK`: a run past `open` still has its hook, so that the deletion of
"whatever hook the session has" deletes its own), about `closing`
(`ClosingOK`: a run being closed is sent and its hook is gone) and that nobody
hangs (`NobodyHangs`).  Neither property is inductive alone: exclusion needs to
know that the slot's token is that of the one run, and the slot's condition
needs exclusion.  The assumption is necessary: the table above shows what
happens without it.

`DispatchGuardProofs` builds on both.  In every environment it proves

* `CapRespected`: `Spec => []SendRespectsCap`, from `CapOK`: a request past the
  gates could pass them in this activation, and one that stands before open
  gates has been given the chance;
* `HaltRespected`: `Spec => []SendRespectsHalt`, from `HaltOK`, the same for the
  kill switch from the opening of the row on;
* `LedgerExact`: `DistinctTokens => (Spec => []ChargedExactly)`.  The assumption,
  that no two counted requests share a token, is needed: a retry that fails gives
  back the reservation that its twin, already sent, is charged for.  `LedgerOK`
  adds that a release is pending for a request only that has been given up, so
  that a drain never takes back what a sent prompt is charged for;
* `CeilingRespected`: with the same assumption, finitely many counted requests
  are sent or about to be sent, and no more than `LifetimeCap`.  `ChargedExactly`
  alone does not say so: `LedgerFits` bounds the ledger (a reservation grows it
  only where there is room), and since tokens are distinct the outstanding
  requests inject into it (`FS_Injection`);
* `NothingParkedIsLost`: `Spec => []ParkedOnce`, from `Structure` (what is in the
  buffer is parked, and there once) and `ParkedKept` (what is parked is there).

The first three share one description of what a step does to a request
(`GuardedStep`), proved action by action.  With `~EarlyEvents /\ ~Hangs` it proves

* `WaitersAgree`: `Spec => []WaitersHaveContext`, from `WaitKept`; the
  assumption is what keeps the stale-lock reaper from emptying a live queue;
* `QueueIsFifo`: `Spec => [][InTurn]_vars`, the order of promotion, which no
  invariant can state: a token joins at the tail while there is room, only the
  head's request goes back to the gates, and a waiting request stops waiting in
  no other way but to a retry of its own row;
* `NothingWedged`, with `~GatesThrow` too: every waiting request has a run in
  flight or a promoted activation in front of it, and every sent prompt has its
  hook armed or its end being stored (`SentWatched`, inductive because nobody
  else is in flight who could disarm the hook);
* `PipelineRefines`: `Spec => ImplementsOneRun`.  Under `RunsOK` the view of a
  request is a function of its place and its hook (`Stage`), and each action
  moves the stage of one request, or gives several up.

`RoutineQueueProofs` proves, for any sets of sessions, cycles, hubs and passes
and any cap, with failing statements and restarts:

* `TypeCorrect`: `Spec => []TypeOK`;
* `OneCycleAtATime`: `Spec => []OneCyclePerSession`;
* `QueueRefines`: `Spec => ImplementsOneRun`;
* `CapRespected`: `OneHub => (Spec => []GlobalCap)` and `OrderRespected`:
  `OneHub => (Spec => []NoOvertaking)`, where `OneHub` says that there is one hub
  process.

The first three follow from the inductive invariant `LockInv`.  That a session
has one running row is not inductive, because a claim's promotions become
running rows at its commit: `ClaimedOK` says that an uncommitted promotion is
pending for everybody else and alone in its session, `PickedOK` that a picked row
is locked by one claim, `WorkOK` that a cycle runs at one hub in one phase (so
that its release is the last thing that is done to it).  The cap needs `CapInv`:
running and promoted rows together with the slots left never exceed the cap.
The order needs `OrderInv`: what a claim has picked or promoted already respects
the order among the rows it leaves pending, and every row's rank is below the
next one to be given out.

What the queue promises where those conditions fail, and that it does not stop:

* `FleetCapRespected`: for finitely many hubs `Spec => []FleetCap`, and so they
  run at most `Cardinality(Hub) * Cap` cycles (`FleetFits`).  `FleetCap` is
  inductive beside `LockInv`: a claim begins with what the cap leaves over the
  rows that run at that moment, and a row it promotes takes one of its slots;
* `BacklogRespected`: at most one active cycle of a session per pass of the
  due-scan that can overlap, since a pass that has found the session idle counts
  as the cycle it may insert;
* `ClaimsNeverStuck`: while claims are under way one can take its next step, in
  every environment.  A waiting claim waits for another one, so if all waited
  they would be `Deadlocked`, which the database resolves; and a claim that
  picks finds the oldest of the rows it may take.  That such a row exists is a
  statement about the minimum of a set of ranks, obtained from the
  well-foundedness of the order instead of by induction (`WFMin`);
* `LocksNeverLeak` and `QueueNeverStuck`, for `Undisturbed` instances (no failing
  statement, no restart): a running row has a runner, and while a row is pending
  or running some hub has a step to take.

`ProcessManagerProofs` proves, for any runs, repositories and caps:

* `TypeCorrect`: `Spec => []TypeOK`, and `ProbeNeverPinned`:
  `Spec => []ProbeNotPinned`, from `ProbeInv`.  Neither is inductive: `Timed`
  says that a timer held in `restartTimer` is pending (or `stop()` would count one
  too many away), `Sound` that a half-open breaker has budget left, that a
  cooldown is an open breaker's and a survival timer a half-open one's, and
  that the probe is a run of its own repository;
* in every environment, from `SteadyInv` (a crashed run has a restart timer, one
  that is stopping a `stop()` that awaits it, one that runs a CLI that came up; an
  open breaker with budget left has its cooldown, a running probe its survival
  timer):
  `NothingForgotten`, `Spec => []Unforgotten`; for finitely many runs
  `FirstRunsFit`; and `ClosesOverHealth`, `Spec => ClosedByHealth`, with
  `HealthInv` (the probe of a survival timer, if it is live, is running with its
  CLI up) and the fact that no other step closes a half-open breaker;
* `TrialsAreBudgeted`, a property of steps, and `SpentIsForEver`: a failed trial
  costs one of `MaxProbes`, only a close gives one back, and a breaker whose
  trials are spent is open for ever;
* with `~BackoffEvents`: `NoBridgeOrphaned`, `RepoHasOneRun`,
  `HalfOpenIsOneTrial`, from `RunInv`:
  `Owns` (a bridge that is not stopped has a live run; a run has at most one
  restart timer, which is the one in `restartTimer`, and only while it is
  crashed), one live run per repository, and what a breaker's state says of the
  live runs.
  The condition is necessary: `SupervisorLostTimer` is what happens without it.

`OnceTaskProofs` proves, for any tasks, hubs, activations and limits:

* `TypeCorrect` and `OnceDispatchedOnce` (`Spec => []DispatchedOnce`) from
  `ClaimInv`: of the activations that hold a claim of a task at most one may still
  send or has sent (`MaySend`), and if there is one the row is disabled.  The
  rearm is the delicate step: its guard reads what any claim has written, so the
  invariant must exclude that it undoes another activation's claim;
* `HaltBurnsOnlyAgents`: whatever senders fire beside it, a task that is not the
  session sender's is never disabled by a refusal alone, from `BurnInv`, which is
  stated task by task; `HaltBurnsNone`
  (`"session" \notin Kinds => (Spec => []HaltNeverBurns)`) follows.  With the
  session sender `HaltNeverBurns` is false.

`AnnotationProofs` proves, for any number of activations, asks and faults:
`TypeCorrect`, `ResolvedByItsOwnAgent` (`OwnVerdict`), `EveryEndIsReported`
(`EndIsReported`) and `TheTurnKeepsItsRow` (`TurnKeepsRow`).  `Inv` adds to them `Answered` (an activation that closes with
a verdict has been told it by the agent of its own generation; a slot that the
resolved row names is not used again) and `Held` (from its claim to the end of
its turn an activation that is not `raced` has the row alone, and no write
without a generation is under way).  From it also follows `OneTurnAtATime`:
beside a turn that is not `raced` there is no other between its claim and its
end, a batch member that has no run row yet included.
`VerdictStands` is a property of steps: a resolved row is written only by the reset of a retry that was asked for it when it was
resolved.  It needs `ResendSees`, that a resend carries to its reset a status in
which the webhook may reopen the row.

`OrchestratorRunsProofs` proves, for any supervisors, run ids, jobs, cap and
faults:

* `TypeCorrect`: `Spec => []TypeOK`, whose last conjunct (a job past a decision
  holds what it decided on) makes it inductive;
* `OneRunOpen`: `Spec => []OneOpenRun`.  Only `Insert` and `Reopen` open a row
  (`Calm`), and both look for an open one under the same lock; no index of the
  table says so;
* `CapNeverOverrun`: for finitely many run ids, `Spec => []CapKept`;
* `StopIsFinal`: `~AllStopsFinal => (Spec => []StopHolds)`, from `Stopped`:
  while a stop is final there is a session, no row is open and every sweep and
  automatic launch stands where it has not listed anything, so that the next
  sweep lists nothing and the auto-launch finds the session.  With
  `AllStopsFinal` it is false;
* `NothingDropped`: `Spec => NeverDropped`, from `Known` (the orphan a sweep
  carries and the row a launch has made exist).

The leaves are small: all eight modules are also proved from nothing with every
time limit of the provers cut to a sixth (`tlapm --stretch 0.15`), so that a slow
machine proves them too.
Each step of `Next` has a lemma of its own; steps that promote, spawn or end a
run share lemmas about the helper that does it.  Model-checked only: all
liveness, which is outside the prover's reach (`DispatchSettles`, `CycleSettles`,
`BreakerHeals`, the two `RunSettles`, `OnceFires`, `PendingSettles`).  What is
proved of it is its safety part, that there is always somebody left to go on:
`NobodyStranded` and `NothingWedged` for the pipeline, `ClaimsNeverStuck`,
`LocksNeverLeak` and `QueueNeverStuck` for the routine queue, `NothingForgotten`
for the process manager.

## Not modelled

* Further hazards that `PROJECT.json` does not list because they belong to parts
  without a model: the late close of an agent's socket that removes the channel
  of its reconnect (`ws/agent.ts:1414`), the reconnect that removes the old entry
  before it registers the new one (`ws/agent.ts:438`), late answers in
  `ws/supervisor-registry.ts:330`, a hello that registers a socket closed meanwhile
  (`ws/agent.ts:904`), two first deltas of a turn (`ws/agent.ts:596`), ledger
  releases forgotten by a restart (`automation-controls.ts:449`), a callback
  attempt lost by a restart (`revanote/callback.ts:222`), a TEAB run in
  flight at a restart (`senders/teab.ts:111`), and an owner who enables a
  one-time task again between the claim and the rearm of a refused activation: the
  rearm is guarded by the reason of the claim and not by whose claim it is, so
  that it can undo the claim of a later activation which has been sent
  (`scheduled-tasks-dal.ts:461`).
* Of the hazards that `PROJECT.json` does list, those with a `note` and no
  property: the model reaches them where the note says so, and no property
  forbids what the code does there.
* Cron rules, catch-up and post-run chains; the other members of a batch, the
  batch sweep's failure budget, the merge gate, the push verification and the
  callback worker of Revanote.
* The macro cycle of the orchestrator, its waves, injects and run log.
* The supervisor's hub socket and the PTY backend.
* The Telegram bridge; the adapters that only build a request.
* The HTTP API, authentication, SQL statements of their own, and all clients:
  no protocol of their own, or out of TLC's reach.

## Plan

1. `SessionQueue`, `GraceBuffer`, `DispatchPipeline`, `OneRunPerSession` and
   their proofs; `RoutineQueue` and its proofs (done).
2. `ProcessManager`, `OnceTask`, `Annotation` and their proofs (done).
3. `OrchestratorRuns` and its proofs (done).  Left of the same rows: the orphans
   of other sessions, which `reserveSessionSlot()` restarts under a cap on their
   number, and the deletion of a session.
4. Proofs of the guards, the ledger, the grace buffer and the waiters of the
   pipeline, and of its refinement of `OneRunPerSession` (done).
5. `InjectLedger` (automation controls): reservations, rate window, resets,
   releases that fail; proof of the ceiling.
6. Agent channels: connect, replace, late close; streamed answers.
7. Spawn-on-error with the launch budget.
8. Catch-up, cron bounds and post-run chains; the callback worker and the merge
   gate; the Telegram turn lock and approvals.
9. Supervisor: hub client, PTY persistence.
