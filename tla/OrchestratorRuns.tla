-------------------------- MODULE OrchestratorRuns --------------------------
(***************************************************************************)
(* The run rows (session_runs) of a user's one orchestrator session: the   *)
(* sweep that resumes what a reconnect finds open                          *)
(* (src/hub/src/orchestrator/orphan-resume.ts), the launch that sweep,     *)
(* hello, machine and human callers share (auto-launch.ts), stops, reports *)
(* and closed sockets (src/hub/src/ws/agent.ts, db/supervisor-dal.ts).     *)
(*                                                                         *)
(* A job is one such call from await to await.  The runs of other sessions *)
(* are counted only, since they share a supervisor's cap.  The kill switch *)
(* and the owner's setting may flip at any time: a read of them returns    *)
(* either value.  Deleting the session and the supervisors' processes are  *)
(* left out.                                                               *)
(***************************************************************************)
EXTENDS Naturals, FiniteSets

CONSTANTS
    Supervisor,     \* the user's supervisors
    Run,            \* ids of run rows, each used once
    Job,            \* sweeps and launches under way at a time
    None,
    Cap,            \* runs a supervisor may have open
    MaxFaults,      \* statements that throw, restarts of the hub
    AllStopsFinal   \* whether a stop during a sweep or launch counts as final

ASSUME NoneAssumption == None \notin Run /\ None \notin Supervisor
ASSUME BoundAssumption == Cap \in Nat \ {0} /\ MaxFaults \in Nat
ASSUME StopAssumption == AllStopsFinal \in BOOLEAN

VARIABLES
    row,        \* the run rows
    lastStopped,    \* the row with the latest ended_at was stopped by the user
    session,    \* the orchestrator's sessions row exists
    online,     \* registered supervisors
    closing,    \* those whose socket has closed: rows finalized, still registered
    late,       \* those with an old, replaced socket still to close
    others,     \* open rows of other sessions
    job,
    final,      \* history: stopped by the user, and not asked for since
    faults

vars == <<row, lastStopped, session, online, closing, late, others, job, final, faults>>

(* stopped: by the user; reboot: by a sweep that replaces it; halted: a    *)
(* launch withdrawn by the kill switch; over: anything else.               *)
Reason == {"none", "stopped", "reboot", "halted", "over"}
Row == [state : {"unused", "open", "ended"}, sup : Supervisor \cup {None},
        reason : Reason, sent : BOOLEAN, reopened : BOOLEAN]
Unused == [state |-> "unused", sup |-> None, reason |-> "none",
           sent |-> FALSE, reopened |-> FALSE]

(* sweep: resumeOrphansInner; auto: maybeAutoLaunchOrchestrator; machine   *)
(* and human: other callers of launchOrchestrator.                         *)
Kind == {"sweep", "auto", "machine", "human"}
Sweeping == {"stale", "list", "guard", "finish", "end"}
Launching == {"launch", "target", "insert", "presend", "unwind"}
Reopening == {"reopen", "reopenLast"}
Place == {"idle", "auto"} \cup Sweeping \cup Launching \cup Reopening

(* hello: an auto-launch follows the sweep; todo: orphans it has yet to    *)
(* look at; cur: the one it looks at; new: the row of its launch.          *)
Activity == [kind : Kind, at : Place, sup : Supervisor \cup {None}, hello : BOOLEAN,
             todo : SUBSET Run, cur : Run \cup {None},
             target : Supervisor \cup {None}, new : Run \cup {None}]
Idle == [kind |-> "sweep", at |-> "idle", sup |-> None, hello |-> FALSE,
         todo |-> {}, cur |-> None, target |-> None, new |-> None]

-----------------------------------------------------------------------------
Open(r) == row[r].state = "open"
OpenOn(s) == {r \in Run : Open(r) /\ row[r].sup = s}
Load(s) == others[s] + Cardinality(OpenOn(s))

At(j, p) == job[j].at = p
Goto(j, p) == job' = [job EXCEPT ![j].at = p]
Machine(j) == job[j].kind # "human"

Ended(R, why) == [r \in Run |-> IF r \in R
                    THEN [row[r] EXCEPT !.state = "ended", !.reason = why, !.reopened = FALSE]
                    ELSE row[r]]
(* UPDATE ... SET ended_at = now(), exit_reason = why, of rows R.          *)
End(R, why) ==
    /\ row' = Ended(R, why)
    /\ lastStopped' = IF R = {} THEN lastStopped ELSE why = "stopped"

Env == <<session, online, closing, late, others, final, faults>>
Rows == <<row, lastStopped>>

(* The one type invariant; a job beyond a row's insert or end has that row.*)
TypeOK ==
    /\ row \in [Run -> Row]
    /\ lastStopped \in BOOLEAN /\ session \in BOOLEAN /\ final \in BOOLEAN
    /\ online \subseteq Supervisor /\ closing \subseteq online /\ late \subseteq Supervisor
    /\ others \in [Supervisor -> Nat]
    /\ job \in [Job -> Activity]
    /\ \A j \in Job : /\ At(j, "insert") => job[j].target # None
                      /\ job[j].at \in {"presend", "unwind"} => job[j].new # None
                      /\ job[j].at \in {"finish", "end"} => job[j].cur # None
    /\ faults \in 0..MaxFaults

Init ==
    /\ row = [r \in Run |-> Unused]
    /\ lastStopped = FALSE /\ session = FALSE
    /\ online = {} /\ closing = {} /\ late = {}
    /\ others = [s \in Supervisor |-> 0]
    /\ job = [j \in Job |-> Idle]
    /\ final = FALSE /\ faults = 0

-----------------------------------------------------------------------------
(* What follows an orphan: the next one, or the hello's auto-launch.       *)
Continued(x) ==
    LET rest == x.todo \ {x.cur} IN
    IF x.kind # "sweep" \/ (rest = {} /\ ~x.hello) THEN Idle
    ELSE [Idle EXCEPT !.at = IF rest # {} THEN "guard" ELSE "auto",
                      !.sup = x.sup, !.hello = x.hello, !.todo = rest]
Continue(j) == job' = [job EXCEPT ![j] = Continued(@)]

(* A launch that made no row: a sweep reopens its orphan.                  *)
(* Variant: the orphan stays consumed.                                     *)
RefusedOnly(x) == Continued(x)
Refused(x) == IF x.kind = "sweep" THEN [x EXCEPT !.at = "reopen", !.target = None, !.new = None]
              ELSE Idle
Refuse(j) == job' = [job EXCEPT ![j] = Refused(@)]

(* supervisor.hello: a registered supervisor's old socket is replaced, and *)
(* its close, now or later, leaves the registry alone.                     *)
Hello(j, s) ==
    /\ At(j, "idle")
    /\ online' = online \cup {s}
    /\ late' = IF s \in online \ closing THEN late \cup {s} ELSE late
    /\ closing' = closing \ {s}
    /\ job' = [job EXCEPT ![j] = [Idle EXCEPT !.at = "stale", !.sup = s, !.hello = TRUE]]
    /\ UNCHANGED <<Rows, session, others, final, faults>>

(* A browser's connect or the release of the kill switch.                  *)
StartSweep(j, s) ==
    /\ At(j, "idle") /\ s \in online
    /\ job' = [job EXCEPT ![j] = [Idle EXCEPT !.at = "stale", !.sup = s]]
    /\ UNCHANGED <<Rows, Env>>

(* Open rows may be older than a day.                                      *)
SweepStale(j) ==
    /\ At(j, "stale")
    /\ \E R \in SUBSET OpenOn(job[j].sup) : End(R, "over")
    /\ Goto(j, "list")
    /\ UNCHANGED Env

ListOrphans(j) ==
    /\ At(j, "list")
    /\ job' = [job EXCEPT ![j] = Continued([job[j] EXCEPT !.todo = OpenOn(job[j].sup)])]
    /\ UNCHANGED <<Rows, Env>>

(* lastUserStopped() of the next orphan; then isAutomationHalted(), which  *)
(* leaves it open for a later sweep.                                       *)
LookAtOrphan(j) ==
    /\ At(j, "guard")
    /\ \E r \in job[j].todo :
          LET x == [job[j] EXCEPT !.cur = r] IN
          \/ lastStopped /\ job' = [job EXCEPT ![j] = [x EXCEPT !.at = "finish"]]
          \/ ~lastStopped /\ job' = [job EXCEPT ![j] = [x EXCEPT !.at = "end"]]
          \/ ~lastStopped /\ job' = [job EXCEPT ![j] = Continued(x)]
    /\ UNCHANGED <<Rows, Env>>

FinishStopped(j) ==
    /\ At(j, "finish")
    /\ End({job[j].cur}, "stopped")
    /\ Continue(j)
    /\ UNCHANGED Env

(* By its id, open or not.                                                 *)
EndOrphan(j) ==
    /\ At(j, "end")
    /\ End({job[j].cur}, "reboot")
    /\ Goto(j, "launch")
    /\ UNCHANGED Env

(* maybeAutoLaunchOrchestrator(): the kill switch, the debounce and the    *)
(* setting may refuse.  Variant: it does not ask for an existing session.  *)
MayLaunchAgain == TRUE
MayLaunch == ~session
AutoLaunch(j) ==
    /\ At(j, "auto")
    /\ \/ Goto(j, "idle")
       \/ MayLaunch /\ job' = [job EXCEPT ![j].kind = "auto", ![j].at = "launch"]
    /\ UNCHANGED <<Rows, Env>>

(* The REST start, or launchSessionForUser(), which reads the session.     *)
Ask(j, k) ==
    /\ At(j, "idle")
    /\ k = "machine" => session
    /\ job' = [job EXCEPT ![j] = [Idle EXCEPT !.kind = k, !.at = "launch"]]
    /\ UNCHANGED <<Rows, Env>>

-----------------------------------------------------------------------------
(* launchOrchestrator(): a machine's launch may be halted, any may find    *)
(* it disabled or, unless a sweep launches, live already.                  *)
GiveUp(j) == At(j, "launch") /\ Continue(j)
CheckLaunch(j) ==
    /\ At(j, "launch")
    /\ \/ Machine(j) /\ Refuse(j)
       \/ GiveUp(j)
       \/ Goto(j, "target")
    /\ UNCHANGED <<Rows, Env>>

(* resolveTarget(): the sweep's own supervisor if it is online, else any;  *)
(* its roots may be missing.  Variant: nobody online goes unnoticed.       *)
TargetsOrNone(j) == IF online = {} THEN {None} ELSE online
Targets(j) == IF job[j].sup \in online THEN {job[j].sup} ELSE online
ResolveTarget(j) ==
    /\ At(j, "target")
    /\ \/ Refuse(j)
       \/ \E s \in Targets(j) : job' = [job EXCEPT ![j].target = s, ![j].at = "insert"]
    /\ UNCHANGED <<Rows, Env>>

(* The transaction under the advisory lock.  Variant: off by one.          *)
HasRoomAndOne(s) == Load(s) <= Cap
HasRoom(s) == Load(s) < Cap
Insert(j) ==
    /\ At(j, "insert")
    /\ session' = TRUE
    /\ \/ /\ \E r \in Run : Open(r)
          /\ Continue(j)
          /\ UNCHANGED <<Rows, final>>
       \/ /\ \A r \in Run : ~Open(r)
          /\ ~HasRoom(job[j].target)
          /\ Refuse(j)
          /\ UNCHANGED <<Rows, final>>
       \/ /\ \A r \in Run : ~Open(r)
          /\ HasRoom(job[j].target)
          /\ \E r \in Run :
                /\ row[r] = Unused
                /\ row' = [row EXCEPT ![r].state = "open", ![r].sup = job[j].target]
                /\ job' = [job EXCEPT ![j].new = r, ![j].at = "presend"]
          /\ final' = (final /\ job[j].kind \in {"sweep", "auto"})
          /\ UNCHANGED lastStopped
    /\ UNCHANGED <<online, closing, late, others, faults>>

(* haltBeforeMachineSend(), then without an await the send, which throws   *)
(* if the supervisor is not registered: the row stays open.                *)
Send(j) ==
    /\ At(j, "presend")
    /\ \/ Machine(j) /\ Goto(j, "unwind") /\ UNCHANGED row
       \/ /\ row' = [row EXCEPT ![job[j].new].sent = (@ \/ job[j].target \in online)]
          /\ Continue(j)
    /\ UNCHANGED <<lastStopped, Env>>

(* endRun(), by its id, open or not.                                       *)
Unwind(j) ==
    /\ At(j, "unwind")
    /\ End({job[j].new}, "halted")
    /\ Refuse(j)
    /\ UNCHANGED Env

(* reopenOrphanIfNoReplacement(), under the same advisory lock.            *)
(* Variant: without the NOT EXISTS.                                        *)
ReopenableBeside(r) == row[r].reason = "reboot"
Reopenable(r) == row[r].reason = "reboot" /\ \A q \in Run \ {r} : ~Open(q)
Reopen(j) ==
    /\ job[j].at \in Reopening
    /\ LET r == job[j].cur IN
       IF r # None /\ Reopenable(r)
       THEN /\ row' = [row EXCEPT ![r].state = "open", ![r].reason = "none",
                                  ![r].reopened = TRUE]
            /\ \/ UNCHANGED lastStopped
               \/ lastStopped' = \E q \in Run : row[q].reason = "stopped"
       ELSE UNCHANGED Rows
    /\ Continue(j)
    /\ UNCHANGED Env

-----------------------------------------------------------------------------
(* POST /:id/stop and the disconnect of the session.                       *)
(* No sweep has listed an orphan, no automatic launch is under way.        *)
Quiet == \A j \in Job : job[j].kind \in {"sweep", "auto"} =>
            job[j].at \in {"idle", "stale", "list", "auto"}
Stop(r) ==
    /\ Open(r)
    /\ End({r}, "stopped")
    /\ final' = (AllStopsFinal \/ Quiet)
    /\ UNCHANGED <<session, online, closing, late, others, job, faults>>

(* supervisor.state with a last_exit: endRun() by the run's id.            *)
Report(r) ==
    /\ row[r].sent /\ row[r].sup \in online
    /\ End({r}, "over")
    /\ UNCHANGED <<Env, job>>

(* session_inventory without the session; the reaper of unbacked runs.     *)
Inventory(s) ==
    /\ s \in online /\ OpenOn(s) # {}
    /\ End(OpenOn(s), "over")
    /\ UNCHANGED <<Env, job>>

(* handleAgentClose(): the rows, unless the statement fails, then the      *)
(* registry.  A replaced socket's close leaves the registry alone, but not *)
(* the rows.                                                               *)
FinalizeOpenRuns(s) ==
    \/ End(OpenOn(s), "over") /\ UNCHANGED faults
    \/ faults < MaxFaults /\ faults' = faults + 1 /\ UNCHANGED Rows

CloseSocket(s) ==
    /\ s \in online \ closing
    /\ FinalizeOpenRuns(s)
    /\ closing' = closing \cup {s}
    /\ UNCHANGED <<session, online, late, others, job, final>>

Unregister(s) ==
    /\ s \in closing
    /\ online' = online \ {s} /\ closing' = closing \ {s}
    /\ UNCHANGED <<Rows, session, late, others, job, final, faults>>

LateClose(s) ==
    /\ s \in late
    /\ FinalizeOpenRuns(s)
    /\ late' = late \ {s}
    /\ UNCHANGED <<session, online, closing, others, job, final>>

(* Runs of other sessions: reserveSessionSlot() and their end.             *)
OtherStarts(s) ==
    /\ HasRoom(s)
    /\ others' = [others EXCEPT ![s] = @ + 1]
    /\ UNCHANGED <<Rows, session, online, closing, late, job, final, faults>>

OtherEnds(s) ==
    /\ others[s] > 0
    /\ others' = [others EXCEPT ![s] = @ - 1]
    /\ UNCHANGED <<Rows, session, online, closing, late, job, final, faults>>

(* A statement throws.  launchOrchestrator() reports an internal error; a  *)
(* failed reopen is tried once more; a sweep is given up.                  *)
Throw(j) ==
    /\ faults < MaxFaults /\ ~At(j, "idle")
    /\ faults' = faults + 1
    /\ \/ job[j].at \in Launching /\ Refuse(j)
       \/ At(j, "reopen") /\ Goto(j, "reopenLast")
       \/ At(j, "reopenLast") /\ Continue(j)
       \/ At(j, "auto") /\ Goto(j, "idle")
       \/ job[j].at \in Sweeping /\ job' = [job EXCEPT ![j] = Continued([job[j] EXCEPT !.todo = {}])]
    /\ UNCHANGED <<Rows, session, online, closing, late, others, final>>

(* The hub restarts.                                                       *)
Crash ==
    /\ faults < MaxFaults
    /\ faults' = faults + 1
    /\ online' = {} /\ closing' = {} /\ late' = {}
    /\ job' = [j \in Job |-> Idle]
    /\ UNCHANGED <<Rows, session, others, final>>

Step(j) ==
    \/ \E s \in Supervisor : Hello(j, s) \/ StartSweep(j, s)
    \/ \E k \in {"machine", "human"} : Ask(j, k)
    \/ SweepStale(j) \/ ListOrphans(j) \/ LookAtOrphan(j) \/ FinishStopped(j)
    \/ EndOrphan(j) \/ AutoLaunch(j) \/ CheckLaunch(j) \/ ResolveTarget(j) \/ Insert(j)
    \/ Send(j) \/ Unwind(j) \/ Reopen(j) \/ Throw(j)

Next ==
    \/ \E j \in Job : Step(j)
    \/ \E r \in Run : Stop(r) \/ Report(r)
    \/ \E s \in Supervisor :
          \/ Inventory(s) \/ CloseSocket(s) \/ Unregister(s) \/ LateClose(s)
          \/ OtherStarts(s) \/ OtherEnds(s)
    \/ Crash

Spec == Init /\ [][Next]_vars

-----------------------------------------------------------------------------
(* However sweeps, launches and reopened orphans overlap, the orchestrator *)
(* has at most one open run: two would be two agents with full power on    *)
(* one session, and the second's key revokes the first's.                  *)
OneOpenRun == \A r, q \in Run : Open(r) /\ Open(q) => r = q

(* A sweep that has ended its orphan, and will reopen it if its launch     *)
(* makes no row.                                                           *)
Carried(j) ==
    /\ job[j].kind = "sweep" /\ job[j].cur # None
    /\ job[j].at \in (Launching \ {"presend"}) \cup Reopening
    /\ row[job[j].cur].reason = "reboot"
Covered == (\E r \in Run : Open(r)) \/ (\E j \in Job : Carried(j))

(* The user, the supervisor or the age limit ends a run.                   *)
EndedOutside == \E r \in Run : /\ row'[r] # row[r]
                              /\ row'[r].reason \in {"stopped", "over"}
(* The kill switch withdraws a launch that has no orphan to give back.     *)
Withdrawn == \E j \in Job : Unwind(j) /\ ~Carried(j)
Disabled == \E j \in Job : GiveUp(j)
(* A restart between the end of an orphan and its launch, or two failures  *)
(* of the reopen: the sweep's work is lost.                                *)
Lost == Crash \/ \E j \in Job : At(j, "reopenLast") /\ Throw(j)

(* The hub itself never loses the orchestrator: once it has a run, it has  *)
(* an open one or a sweep that is about to restore one, until somebody     *)
(* ends it, it is disabled or a withdrawn launch was all there was, also   *)
(* if the kill switch, the cap or a failing statement stops the relaunch.  *)
NeverDropped ==
    [][Covered => Covered' \/ EndedOutside \/ Withdrawn \/ Lost \/ Disabled]_vars

(* What the user stopped while no sweep had listed it stays stopped until  *)
(* somebody asks for the orchestrator: no hello, browser connect, release  *)
(* or auto-launch starts it again.                                         *)
StopHolds == final => \A r \in Run : ~Open(r)

(* A supervisor's open runs exceed its cap by one at most, and only while  *)
(* one of them is an orphan that was reopened without a look at the cap.   *)
CapKept ==
    \A s \in Supervisor :
       \/ Load(s) <= Cap
       \/ Load(s) = Cap + 1 /\ \E r \in OpenOn(s) : row[r].reopened
=============================================================================
