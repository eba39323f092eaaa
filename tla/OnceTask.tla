------------------------------ MODULE OnceTask ------------------------------
(***************************************************************************)
(* One-time scheduled tasks: the claim before the dispatch, the kill       *)
(* switch that gives a claim back, and the run row that records the        *)
(* dispatch, from the fire to the finalizers that compete for it           *)
(* (src/hub/src/scheduler/dispatcher.ts, once-due-sweep.ts, run-reaper.ts, *)
(* senders/*.ts, src/hub/src/db/scheduled-tasks-dal.ts).                   *)
(*                                                                         *)
(* An activation is a call of fire() or runNow() in some hub process.  A   *)
(* sweep, a timer and a boot all come to fire(), which reads the row       *)
(* itself, so one action begins them all; the task is due.  A slot without *)
(* a run row is used again.  A task has one target; edits of a task by its *)
(* owner are left out.                                                     *)
(***************************************************************************)
EXTENDS Naturals, FiniteSets

CONSTANTS
    Task,
    Kinds,          \* the senders in use: work, session, supervisor, teab
    Slot,           \* activations
    Hub,
    HubOf,          \* the hub process of a slot
    None,
    Limit           \* how often each of the events below may happen

ASSUME KindAssumption == Kinds \subseteq {"work", "session", "supervisor", "teab"}
ASSUME SlotAssumption == HubOf \in [Slot -> Hub] /\ None \notin Task

(* The kill switch is engaged, a hub restarts, the owner runs the task now *)
(* or cancels a run, a statement fails.                                    *)
Event == {"engage", "restart", "manual", "cancel", "failure"}
ASSUME LimitAssumption == Limit \in [Event -> Nat]

VARIABLES
    row,            \* the scheduled_tasks row of a task
    act,            \* the activation of a slot, with its scheduled_task_runs row
    halted,         \* the kill switch
    used            \* how often an event has happened

vars == <<row, act, halted, used>>

(* claimed: payload.completed_reason is once_completed.                    *)
Row == [kind : Kinds, enabled : BOOLEAN, claimed : BOOLEAN]

(* Where an activation stands; over: nothing of it runs any more; lost: it *)
(* ended after its claim and before it had a run row.                      *)
Place == {"idle", "claiming", "firing", "rearming", "gating", "marking",
          "sending", "restoring", "refusing", "waiting", "over", "lost"}
Active == {"pending", "in_flight"}
Status == Active \cup {"none", "halted", "skipped", "failed", "success", "cancelled"}

(* claim: this activation won the claim; kept: a failed rearm left the     *)
(* task claimed.                                                           *)
Activation == [at : Place, task : Task \cup {None}, claim : BOOLEAN,
               status : Status, sent : BOOLEAN, kept : BOOLEAN]
Unused == [at |-> "idle", task |-> None, claim |-> FALSE,
           status |-> "none", sent |-> FALSE, kept |-> FALSE]

(* The one type invariant: what a slot holds fits the place where its      *)
(* activation stands.                                                      *)
TypeOK ==
    /\ row \in [Task -> Row]
    /\ act \in [Slot -> Activation]
    /\ halted \in BOOLEAN
    /\ used \in [Event -> Nat]
    /\ \A f \in Slot :
          /\ act[f].task = None <=> act[f].at = "idle"
          /\ act[f].claim => act[f].at \notin {"idle", "claiming"}
          /\ act[f].status # "none" <=>
                act[f].at \in {"marking", "sending", "restoring", "refusing",
                               "waiting", "over"}
          /\ act[f].sent => act[f].at \in {"waiting", "over"}

Init ==
    /\ row \in [Task -> [kind : Kinds, enabled : {TRUE}, claimed : {FALSE}]]
    /\ act = [f \in Slot |-> Unused]
    /\ halted = FALSE
    /\ used = [e \in Event |-> 0]

Spend(e) == used[e] < Limit[e] /\ used' = [used EXCEPT ![e] = @ + 1]
Kind(f) == row[act[f].task].kind
HasRun(f) == act[f].status # "none"

-----------------------------------------------------------------------------
(* Run rows.                                                               *)

(* insertRunV2() with a terminal status.                                   *)
Recorded(x, s) == [x EXCEPT !.status = s, !.at = "over"]

(* finalizeRun(): unconditional, and with only_if_active (variant: which   *)
(* misses the rows that are pending).                                      *)
Finalized(x, s) == [x EXCEPT !.status = s]
FinalizedIfInFlight(x, s) == IF x.status = "in_flight" THEN Finalized(x, s) ELSE x
FinalizedIfActive(x, s) == IF x.status \in Active THEN Finalized(x, s) ELSE x

(* The finalizer of a sender: of work, of the TEAB poll and of an agent's  *)
(* reply with only_if_active; every other one is unconditional.            *)
Guarded(f, s) ==
    \/ Kind(f) = "work"
    \/ Kind(f) = "teab" /\ act[f].at = "waiting"
    \/ Kind(f) = "session" /\ s = "success"
Ended(f, s) ==
    [(IF Guarded(f, s) THEN FinalizedIfActive(act[f], s) ELSE Finalized(act[f], s))
        EXCEPT !.at = "over"]

-----------------------------------------------------------------------------
(* fire(): the row is read enabled and the kill switch is off, or nothing  *)
(* happens.                                                                *)
Begin(f, t) ==
    /\ act[f].at = "idle"
    /\ row[t].enabled /\ ~halted
    /\ act' = [act EXCEPT ![f].at = "claiming", ![f].task = t]
    /\ UNCHANGED <<row, halted, used>>

(* claimOnceTask(): one conditional UPDATE (variants: without its          *)
(* condition; only the payload is written).  A lost or a failed claim ends *)
(* the activation.                                                         *)
ClaimableAnyway(t) == TRUE
Claimable(t) == row[t].enabled
TakenHalf(r) == [r EXCEPT !.claimed = TRUE]
Taken(r) == [r EXCEPT !.enabled = FALSE, !.claimed = TRUE]

Claim(f) ==
    /\ act[f].at = "claiming"
    /\ LET t == act[f].task
       IN IF Claimable(t)
          THEN /\ row' = [row EXCEPT ![t] = Taken(@)]
               /\ act' = [act EXCEPT ![f].at = "firing", ![f].claim = TRUE]
          ELSE act' = [act EXCEPT ![f] = Unused] /\ UNCHANGED row
    /\ UNCHANGED <<halted, used>>

ClaimFails(f) ==
    /\ act[f].at = "claiming"
    /\ Spend("failure")
    /\ act' = [act EXCEPT ![f] = Unused]
    /\ UNCHANGED <<row, halted>>

(* runNow() with isManual: no claim, and a disabled task will do.          *)
RunNow(f, t) ==
    /\ act[f].at = "idle"
    /\ Spend("manual")
    /\ act' = [act EXCEPT ![f].at = "firing", ![f].task = t]
    /\ UNCHANGED <<row, halted>>

(* fireTask(): the kill switch again.  Only a claim is to be restored.     *)
MayRearm(f) == act[f].claim

HaltCheck(f) ==
    /\ act[f].at = "firing"
    /\ act' = [act EXCEPT ![f] =
                  IF ~halted THEN [@ EXCEPT !.at = "gating"]
                  ELSE IF MayRearm(f) THEN [@ EXCEPT !.at = "rearming"]
                  ELSE Recorded(@, "halted")]
    /\ UNCHANGED <<row, halted, used>>

(* rearmOnceTask(): guarded by what claimOnceTask() has written.           *)
Rearmed(r) == [r EXCEPT !.enabled = TRUE, !.claimed = FALSE]
Rearmable(t) == ~row[t].enabled /\ row[t].claimed

RearmOnce(t) ==
    Rearmable(t) /\ row' = [row EXCEPT ![t] = Rearmed(@)] /\ UNCHANGED used
RearmFails(t) ==
    (IF Rearmable(t) THEN Spend("failure") ELSE UNCHANGED used) /\ UNCHANGED row

Rearm(f) ==
    /\ act[f].at = "rearming"
    /\ \/ /\ RearmOnce(act[f].task)
          /\ act' = [act EXCEPT ![f] = Unused]
       \/ /\ RearmFails(act[f].task)
          /\ act' = [act EXCEPT ![f] = [Recorded(@, "halted") EXCEPT !.kept = TRUE]]
    /\ UNCHANGED halted

(* The threshold and cost-cap gates and the targets: a recorded skip, or   *)
(* the pending run and its detached sender.  A throw ends fire().          *)
(* (Variant: the sender is started without the row it is to finalize.)     *)
GateUnrecorded(f) ==
    /\ act[f].at = "gating"
    /\ \/ act' = [act EXCEPT ![f] = Recorded(@, "skipped")]
       \/ act' = [act EXCEPT ![f].at = IF Kind(f) = "teab" THEN "marking" ELSE "sending"]
    /\ UNCHANGED <<row, halted, used>>

Gate(f) ==
    /\ act[f].at = "gating"
    /\ \/ act' = [act EXCEPT ![f] = Recorded(@, "skipped")]
       \/ act' = [act EXCEPT ![f].status = "pending",
                             ![f].at = IF Kind(f) = "teab" THEN "marking" ELSE "sending"]
    /\ UNCHANGED <<row, halted, used>>

GateThrows(f) ==
    /\ act[f].at = "gating"
    /\ Spend("failure")
    /\ act' = [act EXCEPT ![f] = IF @.claim THEN [@ EXCEPT !.at = "lost"] ELSE Unused]
    /\ UNCHANGED <<row, halted>>

-----------------------------------------------------------------------------
(* The senders.                                                            *)

(* sendTeabTask() marks its run in flight, whatever its status is by now;  *)
(* a failing statement is swallowed.                                       *)
Mark(f) ==
    /\ act[f].at = "marking"
    /\ \/ /\ act' = [act EXCEPT ![f].status = "in_flight", ![f].at = "sending"]
          /\ UNCHANGED used
       \/ /\ Spend("failure")
          /\ act' = [act EXCEPT ![f].at = "sending"]
    /\ UNCHANGED <<row, halted>>

(* No target, no command, a gate of the pipeline, a failing send.          *)
SendFails(f) ==
    /\ act[f].at \in {"marking", "sending"}
    /\ \E s \in {"failed", "skipped"} : act' = [act EXCEPT ![f] = Ended(f, s)]
    /\ UNCHANGED <<row, halted, used>>

(* A sender that throws: fireTask() ends its run.                          *)
SendThrows(f) ==
    /\ act[f].at \in {"marking", "sending"}
    /\ Spend("failure")
    /\ act' = [act EXCEPT ![f] = [Finalized(@, "failed") EXCEPT !.at = "over"]]
    /\ UNCHANGED <<row, halted>>

(* The last look at the kill switch and the send are one step.  Work ends  *)
(* with its acceptance by the pipeline.                                    *)
Send(f) ==
    /\ act[f].at = "sending"
    /\ ~halted
    /\ act' = [act EXCEPT ![f] =
                  [(IF Kind(f) = "work" THEN Ended(f, "success")
                    ELSE [@ EXCEPT !.at = "waiting"]) EXCEPT !.sent = TRUE]]
    /\ UNCHANGED <<row, halted, used>>

(* A refusal: every sender but the agent's restores the claim first.       *)
RestoresNone(f) == FALSE
Restores(f) == Kind(f) # "session" /\ MayRearm(f)

SendRefused(f) ==
    /\ act[f].at = "sending"
    /\ halted
    /\ act' = [act EXCEPT ![f] =
                  IF Restores(f) THEN [@ EXCEPT !.at = "restoring"] ELSE Ended(f, "halted")]
    /\ UNCHANGED <<row, halted, used>>

Restore(f) ==
    /\ act[f].at = "restoring"
    /\ \/ /\ RearmOnce(act[f].task)
          /\ act' = [act EXCEPT ![f].at = "refusing"]
       \/ /\ RearmFails(act[f].task)
          /\ act' = [act EXCEPT ![f].at = "refusing", ![f].kept = TRUE]
    /\ UNCHANGED halted

Refuse(f) ==
    /\ act[f].at = "refusing"
    /\ act' = [act EXCEPT ![f] = Ended(f, "halted")]
    /\ UNCHANGED <<row, halted, used>>

(* The reply, run_finished or the poll's end, or its deadline.             *)
Reply(f) ==
    /\ act[f].at = "waiting"
    /\ \E s \in {"success", "failed"} : act' = [act EXCEPT ![f] = Ended(f, s)]
    /\ UNCHANGED <<row, halted, used>>

-----------------------------------------------------------------------------
(* The others.                                                             *)

(* reapStaleRuns(): a pending row that is hours old: it waits for a reply, *)
(* for its turn in a session's queue, or its hub is gone.  The sender of a *)
(* reaped run is still there.                                              *)
Reap(f) ==
    /\ act[f].status = "pending"
    /\ act[f].at \in {"waiting", "over"} \/ (act[f].at = "sending" /\ Kind(f) = "session")
    /\ act' = [act EXCEPT ![f] = FinalizedIfActive(@, "failed")]
    /\ UNCHANGED <<row, halted, used>>

(* cancelRun(): of any run, also one that has ended.                       *)
Cancel(f) ==
    /\ HasRun(f)
    /\ Spend("cancel")
    /\ act' = [act EXCEPT ![f] = Finalized(@, "cancelled")]
    /\ UNCHANGED <<row, halted>>

Engage == ~halted /\ Spend("engage") /\ halted' = TRUE /\ UNCHANGED <<row, act>>

Release == halted /\ halted' = FALSE /\ UNCHANGED <<row, act, used>>

(* A restart: the hub's activations end where they are.                    *)
Dropped(x) ==
    IF x.status # "none" THEN [x EXCEPT !.at = "over"]
    ELSE IF x.claim THEN [x EXCEPT !.at = "lost"]
    ELSE Unused

Crash(h) ==
    /\ Spend("restart")
    /\ act' = [f \in Slot |-> IF HubOf[f] = h THEN Dropped(act[f]) ELSE act[f]]
    /\ UNCHANGED <<row, halted>>

Step(f) ==
    \/ Claim(f) \/ ClaimFails(f) \/ HaltCheck(f) \/ Rearm(f) \/ Gate(f) \/ GateThrows(f)
    \/ Mark(f) \/ SendFails(f) \/ SendThrows(f) \/ Send(f) \/ SendRefused(f) \/ Restore(f) \/ Refuse(f)

Next ==
    \/ \E f \in Slot : \/ \E t \in Task : Begin(f, t) \/ RunNow(f, t)
                       \/ Step(f) \/ Reply(f) \/ Reap(f) \/ Cancel(f)
    \/ Engage \/ Release
    \/ \E h \in Hub : Crash(h)

Spec == Init /\ [][Next]_vars

(* The sweep comes again every ten seconds, awaited calls end, the reaper  *)
(* comes again, and a TEAB poll has a deadline.                            *)
Fairness ==
    /\ \A t \in Task : WF_vars(\E f \in Slot : Begin(f, t))
    /\ \A f \in Slot : /\ WF_vars(Step(f)) /\ WF_vars(Reap(f))
                       /\ WF_vars(act[f].task # None /\ Kind(f) = "teab" /\ Reply(f))
FairSpec == Spec /\ Fairness

-----------------------------------------------------------------------------
(* One claim is dispatched once: of the activations that won a claim of a  *)
(* task at most one has sent anything, over sweeps and timers of several   *)
(* hubs, refusals that give the claim back, Run Now and restarts.          *)
DispatchedOnce ==
    \A f, g \in Slot : act[f].claim /\ act[f].sent /\ act[g].claim /\ act[g].sent
                       /\ act[f].task = act[g].task => f = g

(* A claim is still under way.                                             *)
Claims(t) == {f \in Slot : act[f].claim /\ act[f].task = t}
UnderWay(f) == act[f].at \notin {"over", "lost"} /\ ~act[f].sent

(* The kill switch burns no task: one that is disabled and that nobody is  *)
(* working on has had a claim that ended otherwise than by a refusal, was  *)
(* cut short by a restart or a failing statement, or whose rearm failed.   *)
HaltNeverBurns ==
    \A t \in Task : ~row[t].enabled =>
        \E f \in Claims(t) : \/ UnderWay(f)
                             \/ act[f].sent \/ act[f].kept \/ act[f].at = "lost"
                             \/ act[f].status # "halted"

(* Once the kill switch stays off, an enabled task is claimed for good.    *)
OnceFires ==
    <>[]~halted => \A t \in Task : row[t].enabled ~> []~row[t].enabled

(* No run row stays pending: its sender, the reaper or, after a restart,   *)
(* the reaper alone ends it.                                               *)
RunSettles == \A f \in Slot : act[f].status = "pending" ~> act[f].status # "pending"
=============================================================================
