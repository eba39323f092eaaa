----------------------------- MODULE Annotation -----------------------------
(***************************************************************************)
(* A Revanote annotation: one row that is sent, resent, retried, swept,    *)
(* parked, batched and finalized by concurrent activations of one hub      *)
(* (src/hub/src/revanote/dispatcher.ts, batch-dispatch.ts, reopen.ts,      *)
(* run-lifecycle.ts, src/hub/src/db/revanote-dal.ts and the two routes     *)
(* under src/hub/src/api that start them).                                 *)
(*                                                                         *)
(* An activation is one dispatch of the row, alone or as a member of its   *)
(* batch, and owns at most one annotation_runs row, whose id is the        *)
(* generation the prompt states and the reply echoes.  A slot is used      *)
(* again once nothing of its activation can matter.  The pipeline is seen  *)
(* from the row: a gate may block, a session may be busy with others.      *)
(***************************************************************************)
EXTENDS Naturals

CONSTANTS
    Attempt,        \* the activations
    None,
    MaxAsks,        \* resends and retries
    MaxFaults       \* restarts, lost channels, statements that fail

ASSUME AttemptAssumption == None \notin Attempt
ASSUME BoundAssumption == MaxAsks \in Nat /\ MaxFaults \in Nat

VARIABLES
    batched,        \* the payload has a batch_id
    row,            \* the annotations row
    act,            \* what a slot's activation does, and its annotation_runs row
    latest,         \* the activation whose run row was inserted last
    parked,         \* tokens in the grace buffer: the row's and its batch's
    replays,        \* tokens a reconnect has drained and still replays
    online,         \* the target session has a channel
    owed,           \* the activation that must still report the row's end
    raced,          \* turns that a write without a generation may undo (history)
    asks, faults

vars == <<batched, row, act, latest, parked, replays, online, owed, raced, asks, faults>>

Ended == {"resolved", "failed", "failed_offline"}
RowStatus == {"pending", "dispatched"} \cup Ended
Row == [status : RowStatus, offline : BOOLEAN, gen : Attempt \cup {None}]

(* single: dispatchAnnotationRow(); forced: the retry route until its      *)
(* dispatch; batch: a turn of the row's batch.                             *)
Kind == {"single", "forced", "batch"}
Token == {"single", "batch"}
Reopening == {"asked", "resetting", "superseding"}
Armed == {"armed", "inserting", "message", "sent"}
Ending == {"failing", "closing", "reporting"}
Place == {"idle", "loading", "gates", "waiting", "slot", "parking"}
            \cup Reopening \cup Armed \cup Ending
(* swept: the sweep waits for this dispatch; run: closed also if there is  *)
(* none, aged if in flight past its ceiling; agent: what the prompted      *)
(* agent has said; verdict: what a finalize closes with.                   *)
Activation == [at : Place, kind : Kind, swept : BOOLEAN, seen : RowStatus,
               run : {"closed", "in_flight", "aged"},
               agent : {"none", "asked", "resolved", "unresolved"},
               verdict : {"resolved", "unresolved"}]
Unused == [at |-> "idle", kind |-> "single", swept |-> FALSE, seen |-> "pending",
           run |-> "closed", agent |-> "none", verdict |-> "unresolved"]

(* The one type invariant; the sweep never waits for a dispatch that has   *)
(* returned: it is queued, sent or over.                                   *)
TypeOK ==
    /\ batched \in BOOLEAN /\ online \in BOOLEAN
    /\ row \in Row
    /\ act \in [Attempt -> Activation]
    /\ \A a \in Attempt : act[a].swept =>
          act[a].at \notin Reopening \cup {"idle", "waiting", "sent", "closing"}
    /\ latest \in Attempt \cup {None}
    /\ parked \subseteq Token /\ replays \subseteq Token
    /\ owed \in Attempt \cup {None} /\ raced \subseteq Attempt
    /\ asks \in Nat /\ faults \in Nat

Init ==
    /\ batched \in BOOLEAN
    /\ row = [status |-> "pending", offline |-> FALSE, gen |-> None]
    /\ act = [a \in Attempt |-> Unused]
    /\ latest = None /\ owed = None
    /\ parked = {} /\ replays = {} /\ raced = {}
    /\ online \in BOOLEAN
    /\ asks = 0 /\ faults = 0

-----------------------------------------------------------------------------
At(a, p) == act[a].at = p
IsBatch(a) == act[a].kind = "batch"
TokenOf(a) == IF IsBatch(a) THEN "batch" ELSE "single"
New(k, p) == [Unused EXCEPT !.at = p, !.kind = k]

(* Nothing is left of the activation but its run row and its prompt.       *)
Idle(x) == [x EXCEPT !.at = "idle", !.kind = "single", !.swept = FALSE,
                     !.seen = "pending", !.verdict = "unresolved"]
Goto(a, p) == act' = [act EXCEPT ![a].at = p]
Stop(a) == act' = [act EXCEPT ![a] = Idle(@)]

(* A run row that counts as live, a prompt that may be answered and the    *)
(* generation of the row are kept.                                         *)
LiveRun(a) == act[a].run = "in_flight"
Free(a) ==
    /\ At(a, "idle")
    /\ ~LiveRun(a) /\ act[a].agent # "asked"
    /\ row.gen = a => row.status \notin {"dispatched", "resolved"}

(* isTokenLiveAnywhere(): an armed hook or a waiter holds the row's token. *)
(* Variant: it looks at the waiters only.                                  *)
TokenWaits == \E a \in Attempt : ~IsBatch(a) /\ At(a, "waiting")
TokenLive == \E a \in Attempt : ~IsBatch(a) /\ act[a].at \in Armed \cup {"waiting"}
(* isAnnotationLiveInBatch(): reserved with the claim, dropped with it.    *)
BatchLive == \E a \in Attempt : IsBatch(a) /\
                act[a].at \in {"inserting", "message", "sent", "failing"}

(* The conditional updates of the row.                                     *)
Pending == row.status = "pending"
Dispatched == row.status = "dispatched"
EndRow(a, s) == row' = [row EXCEPT !.status = s] /\ owed' = a
(* The generation CAS of updateAnnotationStatus (variant: without it).     *)
OwnsAnyway(a) == a \in Attempt /\ Dispatched
OwnsRow(a) == Dispatched /\ row.gen = a

Rest == <<batched, online, raced, asks, faults>>
Grace == <<parked, replays>>

-----------------------------------------------------------------------------
(* dispatchAnnotationRow() up to its gates: a batched row is left to the   *)
(* batch sweep.                                                            *)
Dispatch(x) == IF batched /\ x.kind = "single" THEN Idle(x)
               ELSE [Idle(x) EXCEPT !.at = "gates", !.swept = x.swept]

(* The webhook's upsert, which reads the row: a row it may reopen is asked *)
(* about, any other goes to its dispatch as it is.  The retry route asks   *)
(* about every row.                                                        *)
Redeliver(a) ==
    /\ asks < MaxAsks /\ Free(a)
    /\ act' = [act EXCEPT ![a] =
            IF row.status \in {"dispatched", "failed", "failed_offline"}
            THEN [New("single", "asked") EXCEPT !.seen = row.status]
            ELSE Dispatch(Unused)]
    /\ asks' = asks + 1
    /\ UNCHANGED <<batched, online, faults, raced, row, latest, owed, Grace>>

Retry(a) ==
    /\ asks < MaxAsks /\ Free(a)
    /\ act' = [act EXCEPT ![a] = [New("forced", "asked") EXCEPT !.seen = row.status]]
    /\ asks' = asks + 1
    /\ UNCHANGED <<batched, online, faults, raced, row, latest, owed, Grace>>

(* A refused retry ends; a resend that is not reopened is dispatched.      *)
Refused(x) == IF x.kind = "forced" THEN Idle(x) ELSE Dispatch(x)
Reopened(x) == IF x.kind = "forced" THEN [x EXCEPT !.at = "loading"] ELSE Dispatch(x)

(* reopenAnnotationForRedispatch(): a dispatched row is refused that is    *)
(* live in memory, or whose latest run is in flight within its ceiling.    *)
Live == TokenLive \/ BatchLive \/ (latest # None /\ LiveRun(latest))
Check(a) ==
    /\ At(a, "asked")
    /\ act' = [act EXCEPT ![a] = IF @.seen = "dispatched" /\ Live THEN Refused(@)
                                 ELSE [@ EXCEPT !.at = "resetting"]]
    /\ UNCHANGED <<row, latest, owed, Grace, Rest>>

(* resetAnnotationToPendingIfStatus(): on the status that was seen.        *)
Reset(a) ==
    /\ At(a, "resetting")
    /\ IF row.status = act[a].seen
       THEN /\ row' = [row EXCEPT !.status = "pending", !.offline = FALSE]
            /\ owed' = None
            /\ act' = [act EXCEPT ![a] = IF @.seen = "dispatched"
                                         THEN [@ EXCEPT !.at = "superseding"]
                                         ELSE Reopened(@)]
       ELSE /\ act' = [act EXCEPT ![a] = Refused(@)]
            /\ UNCHANGED <<row, owed>>
    /\ UNCHANGED <<latest, Grace, Rest>>

(* cancelInFlightRunsForAnnotation().                                      *)
Cancelled(x) == [x EXCEPT !.run = "closed"]
Supersede(a) ==
    /\ At(a, "superseding")
    /\ act' = [b \in Attempt |-> IF b = a THEN Reopened(act[b]) ELSE Cancelled(act[b])]
    /\ UNCHANGED <<row, latest, owed, Grace, Rest>>

-----------------------------------------------------------------------------
(* dispatchPendingAnnotation() of a retry, a replay and the sweep.         *)
Load(a) ==
    /\ At(a, "loading")
    /\ act' = [act EXCEPT ![a] = IF row.status \in {"pending", "failed_offline"}
                                 THEN Dispatch(@) ELSE Idle(@)]
    /\ UNCHANGED <<row, latest, owed, Grace, Rest>>

(* failAnnotationIfPending() and its callback: no target, a gate that      *)
(* blocks, a full queue, a guard or the final halt check that refuses.     *)
(* The run row of a halted activation stays open.                          *)
Reject(a) ==
    /\ act[a].at \in {"gates", "slot", "armed"}
    /\ IF Pending THEN EndRow(a, "failed") /\ Goto(a, "reporting")
       ELSE Stop(a) /\ UNCHANGED <<row, owed>>
    /\ UNCHANGED <<latest, Grace, Rest>>

(* The session's slot is claimed, or the activation waits for it; a twin   *)
(* of a token that is in flight or waits is dropped.                       *)
TakeSlot(a) ==
    /\ At(a, "gates")
    /\ Goto(a, "slot")
    /\ UNCHANGED <<row, latest, owed, Grace, Rest>>
(* Variant: the sweep still waits for it.                                  *)
QueuedSwept(x) == [x EXCEPT !.at = "waiting"]
Queued(x) == [x EXCEPT !.at = "waiting", !.swept = FALSE]
Queue(a) ==
    /\ At(a, "gates")
    /\ act' = [act EXCEPT ![a] = Queued(@)]
    /\ UNCHANGED <<row, latest, owed, Grace, Rest>>
Vanish(a) ==
    /\ At(a, "gates")
    /\ \E b \in Attempt \ {a} : TokenOf(b) = TokenOf(a) /\ act[b].at \in Armed \cup {"slot", "waiting"}
    /\ Stop(a)
    /\ UNCHANGED <<row, latest, owed, Grace, Rest>>
Promote(a) ==
    /\ At(a, "waiting")
    /\ Goto(a, "gates")
    /\ UNCHANGED <<row, latest, owed, Grace, Rest>>

(* The session is offline: its replay is parked (one entry per token),     *)
(* then the row is marked, if it is pending.                               *)
Park(a) ==
    /\ At(a, "slot") /\ ~online
    /\ parked' = parked \cup {TokenOf(a)}
    /\ Goto(a, "parking")
    /\ UNCHANGED <<row, latest, owed, replays, Rest>>
MarkParked(a) ==
    /\ At(a, "parking")
    /\ row' = IF Pending THEN [row EXCEPT !.offline = TRUE] ELSE row
    /\ Stop(a)
    /\ UNCHANGED <<latest, owed, Grace, Rest>>

(* open() inserts the run row of a single dispatch; the hook is armed.     *)
Open(a) ==
    /\ At(a, "slot") /\ online
    /\ IF IsBatch(a) THEN Goto(a, "armed") /\ UNCHANGED latest
       ELSE act' = [act EXCEPT ![a].at = "armed", ![a].run = "in_flight"] /\ latest' = a
    /\ UNCHANGED <<row, owed, Grace, Rest>>

(* send() looks for the channel before it claims: without one the run row  *)
(* is cancelled and the replay parked; a batch leaves that to its sweep.   *)
FindNoChannel(a) ==
    /\ At(a, "armed") /\ ~online
    /\ IF IsBatch(a) THEN Stop(a) /\ UNCHANGED parked
       ELSE /\ act' = [act EXCEPT ![a].at = "parking", ![a].run = "closed"]
            /\ parked' = parked \cup {"single"}
    /\ UNCHANGED <<row, latest, owed, replays, Rest>>

(* From its claim to the end of its turn an activation holds the row.      *)
(* Writes that check the status of the row and not its generation can take *)
(* it away: the reset of a row seen dispatched and the failure of a send,  *)
(* under way when the claim commits or begun by a send that throws before  *)
(* its own claim, and the last steps of a turn that was undone like that.  *)
Holding(a) == act[a].at \in {"inserting", "message", "sent"}
Stray(b) ==
    \/ At(b, "failing")
    \/ At(b, "resetting") /\ act[b].seen = "dispatched"
    \/ Holding(b) /\ b \in raced
NoneStray == \A b \in Attempt : ~Stray(b)

(* claimAnnotationsAtSend(): of a pending row; a batch names no run yet.   *)
(* A lost claim closes the run.                                            *)
Claim(a) ==
    /\ At(a, "armed") /\ online
    /\ IF Pending
       THEN /\ row' = [row EXCEPT !.status = "dispatched",
                                  !.gen = IF IsBatch(a) THEN None ELSE a]
            /\ Goto(a, IF IsBatch(a) THEN "inserting" ELSE "message")
            /\ raced' = {b \in raced : Holding(b)} \cup (IF NoneStray THEN {} ELSE {a})
       ELSE /\ act' = [act EXCEPT ![a] = Cancelled(Idle(@))]
            /\ UNCHANGED <<row, raced>>
    /\ UNCHANGED <<batched, online, asks, faults, latest, owed, Grace>>

(* insertAnnotationRun() and bindAnnotationRun() of a batch member.        *)
Bind(a) ==
    /\ At(a, "inserting")
    /\ act' = [act EXCEPT ![a].at = "message", ![a].run = "in_flight"]
    /\ latest' = a
    /\ row' = IF Dispatched THEN [row EXCEPT !.gen = a] ELSE row
    /\ UNCHANGED <<owed, Grace, Rest>>
Send(a) ==
    /\ At(a, "message")
    /\ act' = [act EXCEPT ![a].at = "sent", ![a].agent = "asked", ![a].swept = FALSE]
    /\ UNCHANGED <<row, latest, owed, Grace, Rest>>

-----------------------------------------------------------------------------
(* releaseClosedRun() of a reaper: the hook is dropped and the store is    *)
(* told to mark the run failed.                                            *)
Release(a) ==
    /\ At(a, "sent")
    /\ Goto(a, "failing")
    /\ UNCHANGED <<row, latest, owed, Grace, Rest>>

(* markFailed(): failAnnotationIfDispatched(), which knows no generation;  *)
(* a batch closes the run row only of a row that it failed.                *)
Fail(a) ==
    /\ At(a, "failing")
    /\ IF Dispatched
       THEN /\ EndRow(a, "failed")
            /\ act' = [act EXCEPT ![a] = [Cancelled(@) EXCEPT !.at = "reporting"]]
       ELSE /\ act' = [act EXCEPT ![a] = IF IsBatch(a) THEN Idle(@) ELSE Cancelled(Idle(@))]
            /\ UNCHANGED <<row, owed>>
    /\ UNCHANGED <<latest, Grace, Rest>>

(* shouldFinalize(): the hook of a hears the reply that echoes its id      *)
(* (variant: any reply).                                                   *)
AcceptsAny(a, x) == a \in Attempt /\ x \in Attempt
Accepts(a, x) == a = x

(* The agent answers the prompt of x; v is its verdict once the cited      *)
(* commit has been verified.                                               *)
Answer(x, v) ==
    /\ act[x].agent = "asked"
    /\ \/ \E a \in Attempt :
             /\ At(a, "sent") /\ Accepts(a, x)
             /\ act' = [b \in Attempt |->
                   LET heard == IF b = x THEN [act[b] EXCEPT !.agent = v] ELSE act[b] IN
                   IF b = a THEN [heard EXCEPT !.at = "closing", !.verdict = v] ELSE heard]
       \/ /\ ~\E a \in Attempt : At(a, "sent") /\ Accepts(a, x)
          /\ act' = [act EXCEPT ![x].agent = v]
    /\ UNCHANGED <<row, latest, owed, Grace, Rest>>

(* The hook reaper, or a message after the finalize timeout.               *)
Timeout(a) ==
    /\ At(a, "sent")
    /\ act' = [act EXCEPT ![a].at = "closing", ![a].verdict = "unresolved"]
    /\ UNCHANGED <<row, latest, owed, Grace, Rest>>

(* finalizeAnnotationReply(): the row first, as a CAS on the generation,   *)
(* then the run, then the callback; a superseded one closes its run.       *)
Close(a) ==
    /\ At(a, "closing")
    /\ IF OwnsRow(a)
       THEN /\ EndRow(a, IF act[a].verdict = "resolved" THEN "resolved" ELSE "failed")
            /\ act' = [act EXCEPT ![a] = [Cancelled(@) EXCEPT !.at = "reporting"]]
       ELSE /\ act' = [act EXCEPT ![a] = Cancelled(Idle(@))]
            /\ UNCHANGED <<row, owed>>
    /\ UNCHANGED <<latest, Grace, Rest>>

(* scheduleImmediateCallback().                                            *)
Report(a) ==
    /\ At(a, "reporting")
    /\ owed' = IF owed = a THEN None ELSE owed
    /\ Stop(a)
    /\ UNCHANGED <<row, latest, Grace, Rest>>

-----------------------------------------------------------------------------
(* redispatchStalePending(): a row that nothing in memory owns.            *)
(* A row marked offline is left to its grace entry, if there is one        *)
(* (variant: without looking for it).                                      *)
Sweeping == \E a \in Attempt : act[a].swept
LeftOffline == row.offline
LeftToGrace == row.offline /\ "single" \in parked
SweepSingle(a) ==
    /\ ~Sweeping /\ Free(a)
    /\ Pending /\ ~batched /\ ~TokenLive
    /\ ~LeftToGrace
    /\ act' = [act EXCEPT ![a] = [New("single", "loading") EXCEPT !.swept = TRUE]]
    /\ UNCHANGED <<row, latest, owed, Grace, Rest>>

(* runSweepOnce(), once the batch is quiet.                                *)
SweepBatch(a) ==
    /\ ~Sweeping /\ Free(a)
    /\ Pending /\ batched
    /\ online \/ "batch" \notin parked
    /\ act' = [act EXCEPT ![a] = [New("batch", "gates") EXCEPT !.swept = TRUE]]
    /\ UNCHANGED <<row, latest, owed, Grace, Rest>>

(* onParkExpire() of a lapsed entry (variant: without its callback).       *)
AfterExpiryQuiet(k) == New(k, "idle")
AfterExpiry(k) == New(k, "reporting")
Expire(a, k) ==
    /\ k \in parked /\ Free(a)
    /\ parked' = parked \ {k}
    /\ IF Pending /\ row.offline
       THEN EndRow(a, "failed_offline") /\ act' = [act EXCEPT ![a] = AfterExpiry(k)]
       ELSE UNCHANGED <<row, owed, act>>
    /\ UNCHANGED <<latest, replays, Rest>>

(* A reconnect drains the entries and replays them; the replay of a batch  *)
(* gathers the members that are pending now.                               *)
Connect ==
    /\ ~online
    /\ online' = TRUE
    /\ replays' = replays \cup parked
    /\ parked' = {}
    /\ UNCHANGED <<batched, row, act, latest, owed, raced, asks, faults>>
Replay(a, k) ==
    /\ k \in replays /\ Free(a)
    /\ replays' = replays \ {k}
    /\ act' = IF k = "batch" /\ ~Pending THEN act
              ELSE [act EXCEPT ![a] = New(k, IF k = "batch" THEN "gates" ELSE "loading")]
    /\ UNCHANGED <<row, latest, owed, parked, Rest>>

-----------------------------------------------------------------------------
Fault == faults < MaxFaults /\ faults' = faults + 1

Drop ==
    /\ Fault /\ online
    /\ online' = FALSE
    /\ UNCHANGED <<batched, row, act, latest, owed, raced, Grace, asks>>

(* A statement throws.  A resend swallows it and is dispatched; a send     *)
(* that throws marks its run failed; any other activation ends where it    *)
(* stands, and what it had to report is lost.                              *)
Throw(a) ==
    /\ Fault
    /\ \/ act[a].at \in Reopening /\ act' = [act EXCEPT ![a] = Refused(@)]
       \/ act[a].at \in {"armed", "inserting", "message"} /\ Goto(a, "failing")
       \/ act[a].at \in {"loading", "gates", "slot", "parking"} \cup Ending /\ Stop(a)
    /\ owed' = IF owed = a THEN None ELSE owed
    /\ raced' = IF At(a, "armed") THEN raced \cup {b \in Attempt : Holding(b)} ELSE raced
    /\ UNCHANGED <<batched, online, row, latest, Grace, asks>>

(* The hub restarts: what was in memory is gone.                           *)
Crash ==
    /\ Fault
    /\ act' = [a \in Attempt |-> Idle(act[a])]
    /\ parked' = {} /\ replays' = {} /\ owed' = None /\ raced' = {}
    /\ UNCHANGED <<batched, online, row, latest, asks>>

(* A run in flight passes its ceiling.                                     *)
Age(a) ==
    /\ LiveRun(a)
    /\ act[a].at \in {"sent", "closing", "idle"}
    /\ act' = [act EXCEPT ![a].run = "aged"]
    /\ UNCHANGED <<row, latest, owed, Grace, Rest>>

-----------------------------------------------------------------------------
(* What the hub itself goes on with.                                       *)
Step(a) ==
    \/ Check(a) \/ Reset(a) \/ Supersede(a) \/ Load(a)
    \/ Reject(a) \/ TakeSlot(a) \/ Queue(a) \/ Vanish(a) \/ Promote(a)
    \/ Park(a) \/ MarkParked(a) \/ Open(a) \/ FindNoChannel(a) \/ Claim(a) \/ Bind(a) \/ Send(a)
    \/ Fail(a) \/ Timeout(a) \/ Close(a) \/ Report(a)
Sweep(a) == SweepSingle(a) \/ SweepBatch(a)
GraceStep(a) == \E k \in Token : Expire(a, k) \/ Replay(a, k)

Next ==
    \/ \E a \in Attempt :
          \/ Redeliver(a) \/ Retry(a) \/ Step(a) \/ Sweep(a) \/ GraceStep(a)
          \/ Release(a) \/ Throw(a) \/ Age(a)
          \/ \E v \in {"resolved", "unresolved"} : Answer(a, v)
    \/ Connect \/ Drop \/ Crash

Spec == Init /\ [][Next]_vars

(* Timers, sweeps and the hub's own steps go on; a session that is busy is *)
(* free again and again.                                                   *)
Fairness ==
    /\ \A a \in Attempt : WF_vars(Step(a)) /\ SF_vars(TakeSlot(a)) /\ WF_vars(Age(a))
    /\ WF_vars(\E a \in Attempt : Sweep(a))
    /\ WF_vars(\E a \in Attempt : GraceStep(a))
FairSpec == Spec /\ Fairness

-----------------------------------------------------------------------------
(* An annotation is resolved only by the agent's own reply to the prompt   *)
(* of the generation that holds the row: not by a late reply to an earlier *)
(* prompt, not by a turn that a retry has superseded.                      *)
OwnVerdict == row.status = "resolved" => row.gen # None /\ act[row.gen].agent = "resolved"

(* While a turn is in flight the row is its own, unless a write without a  *)
(* generation was under way beside it: no resend, retry, sweep, park,      *)
(* expiry or gate of another activation takes or ends it.                  *)
TurnKeepsRow == \A a \in Attempt : At(a, "sent") => OwnsRow(a) \/ a \in raced

(* An end of the row is followed by its callback: the activation that      *)
(* ended it has yet to report it (a restart or a failed statement in       *)
(* between loses the report).                                              *)
EndIsReported ==
    owed # None => At(owed, "reporting") /\ row.status \in Ended

(* A pending annotation is dispatched or ends: no queue, no park, no lost  *)
(* waiter and no restart strands it.                                       *)
PendingSettles == Pending ~> ~Pending

(* A dispatched row is reset only when the run that holds it is over or    *)
(* past its ceiling.                                                       *)
ReopenedOnlyDead ==
    [][Dispatched /\ row'.status = "pending" /\ row.gen # None
         => ~LiveRun(row.gen)]_vars
=============================================================================
