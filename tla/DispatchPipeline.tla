-------------------------- MODULE DispatchPipeline --------------------------
(***************************************************************************)
(* The hub's dispatch pipeline (hub/src/dispatch/pipeline.ts): every       *)
(* machine-origin and telegram prompt of the hub goes through dispatch()   *)
(* on its way to an agent session.                                         *)
(*                                                                         *)
(* A Request is one {req, deps} object handed to dispatch(); TokenOf is    *)
(* its token, which two requests may share (a retry of the same row).  A   *)
(* request has at most one activation of dispatch() at a time: its source  *)
(* starts the first, promotion and grace replay start the later ones.      *)
(* pc[r] is the await at which the activation of r is suspended: JavaScript*)
(* runs from one await to the next without interruption, so the code       *)
(* between two awaits is one action.                                       *)
(***************************************************************************)
EXTENDS SessionQueue, FiniteSets

CONSTANTS
    Request,      \* {req, deps} objects
    TokenOf,      \* TokenOf[r]: req.token
    SessionOf,    \* SessionOf[r]: req.sessionId
    Machine,      \* requests whose gate list holds the kill-switch gate
    Counted,      \* requests that carry a counterKey (one key here)
    Spawner,      \* requests whose deps have ensureOnline (spawn-on-error)
    Narrator,     \* requests whose store has shouldFinalize
    LifetimeCap,  \* lifetime ceiling of the counter key
    MaxDrops,     \* bound: how often the sessions' sockets may close
    EarlyEvents,  \* may an armed hook be released before its prompt is sent?
    GatesThrow,   \* may a gate throw (a failing database read)?
    Hangs         \* may an awaited call never settle?

ASSUME PipelineAssumption ==
    /\ TokenOf \in [Request -> Token]
    /\ SessionOf \in [Request -> Session]
    /\ Machine \subseteq Request /\ Counted \subseteq Request
    /\ Spawner \subseteq Request /\ Narrator \subseteq Request
    /\ LifetimeCap \in Nat /\ MaxDrops \in Nat
    /\ EarlyEvents \in BOOLEAN /\ GatesThrow \in BOOLEAN /\ Hangs \in BOOLEAN
    /\ None \notin Request

VARIABLES
    ctx,        \* waiterCtx: ctx[s][t] is the request that waits as token t
    hook,       \* activeBySession: the request whose finalize hook is armed
    pc,         \* where the activation of a request is suspended, or how it ended
    from,       \* who started the last activation of a request
    closing,    \* requests whose hook was taken and whose store write is awaited
    charged,    \* the inject ledger: tokens with an unreleased reservation
    pending,    \* pendingReleases: tokens whose release has failed so far
    parked, stale, drains,    \* the grace buffer (module GraceBuffer)
    online,     \* online[s]: the session has a channel
    drainDue,   \* drainDue[s]: a connect has yet to call drain(s)
    drops,      \* how often a socket has closed (bounded by MaxDrops)
    capped,     \* a cost, token or threshold gate would block now
    halted,     \* the kill switch is engaged now
    okSince,    \* history: the gates could pass at some time in this activation
    clearSince  \* history: the switch was off at some time since the row opened

Grace == INSTANCE GraceBuffer WITH Target <- Session, Entry <- Request, KeyOf <- TokenOf

queueVars == <<slot, waiters>>
ledgerVars == <<charged, pending>>
graceVars == <<parked, stale, drains>>
worldVars == <<online, drainDue, drops, capped, halted>>
vars == <<slot, waiters, ctx, hook, pc, from, closing, charged, pending, parked,
          stale, drains, online, drainDue, drops, capped, halted, okSince, clearSince>>

-----------------------------------------------------------------------------
(* Where an activation can be suspended once it holds the session's slot.  *)
Holding == {"online", "precheck", "ensure", "guard", "reserve", "open", "openFailed",
            "marking", "halt", "send", "sending", "unwind", "haltUnwind", "failing",
            "halting", "hung"}
(* Suspended before it holds the slot, or after it gave the slot back.     *)
Passing == {"gates", "caps", "lifetime", "claim", "skipping"}
Active == Passing \cup Holding
(* dispatch() has returned (or was never called).                          *)
Settled == {"new", "waiting", "superseded", "absorbed", "dropped", "skipped",
            "parked", "expired", "sent", "closed", "failed", "threw"}

Types ==
    /\ QueueTypeOK
    /\ Grace!GraceTypeOK
    /\ ctx \in [Session -> [Token -> Request \cup {None}]]
    /\ hook \in [Session -> Request \cup {None}]
    /\ pc \in [Request -> Active \cup Settled]
    /\ from \in [Request -> {"source", "promotion", "replay"}]
    /\ closing \in SUBSET Request
    /\ charged \in SUBSET Token /\ pending \in SUBSET Token
    /\ online \in [Session -> BOOLEAN] /\ drainDue \in [Session -> BOOLEAN]
    /\ drops \in 0 .. MaxDrops
    /\ capped \in BOOLEAN /\ halted \in BOOLEAN
    /\ okSince \in [Request -> BOOLEAN] /\ clearSince \in [Request -> BOOLEAN]

(* The types, and with them the one bound that the pipeline relies on: no  *)
(* interleaving of claims, retries and promotions lets more tokens wait    *)
(* than REMO_DISPATCH_MAX_WAITERS.                                         *)
TypeOK == Types /\ QueueBounded

Init ==
    /\ QueueInit
    /\ Grace!GraceInit
    /\ ctx = [s \in Session |-> [t \in Token |-> None]]
    /\ hook = [s \in Session |-> None]
    /\ pc = [r \in Request |-> "new"]
    /\ from = [r \in Request |-> "source"]
    /\ closing = {} /\ charged = {} /\ pending = {}
    /\ online \in [Session -> BOOLEAN]
    /\ drainDue = [s \in Session |-> FALSE]
    /\ drops = 0
    /\ capped \in BOOLEAN /\ halted = FALSE
    /\ okSince = [r \in Request |-> FALSE]
    /\ clearSince = [r \in Request |-> FALSE]

-----------------------------------------------------------------------------
(* The steps that several handlers share.                                  *)

Goto(r, p) == pc' = [pc EXCEPT ![r] = p]

(* The synchronous part of releaseAndPromote(s): free the slot, take the   *)
(* oldest waiter that has a context and start its activation at the gates. *)
(* The call recurses past waiters without a context.  after is pc with the *)
(* caller's own change.                                                    *)
WithContext(s) == {i \in DOMAIN waiters[s] : ctx[s][waiters[s][i]] # None}

(* Variant: take the newest waiter.                                        *)
TakenCountNewest(s) == Len(waiters[s])

TakenCount(s) ==
    IF WithContext(s) = {} THEN Len(waiters[s])
    ELSE CHOOSE i \in WithContext(s) : \A j \in WithContext(s) : i <= j

ReleaseAndPromote(s, after) ==
    /\ ReleaseAndTake(s, TakenCount(s))
    /\ IF WithContext(s) = {}
       THEN pc' = after /\ UNCHANGED <<ctx, from, okSince>>
       ELSE LET t == waiters[s][TakenCount(s)]
                w == ctx[s][t]
            IN /\ ctx' = [ctx EXCEPT ![s][t] = None]
               /\ pc' = [after EXCEPT ![w] = "gates"]
               /\ from' = [from EXCEPT ![w] = "promotion"]
               /\ okSince' = [okSince EXCEPT ![w] = ~capped]

(* drainPendingReleases(): the releases that failed are tried again, up to *)
(* the next one that fails.                                                *)
Healed(done) ==
    /\ done \subseteq pending
    /\ pending' = pending \ done

(* releaseInject(): the reservation is given back and older releases are   *)
(* tried again, or, the database failing, it joins the pending ones.       *)
ReleaseInject(r) ==
    IF r \notin Counted THEN UNCHANGED ledgerVars
    ELSE \/ \E done \in SUBSET pending :
               Healed(done) /\ charged' = charged \ (done \cup {TokenOf[r]})
         \/ pending' = pending \cup {TokenOf[r]} /\ UNCHANGED charged

(* void releaseAndPromote(): the activation of r goes on without the slot. *)
FreeSlot(r, p) == ReleaseAndPromote(SessionOf[r], [pc EXCEPT ![r] = p])

(* Await the automation guard if the request needs it, else the run row.   *)
PastHaltRead(r) == IF r \in Counted THEN "reserve" ELSE "open"
PastOnline(r) == IF r \in Machine THEN "guard" ELSE PastHaltRead(r)

-----------------------------------------------------------------------------
(* dispatch(), from one await to the next.                                 *)

(* A source calls dispatch() for the first time.                           *)
Start(r) ==
    /\ pc[r] = "new"
    /\ Goto(r, "gates")
    /\ okSince' = [okSince EXCEPT ![r] = ~capped]
    /\ UNCHANGED <<queueVars, ctx, hook, from, closing, ledgerVars, graceVars, worldVars, clearSince>>

(* runGates() asks one gate after the other.  The kill switch comes first  *)
(* in every machine list, ...                                              *)
KillSwitchPasses(r) ==
    /\ pc[r] = "gates"
    /\ r \in Machine
    /\ ~halted
    /\ Goto(r, "caps")
    /\ UNCHANGED <<queueVars, ctx, hook, from, closing, ledgerVars, graceVars, worldVars,
                   okSince, clearSince>>

(* ... the threshold and the caps follow, ...                              *)
AtCaps(r) == pc[r] = IF r \in Machine THEN "caps" ELSE "gates"
PastCaps(r) == IF r \in Counted THEN "lifetime" ELSE "claim"

(* Variant: the spending gates are not asked.                              *)
CapsPassUnasked(r) ==
    /\ AtCaps(r)
    /\ Goto(r, PastCaps(r))
    /\ UNCHANGED <<queueVars, ctx, hook, from, closing, ledgerVars, graceVars, worldVars,
                   okSince, clearSince>>

CapsPass(r) ==
    /\ AtCaps(r)
    /\ ~capped
    /\ Goto(r, PastCaps(r))
    /\ UNCHANGED <<queueVars, ctx, hook, from, closing, ledgerVars, graceVars, worldVars,
                   okSince, clearSince>>

(* ... the lifetime counter, which it only reads, is the last.             *)
LifetimePasses(r) ==
    /\ pc[r] = "lifetime"
    /\ Cardinality(charged) < LifetimeCap
    /\ Goto(r, "claim")
    /\ UNCHANGED <<queueVars, ctx, hook, from, closing, ledgerVars, graceVars, worldVars,
                   okSince, clearSince>>

(* A gate blocks; the kill switch and the counter also when they cannot be *)
(* read, ...                                                               *)
GatesBlock(r) ==
    /\ \/ pc[r] = "gates" /\ r \in Machine
       \/ AtCaps(r) /\ capped
       \/ pc[r] = "lifetime"
    /\ Goto(r, "skipping")
    /\ UNCHANGED <<queueVars, ctx, hook, from, closing, ledgerVars, graceVars, worldVars,
                   okSince, clearSince>>

(* ... or one throws, and the rejection leaves dispatch().                 *)
GatesFail(r) ==
    /\ GatesThrow
    /\ AtCaps(r)
    /\ Goto(r, "threw")
    /\ UNCHANGED <<queueVars, ctx, hook, from, closing, ledgerVars, graceVars, worldVars,
                   okSince, clearSince>>

(* Variant: a skipped waiter does not hand on to the next one.             *)
ReturnSkippedOnly(r) ==
    /\ pc[r] = "skipping"
    /\ Goto(r, "skipped")
    /\ UNCHANGED <<queueVars, ctx, from, okSince, hook, closing, ledgerVars, graceVars, worldVars, clearSince>>

(* markSkipped() is done and dispatch() returns 'skipped'.  For a promoted *)
(* waiter, releaseAndPromote() then goes on with the next one if nobody    *)
(* has taken the slot (releaseAndPromoteIfIdle).                           *)
ReturnSkipped(r) ==
    LET s == SessionOf[r] IN
    /\ pc[r] = "skipping"
    /\ IF from[r] = "promotion" /\ slot[s] = None /\ waiters[s] # << >>
       THEN ReleaseAndPromote(s, [pc EXCEPT ![r] = "skipped"])
       ELSE Goto(r, "skipped") /\ UNCHANGED <<queueVars, ctx, from, okSince>>
    /\ UNCHANGED <<hook, closing, ledgerVars, graceVars, worldVars, clearSince>>

(* queue.enqueue(), 'dispatched'.                                          *)
ClaimSlot(r) ==
    /\ pc[r] = "claim"
    /\ Claim(SessionOf[r], TokenOf[r])
    /\ Goto(r, "online")
    /\ UNCHANGED <<ctx, hook, from, closing, ledgerVars, graceVars, worldVars, okSince, clearSince>>

(* queue.enqueue(), 'queued': stash the context of the new waiter.         *)
JoinQueue(r) ==
    LET s == SessionOf[r] IN
    /\ pc[r] = "claim"
    /\ Wait(s, TokenOf[r])
    /\ ctx' = [ctx EXCEPT ![s][TokenOf[r]] = r]
    /\ Goto(r, "waiting")
    /\ UNCHANGED <<hook, from, closing, ledgerVars, graceVars, worldVars, okSince, clearSince>>

(* queue.enqueue(), 'queued' for a token that is already there: behind     *)
(* itself nothing is stashed; a waiter's context is replaced.              *)
JoinTwin(r) ==
    LET s == SessionOf[r]
        twin == ctx[s][TokenOf[r]]
    IN
    /\ pc[r] = "claim"
    /\ IsDuplicate(s, TokenOf[r])
    /\ IF slot[s] = TokenOf[r]
       THEN Goto(r, "absorbed") /\ UNCHANGED ctx
       ELSE /\ ctx' = [ctx EXCEPT ![s][TokenOf[r]] = r]
            /\ pc' = [q \in Request |-> IF q = r THEN "waiting"
                                        ELSE IF q = twin THEN "superseded" ELSE pc[q]]
    /\ UNCHANGED <<queueVars, hook, from, closing, ledgerVars, graceVars, worldVars, okSince, clearSince>>

(* queue.enqueue(), 'dropped': skipped as session_busy.                    *)
DropBusy(r) ==
    /\ pc[r] = "claim"
    /\ IsFull(SessionOf[r], TokenOf[r])
    /\ Goto(r, "dropped")
    /\ UNCHANGED <<queueVars, ctx, hook, from, closing, ledgerVars, graceVars, worldVars,
                   okSince, clearSince>>

(* The slot is given back and the replay thunk is parked.                  *)
Park(r) ==
    LET s == SessionOf[r] IN
    /\ ReleaseAndPromote(s, [pc EXCEPT ![r] = IF Grace!HasLive(s, TokenOf[r])
                                              THEN "absorbed" ELSE "parked"])
    /\ Grace!Register(s, r)
    /\ UNCHANGED <<hook, closing, ledgerVars, worldVars, clearSince>>

(* isOnline(): go on, or lazy-start the session, or park.                  *)
IsOnline(r) ==
    /\ pc[r] = "online"
    /\ \/ /\ online[SessionOf[r]] \/ r \in Spawner
          /\ Goto(r, CASE online[SessionOf[r]] -> PastOnline(r)
                       [] r \in Machine -> "precheck"
                       [] OTHER -> "ensure")
          /\ UNCHANGED <<queueVars, ctx, hook, from, closing, ledgerVars, graceVars,
                         worldVars, okSince, clearSince>>
       \/ ~online[SessionOf[r]] /\ r \notin Spawner /\ Park(r)

(* A refusal gives the slot back before the row is marked skipped.         *)
Refuse(r) ==
    /\ FreeSlot(r, "skipping")
    /\ UNCHANGED <<hook, closing, ledgerVars, graceVars, worldVars, clearSince>>

(* The kill switch is read again before ensureOnline() may launch.         *)
PreEnsureCheck(r) ==
    /\ pc[r] = "precheck"
    /\ \/ Refuse(r)   \* engaged, or the read failed
       \/ /\ ~halted
          /\ Goto(r, "ensure")
          /\ UNCHANGED <<queueVars, ctx, hook, from, closing, ledgerVars, graceVars,
                         worldVars, okSince, clearSince>>

(* ensureOnline(): the session came online in time, or it gives up (also   *)
(* when the session connects only after the wait had ended).               *)
EnsureOnline(r) ==
    /\ pc[r] = "ensure"
    /\ \/ /\ online[SessionOf[r]]
          /\ Goto(r, PastOnline(r))
          /\ UNCHANGED <<queueVars, ctx, hook, from, closing, ledgerVars, graceVars,
                         worldVars, okSince, clearSince>>
       \/ Park(r)

(* preSendGuard(): the kill switch is read, ...                            *)
PreSendGuard(r) ==
    /\ pc[r] = "guard"
    /\ \/ Refuse(r)   \* engaged, or the read failed
       \/ /\ ~halted
          /\ Goto(r, PastHaltRead(r))
          /\ UNCHANGED <<queueVars, ctx, hook, from, closing, ledgerVars, graceVars,
                         worldVars, okSince, clearSince>>

(* ... and one atomic reservation is taken, after the pending releases     *)
(* were tried again; a token that still holds a reservation keeps it.      *)
Reservable(r, ledger) == TokenOf[r] \in ledger \/ Cardinality(ledger) < LifetimeCap

ReserveInject(r) ==
    /\ pc[r] = "reserve"
    /\ r \in Counted
    /\ \E done \in SUBSET pending :
          /\ Healed(done)
          /\ \/ /\ charged' = charged \ done   \* exhausted, or it failed
                /\ FreeSlot(r, "skipping")
             \/ /\ Reservable(r, charged \ done)
                /\ charged' = (charged \ done) \cup {TokenOf[r]}
                /\ Goto(r, "open")
                /\ UNCHANGED <<queueVars, ctx, from, okSince>>
    /\ UNCHANGED <<hook, closing, graceVars, worldVars, clearSince>>

(* Variant: the finalize hook is not armed.                                *)
OpenRowUnarmed(r) ==
    /\ pc[r] = "open"
    /\ clearSince' = [clearSince EXCEPT ![r] = ~halted]
    /\ Goto(r, "marking")
    /\ UNCHANGED <<queueVars, ctx, hook, from, closing, ledgerVars, graceVars, worldVars, okSince>>

(* store.open() settles: the finalize hook is armed, or open() threw.      *)
OpenRow(r) ==
    /\ pc[r] = "open"
    /\ hook' = [hook EXCEPT ![SessionOf[r]] = r]
    /\ clearSince' = [clearSince EXCEPT ![r] = ~halted]
    /\ Goto(r, "marking")
    /\ UNCHANGED <<queueVars, ctx, from, closing, ledgerVars, graceVars, worldVars, okSince>>

OpenThrows(r) ==
    /\ pc[r] = "open"
    /\ Goto(r, "openFailed")
    /\ UNCHANGED <<queueVars, ctx, hook, from, closing, ledgerVars, graceVars, worldVars,
                   okSince, clearSince>>

(* Variant: the error is rethrown with the slot still taken.               *)
RethrowOpenHolding(r) ==
    /\ pc[r] = "openFailed"
    /\ ReleaseInject(r)
    /\ Goto(r, "threw")
    /\ UNCHANGED <<queueVars, ctx, from, okSince, hook, closing, graceVars, worldVars, clearSince>>

(* The reservation and the slot are given back, the error is rethrown.     *)
RethrowOpen(r) ==
    /\ pc[r] = "openFailed"
    /\ ReleaseInject(r)
    /\ FreeSlot(r, "threw")
    /\ UNCHANGED <<hook, closing, graceVars, worldVars, clearSince>>

(* markDispatched() settles.                                               *)
MarkDispatched(r) ==
    /\ pc[r] = "marking"
    /\ Goto(r, IF r \in Machine THEN "halt" ELSE "send")
    /\ UNCHANGED <<queueVars, ctx, hook, from, closing, ledgerVars, graceVars, worldVars,
                   okSince, clearSince>>

(* Variant: the last read of the kill switch is left out.                  *)
FinalHaltUnchecked(r) ==
    /\ pc[r] = "halt"
    /\ Goto(r, "send")
    /\ UNCHANGED <<queueVars, ctx, hook, from, closing, ledgerVars, graceVars, worldVars,
                   okSince, clearSince>>

(* finalHaltCheck(): the last read of the kill switch.  A switch that is   *)
(* engaged, or cannot be read, disarms the session's hook.                 *)
FinalHaltCheck(r) ==
    /\ pc[r] = "halt"
    /\ \/ ~halted /\ Goto(r, "send") /\ UNCHANGED hook
       \/ /\ Goto(r, IF r \in Counted THEN "haltUnwind" ELSE "halting")
          /\ hook' = [hook EXCEPT ![SessionOf[r]] = None]
    /\ UNCHANGED <<queueVars, ctx, from, closing, ledgerVars, graceVars, worldVars, okSince, clearSince>>

(* send() looks the channel up ...                                         *)
BeginSend(r) ==
    /\ pc[r] = "send"
    /\ online[SessionOf[r]]
    /\ Goto(r, "sending")
    /\ UNCHANGED <<queueVars, ctx, hook, from, closing, ledgerVars, graceVars, worldVars,
                   okSince, clearSince>>

(* ... and, once the chat message is stored, writes the frame; dispatch()  *)
(* returns 'dispatched'.                                                   *)
Send(r) ==
    /\ pc[r] = "sending"
    /\ Goto(r, "sent")
    /\ UNCHANGED <<queueVars, ctx, hook, from, closing, ledgerVars, graceVars, worldVars,
                   okSince, clearSince>>

(* markDispatched() or send() throws: whatever hook the session has is     *)
(* disarmed.                                                               *)
SendThrows(r) ==
    /\ pc[r] \in {"marking", "send", "sending"}
    /\ hook' = [hook EXCEPT ![SessionOf[r]] = None]
    /\ Goto(r, IF r \in Counted THEN "unwind" ELSE "failing")
    /\ UNCHANGED <<queueVars, ctx, from, closing, ledgerVars, graceVars, worldVars, okSince, clearSince>>

(* Variant: the reservation is kept.                                       *)
GiveNothingBack(r) ==
    /\ pc[r] \in {"unwind", "haltUnwind"}
    /\ Goto(r, IF pc[r] = "unwind" THEN "failing" ELSE "halting")
    /\ UNCHANGED <<queueVars, ctx, hook, from, closing, ledgerVars, graceVars, worldVars,
                   okSince, clearSince>>

(* The reservation is released ...                                         *)
GiveBack(r) ==
    /\ pc[r] \in {"unwind", "haltUnwind"}
    /\ ReleaseInject(r)
    /\ Goto(r, IF pc[r] = "unwind" THEN "failing" ELSE "halting")
    /\ UNCHANGED <<queueVars, ctx, hook, from, closing, graceVars, worldVars, okSince, clearSince>>

(* ... and the row marked; then the slot is freed.                         *)
Unwind(r) ==
    /\ pc[r] \in {"failing", "halting"}
    /\ FreeSlot(r, IF pc[r] = "failing" THEN "failed" ELSE "skipping")
    /\ UNCHANGED <<hook, closing, ledgerVars, graceVars, worldVars, clearSince>>

(* A call that dispatch() awaits before it arms the hook never settles.    *)
Hang(r) ==
    /\ Hangs
    /\ pc[r] \in {"ensure", "open"}
    /\ Goto(r, "hung")
    /\ UNCHANGED <<queueVars, ctx, hook, from, closing, ledgerVars, graceVars, worldVars,
                   okSince, clearSince>>

-----------------------------------------------------------------------------
(* The end of a run: its hook is taken, the store is told, and once that   *)
(* write has settled the slot is freed and the next waiter promoted.       *)

Releasable(s) ==
    /\ hook[s] # None
    /\ EarlyEvents \/ pc[hook[s]] = "sent"

(* Variant: the slot is freed before the end of the run is stored.         *)
TakeHookAndSlot(s) ==
    /\ closing' = closing \cup {hook[s]}
    /\ hook' = [hook EXCEPT ![s] = None]
    /\ slot' = [slot EXCEPT ![s] = None]
    /\ UNCHANGED <<waiters, ctx, pc, from, ledgerVars, graceVars, worldVars, okSince, clearSince>>

TakeHook(s) ==
    /\ closing' = closing \cup {hook[s]}
    /\ hook' = [hook EXCEPT ![s] = None]
    /\ UNCHANGED <<queueVars, ctx, pc, from, ledgerVars, graceVars, worldVars, okSince, clearSince>>

(* An assistant message of the session arrives.  (A narration message that *)
(* shouldFinalize() defers changes nothing.)                               *)
OnSessionReply(s) == online[s] /\ Releasable(s) /\ TakeHook(s)

(* The hook sweep finds a narrating run silent past its ceiling.           *)
ReapTimedOutHook(s) == Releasable(s) /\ hook[s] \in Narrator /\ TakeHook(s)

(* A reaper closed the run: run timeout, dead session, stale lock.         *)
ReleaseClosedRun(s) == Releasable(s) /\ TakeHook(s)

FinishClose(r) ==
    /\ r \in closing
    /\ closing' = closing \ {r}
    /\ ReleaseAndPromote(SessionOf[r],
                         [pc EXCEPT ![r] = IF pc[r] = "sent" THEN "closed" ELSE @])
    /\ UNCHANGED <<hook, ledgerVars, graceVars, worldVars, clearSince>>

(* The stale-lock reaper meets a slot held for hours without a hook, where *)
(* releaseClosedRun() has nothing to release: it abandons the queue.  Four *)
(* hours are abstracted to: everyone who holds the slot hangs.             *)
StaleLockReap(s) ==
    /\ slot[s] # None
    /\ hook[s] = None
    /\ \A r \in Request : SessionOf[r] = s => pc[r] \notin Holding \ {"hung"} /\ r \notin closing
    /\ Abandon(s)
    /\ UNCHANGED <<ctx, hook, pc, from, closing, ledgerVars, graceVars, worldVars, okSince, clearSince>>

-----------------------------------------------------------------------------
(* The grace buffer: drain on reconnect, sweep, passing of time.           *)

Drain(s) ==
    /\ drainDue[s]
    /\ drainDue' = [drainDue EXCEPT ![s] = FALSE]
    /\ IF parked[s] = << >> THEN UNCHANGED graceVars ELSE Grace!BeginDrain(s)
    /\ UNCHANGED <<queueVars, ctx, hook, pc, from, closing, ledgerVars, online, drops,
                   capped, halted, okSince, clearSince>>

(* The replay that a loop awaits has returned (or it awaits none).         *)
Idle(d) == d.cur # None => (pc[d.cur] \notin Active \/ from[d.cur] # "replay")

DrainNext(s, d) ==
    /\ Idle(d)
    /\ Grace!Advance(s, d)
    /\ LET r == Head(d.rest) IN
       IF d.stale > 0
       THEN Goto(r, "expired") /\ UNCHANGED <<from, okSince>>
       ELSE /\ Goto(r, "gates")
            /\ from' = [from EXCEPT ![r] = "replay"]
            /\ okSince' = [okSince EXCEPT ![r] = ~capped]
    /\ UNCHANGED <<queueVars, ctx, hook, closing, ledgerVars, worldVars, clearSince>>

DrainEnd(s, d) ==
    /\ Idle(d)
    /\ Grace!EndDrain(s, d)
    /\ UNCHANGED <<queueVars, ctx, hook, pc, from, closing, ledgerVars, worldVars, okSince, clearSince>>

GraceSweep ==
    /\ Grace!Sweep
    /\ pc' = [r \in Request |-> IF r \in Grace!Swept THEN "expired" ELSE pc[r]]
    /\ UNCHANGED <<queueVars, ctx, hook, from, closing, ledgerVars, worldVars, okSince, clearSince>>

GraceLapse(s) ==
    /\ Grace!Lapse(s)
    /\ UNCHANGED <<queueVars, ctx, hook, pc, from, closing, ledgerVars, worldVars, okSince, clearSince>>

-----------------------------------------------------------------------------
(* The world: sockets, spending, the operator of the kill switch.          *)

Connect(s) ==
    /\ ~online[s]
    /\ online' = [online EXCEPT ![s] = TRUE]
    /\ drainDue' = [drainDue EXCEPT ![s] = TRUE]
    /\ UNCHANGED <<queueVars, ctx, hook, pc, from, closing, ledgerVars, graceVars, drops,
                   capped, halted, okSince, clearSince>>

Disconnect(s) ==
    /\ online[s]
    /\ drops < MaxDrops
    /\ drops' = drops + 1
    /\ online' = [online EXCEPT ![s] = FALSE]
    /\ UNCHANGED <<queueVars, ctx, hook, pc, from, closing, ledgerVars, graceVars, drainDue,
                   capped, halted, okSince, clearSince>>

CapFlip ==
    /\ capped' = ~capped
    /\ okSince' = IF capped THEN [r \in Request |-> TRUE] ELSE okSince
    /\ UNCHANGED <<queueVars, ctx, hook, pc, from, closing, ledgerVars, graceVars, online,
                   drainDue, drops, halted, clearSince>>

KillSwitchFlip ==
    /\ Machine # {}
    /\ halted' = ~halted
    /\ clearSince' = IF halted THEN [r \in Request |-> TRUE] ELSE clearSince
    /\ UNCHANGED <<queueVars, ctx, hook, pc, from, closing, ledgerVars, graceVars, online,
                   drainDue, drops, capped, okSince>>

-----------------------------------------------------------------------------
(* The steps a request's activation takes by itself.                       *)
Step(r) ==
    \/ KillSwitchPasses(r) \/ CapsPass(r) \/ LifetimePasses(r) \/ GatesBlock(r) \/ ReturnSkipped(r)
    \/ ClaimSlot(r) \/ JoinQueue(r) \/ JoinTwin(r) \/ DropBusy(r)
    \/ IsOnline(r) \/ PreEnsureCheck(r) \/ EnsureOnline(r)
    \/ PreSendGuard(r) \/ ReserveInject(r)
    \/ OpenRow(r) \/ OpenThrows(r) \/ RethrowOpen(r)
    \/ MarkDispatched(r) \/ FinalHaltCheck(r)
    \/ BeginSend(r) \/ Send(r) \/ SendThrows(r) \/ GiveBack(r) \/ Unwind(r)

EndRun(s) == OnSessionReply(s) \/ ReapTimedOutHook(s) \/ ReleaseClosedRun(s)

DrainLoop(s) == \E d \in drains[s] : DrainNext(s, d) \/ DrainEnd(s, d)

Next ==
    \/ \E r \in Request : Start(r) \/ Step(r) \/ GatesFail(r) \/ Hang(r) \/ FinishClose(r)
    \/ \E s \in Session : EndRun(s) \/ StaleLockReap(s) \/ Drain(s) \/ DrainLoop(s)
    \/ GraceSweep
    \/ \E s \in Session : GraceLapse(s) \/ Connect(s) \/ Disconnect(s)
    \/ CapFlip \/ KillSwitchFlip

Spec == Init /\ [][Next]_vars

(* What a fair run is given: activations and finalizers go on (the awaited *)
(* calls settle), a run ends (the agent answers or a reaper closes it), a  *)
(* connect reaches its drain, drains go on.                                *)
Fairness ==
    /\ \A r \in Request : WF_vars(Step(r)) /\ WF_vars(FinishClose(r))
    /\ \A s \in Session : WF_vars(EndRun(s)) /\ WF_vars(Drain(s)) /\ WF_vars(DrainLoop(s))

FairSpec == Spec /\ Fairness

-----------------------------------------------------------------------------
(* Properties.                                                             *)

(* The runs in flight on a session: dispatch() holds the slot for them,    *)
(* their finalize hook is armed, or their end is being stored.             *)
InFlight(s) ==
    {r \in Request : SessionOf[r] = s /\ (pc[r] \in Holding \/ hook[s] = r \/ r \in closing)}

(* A session works on at most one dispatched prompt at a time, from the    *)
(* claim of its slot until the end of the run is stored.                   *)
AtMostOneInFlight ==
    \A s \in Session : \A q, r \in InFlight(s) : q = r

(* The slot is taken exactly while a run is in flight, and by its token:   *)
(* no path out of dispatch() leaks the slot (a wedged session) or frees it *)
(* under a run that still needs it.                                        *)
SlotHeldByRun ==
    \A s \in Session :
        /\ \A r \in InFlight(s) : slot[s] = TokenOf[r]
        /\ slot[s] # None => InFlight(s) # {}

(* Whenever the slot is free and somebody waits, a promoted activation is  *)
(* on its way to the slot, or to the next waiter: no waiter is stranded.   *)
NoStrandedWaiter ==
    \A s \in Session :
        slot[s] = None /\ waiters[s] # << >> =>
            \E r \in Request :
                SessionOf[r] = s /\ from[r] = "promotion" /\ pc[r] \in Passing

(* Once queued, a request stays in the queue until it is promoted.         *)
WaiterKept ==
    \A r \in Request : pc[r] = "waiting" => IsWaiting(SessionOf[r], TokenOf[r])

(* The queue's tokens and the pipeline's waiter contexts are two maps that *)
(* say the same: every waiting token has the context of a waiting request, *)
(* every waiting request is the context of a waiting token, and no token   *)
(* waits twice (so a promotion never meets "no context").                  *)
WaitersHaveContext ==
    /\ WaiterKept
    /\ \A s \in Session : \A i \in DOMAIN waiters[s] :
          /\ ctx[s][waiters[s][i]] # None
          /\ \A j \in DOMAIN waiters[s] : waiters[s][i] = waiters[s][j] => i = j
    /\ \A r \in Request :
          pc[r] = "waiting" <=> ctx[SessionOf[r]][TokenOf[r]] = r

(* A prompt is sent only if the gates could pass after its activation had  *)
(* begun: time spent waiting or parked never lets a request slip past a    *)
(* cap that was reached meanwhile (IR-1, IR-2).                            *)
Sending == {"sending", "sent", "closed"}
SendRespectsCap ==
    \A r \in Request : pc[r] \in Sending => okSince[r]

(* A machine prompt is sent only if the kill switch was off at some time   *)
(* after its row had opened: an engage that lands before the row opens     *)
(* always stops it (D-09c).                                                *)
SendRespectsHalt ==
    \A r \in Machine : pc[r] \in Sending => clearSince[r]

(* The ledger charges a counted request exactly from its reservation on,   *)
(* unless the send is given up: a sent prompt is charged, a prompt that    *)
(* was refused, failed, parked or skipped is not.  Only what hangs, or     *)
(* what a failed release left pending, may stay charged unsent.            *)
Reserved == {"open", "openFailed", "marking", "halt", "send", "unwind", "haltUnwind"} \cup Sending
TokensAt(P) == {TokenOf[r] : r \in {q \in Counted : pc[q] \in P}}
ChargedExactly ==
    TokensAt(Reserved) \subseteq charged /\ charged \subseteq TokensAt(Reserved \cup {"hung"}) \cup pending

(* A parked request is in the grace buffer exactly once, in the list of    *)
(* its session or ahead in a running drain, and nothing else is there: no  *)
(* parked request is lost, and none is replayed twice, or both replayed    *)
(* and expired.                                                            *)
ListPlaces(r) ==
    UNION {{<<g, i>> : i \in {j \in DOMAIN parked[g] : parked[g][j] = r}} : g \in Session}

LoopPlaces(r) ==
    UNION {UNION {{<<g, d, i>> : i \in {j \in DOMAIN d.rest : d.rest[j] = r}} : d \in drains[g]}
             : g \in Session}

ParkedOnce ==
    \A r \in Request :
        Cardinality(ListPlaces(r)) + Cardinality(LoopPlaces(r)) = IF pc[r] = "parked" THEN 1 ELSE 0

(* Every dispatched request reaches an end or the grace buffer: nobody     *)
(* waits, holds the slot, or sits between two awaits for ever.             *)
DispatchSettles ==
    \A r \in Request :
        pc[r] \in Active \cup {"waiting"} ~> pc[r] \in Settled \ {"new", "waiting"}

-----------------------------------------------------------------------------
(* The abstract view: what becomes of each request, seen from a caller.    *)
RunState ==
    [r \in Request |->
        CASE pc[r] = "new" -> "idle"
          [] r \in InFlight(SessionOf[r]) -> "running"
          [] pc[r] \in {"gates", "caps", "lifetime", "claim", "waiting", "parked"} -> "waiting"
          [] OTHER -> "done"]

Runs == INSTANCE OneRunPerSession WITH state <- RunState

(* The pipeline implements the abstract one-run-per-session server.        *)
ImplementsOneRun == Runs!Spec
=============================================================================
