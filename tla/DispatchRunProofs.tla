------------------------- MODULE DispatchRunProofs --------------------------
(***************************************************************************)
(* A session works on one run at a time, and its slot says which: proofs   *)
(* for every set of sessions and requests, when no hook is released before *)
(* its prompt is sent and no awaited call hangs for ever.                  *)
(*                                                                         *)
(* The two properties are not inductive by themselves: a release frees the *)
(* slot whatever hook the session has.  The strengthening ties the hook    *)
(* and the closing set to the place of the request they name, so that      *)
(* whoever releases is known to be the session's only run.                 *)
(***************************************************************************)
EXTENDS DispatchPipelineProofs

(* From store.open() to the write of the frame the hook is armed.          *)
Armed == {"marking", "halt", "send", "sending"}

HookOK ==
    \A s \in Session :
        hook[s] # None => SessionOf[hook[s]] = s /\ pc[hook[s]] \in Armed \cup {"sent"}

ArmedOK == \A r \in Request : pc[r] \in Armed => hook[SessionOf[r]] = r

ClosingOK == \A r \in closing : pc[r] = "sent" /\ hook[SessionOf[r]] = None

NobodyHangs == \A r \in Request : pc[r] # "hung"

RunsOK ==
    /\ AtMostOneInFlight /\ SlotHeldByRun
    /\ HookOK /\ ArmedOK /\ ClosingOK /\ NobodyHangs

USE QueueAssumption, PipelineAssumption

LEMMA RunTypes ==
    ASSUME Structure
    PROVE  /\ slot \in [Session -> Token \cup {None}] /\ hook \in [Session -> Request \cup {None}]
           /\ pc \in [Request -> PC] /\ closing \subseteq Request
           /\ \A r \in Request : SessionOf[r] \in Session /\ TokenOf[r] \in Token
BY DEF Structure, Types, QueueTypeOK, PC

LEMMA ArmedHolds == Armed \subseteq Holding /\ "sent" \notin Holding /\ "hung" \notin Armed
BY DEF Armed, Holding

(* Who holds the slot without an armed hook is alone.                      *)
LEMMA Unarmed ==
    ASSUME Structure, RunsOK, NEW r \in Request, pc[r] \in Holding \ Armed
    PROVE  hook[SessionOf[r]] = None /\ r \notin closing
<1>1. r \notin closing
  BY ArmedHolds DEF RunsOK, ClosingOK
<1>2. hook[SessionOf[r]] = None
  <2> SUFFICES ASSUME hook[SessionOf[r]] # None PROVE FALSE
    OBVIOUS
  <2> DEFINE q == hook[SessionOf[r]]
  <2>1. q \in Request /\ SessionOf[q] = SessionOf[r] /\ pc[q] \in Armed \cup {"sent"}
    BY RunTypes DEF RunsOK, HookOK
  <2>2. q \in InFlight(SessionOf[r]) /\ r \in InFlight(SessionOf[r])
    BY <2>1 DEF InFlight
  <2>3. q = r
    BY <2>2, RunTypes DEF RunsOK, AtMostOneInFlight
  <2> QED BY <2>1, <2>3, ArmedHolds
<1> QED BY <1>1, <1>2

(* A free slot: nobody is in flight.                                       *)
LEMMA SlotFreeMeansIdle ==
    ASSUME Structure, RunsOK, NEW s \in Session, slot[s] = None
    PROVE  InFlight(s) = {}
<1>1. \A r \in InFlight(s) : r \in Request /\ slot[s] = TokenOf[r]
  BY DEF RunsOK, SlotHeldByRun, InFlight
<1> QED BY <1>1, RunTypes

-----------------------------------------------------------------------------
(* The shapes of the steps.                                                *)

(* Nobody who holds a slot or has been sent is touched.                    *)
LEMMA QuietRuns ==
    ASSUME Structure, RunsOK, UNCHANGED <<slot, hook, closing>>,
           \A q \in Request : \/ pc'[q] = pc[q]
                              \/ /\ pc[q] \notin Holding \cup {"sent"}
                                 /\ pc'[q] \notin Holding \cup {"sent"}
    PROVE  RunsOK'
<1>1. \A s \in Session : InFlight(s)' = InFlight(s)
  BY DEF InFlight
<1>2. AtMostOneInFlight' /\ SlotHeldByRun'
  BY <1>1 DEF RunsOK, AtMostOneInFlight, SlotHeldByRun
<1>3. HookOK'
  BY RunTypes, ArmedHolds DEF RunsOK, HookOK
<1>4. ArmedOK'
  BY ArmedHolds DEF RunsOK, ArmedOK
<1>5. ClosingOK'
  BY RunTypes DEF RunsOK, ClosingOK
<1>6. NobodyHangs'
  BY DEF RunsOK, NobodyHangs, Holding
<1> QED BY <1>2, <1>3, <1>4, <1>5, <1>6 DEF RunsOK

(* The run of a slot's holder goes on.                                     *)
LEMMA HolderMoves ==
    ASSUME Structure, RunsOK, NEW r \in Request, pc[r] \in Holding,
           UNCHANGED <<slot, closing>>,
           \A q \in Request : q # r => pc'[q] = pc[q],
           \A g \in Session : g # SessionOf[r] => hook'[g] = hook[g],
           \/ pc'[r] \in Holding \ (Armed \cup {"hung"}) /\ hook'[SessionOf[r]] = None
           \/ pc'[r] \in Armed \cup {"sent"} /\ hook'[SessionOf[r]] = r
    PROVE  RunsOK'
<1> DEFINE s == SessionOf[r]
<1>1. s \in Session /\ None \notin Request
  BY RunTypes
<1>2. r \in InFlight(s) /\ slot[s] = TokenOf[r] /\ \A q \in InFlight(s) : q = r
  <2>1. r \in InFlight(s)
    BY DEF InFlight
  <2> QED BY <1>1, <2>1 DEF RunsOK, AtMostOneInFlight, SlotHeldByRun
<1>3. \A q \in closing : q \in Request /\ SessionOf[q] # s
  <2> SUFFICES ASSUME NEW q \in closing, SessionOf[q] = s PROVE FALSE
    BY RunTypes
  <2>1. q \in InFlight(s) /\ pc[q] = "sent"
    BY RunTypes DEF InFlight, RunsOK, ClosingOK
  <2> QED BY <1>2, <2>1, ArmedHolds
<1>4. \A q \in Request : SessionOf[q] = s /\ pc[q] \in Holding => q = r
  BY <1>2 DEF InFlight
<1>5. InFlight(s)' = {r}
  <2>1. r \in InFlight(s)'
    BY ArmedHolds DEF InFlight
  <2>2. \A q \in InFlight(s)' : q = r
    BY <1>1, <1>3, <1>4 DEF InFlight
  <2> QED BY <2>1, <2>2
<1>6. \A g \in Session : g # s => InFlight(g)' = InFlight(g)
  BY DEF InFlight
<1>7. AtMostOneInFlight' /\ SlotHeldByRun'
  <2>1. slot' = slot
    OBVIOUS
  <2>2. AtMostOneInFlight'
    BY <1>5, <1>6 DEF RunsOK, AtMostOneInFlight
  <2>3. \A g \in Session : g = s => (\A q \in InFlight(g)' : slot[g] = TokenOf[q]) /\ InFlight(g)' # {}
    BY <1>2, <1>5
  <2> QED BY <1>6, <2>1, <2>2, <2>3 DEF RunsOK, SlotHeldByRun
<1>8. HookOK'
  <2> SUFFICES ASSUME NEW g \in Session, hook'[g] # None
               PROVE  SessionOf[hook'[g]] = g /\ pc'[hook'[g]] \in Armed \cup {"sent"}
    BY DEF HookOK
  <2>1. CASE g = s
    BY <2>1
  <2>2. CASE g # s
    BY <2>2, RunTypes DEF RunsOK, HookOK
  <2> QED BY <2>1, <2>2
<1>9. ArmedOK'
  <2> SUFFICES ASSUME NEW q \in Request, pc'[q] \in Armed PROVE hook'[SessionOf[q]] = q
    BY DEF ArmedOK
  <2>1. CASE q = r
    BY <2>1
  <2>2. CASE q # r
    <3>1. pc[q] \in Armed /\ SessionOf[q] # s
      BY <1>4, <2>2, ArmedHolds
    <3> QED BY <2>2, <3>1, RunTypes DEF RunsOK, ArmedOK
  <2> QED BY <2>1, <2>2
<1>10. ClosingOK'
  <2>1. \A q \in closing : pc'[q] = pc[q] /\ hook'[SessionOf[q]] = hook[SessionOf[q]]
    BY <1>3, RunTypes
  <2> QED BY <2>1 DEF RunsOK, ClosingOK
<1>11. NobodyHangs'
  BY ArmedHolds DEF RunsOK, NobodyHangs
<1> QED BY <1>7, <1>8, <1>9, <1>10, <1>11 DEF RunsOK

(* The same when the hook is left alone.                                   *)
LEMMA HolderGoesOn ==
    ASSUME Structure, RunsOK, NEW r \in Request, pc[r] \in Holding, NEW p, Goto(r, p),
           UNCHANGED <<slot, closing, hook>>,
           IF pc[r] \in Armed THEN p \in Armed \cup {"sent"} ELSE p \in Holding \ (Armed \cup {"hung"})
    PROVE  RunsOK'
<1>1. pc'[r] = p /\ \A q \in Request : q # r => pc'[q] = pc[q]
  BY RunTypes DEF Goto
<1>2. CASE pc[r] \in Armed
  <2>1. hook[SessionOf[r]] = r
    BY <1>2 DEF RunsOK, ArmedOK
  <2> QED BY <1>1, <1>2, <2>1, HolderMoves
<1>3. CASE pc[r] \notin Armed
  <2>1. hook[SessionOf[r]] = None
    BY <1>3, Unarmed
  <2> QED BY <1>1, <1>3, <2>1, HolderMoves
<1> QED BY <1>2, <1>3

(* A release: of the session's only run, or of a slot that is free.        *)
LEMMA RunReleased ==
    ASSUME Structure, RunsOK, NEW r \in Request, NEW after,
           after \in [Request -> PC], ReleaseAndPromote(SessionOf[r], after),
           \A q \in Request : q # r => after[q] = pc[q],
           after[r] \notin Holding \cup {"sent"},
           hook' = hook, hook[SessionOf[r]] = None, closing' = closing \ {r},
           r \in InFlight(SessionOf[r]) \/ slot[SessionOf[r]] = None
    PROVE  RunsOK'
<1> DEFINE s == SessionOf[r]
<1>1. s \in Session /\ None \notin Request
  BY RunTypes
<1>2. slot' = [slot EXCEPT ![s] = None]
  BY <1>1, ReleaseCases
<1>3. slot'[s] = None /\ \A g \in Session : g # s => slot'[g] = slot[g]
  BY <1>1, <1>2, RunTypes
<1>4. \A q \in InFlight(s) : q = r
  BY <1>1, SlotFreeMeansIdle DEF RunsOK, AtMostOneInFlight
<1> DEFINE Other(q) == q # r /\ pc'[q] = pc[q]
           Out(q) == (q = r \/ (pc[q] = "waiting" /\ SessionOf[q] = s)) /\ pc'[q] \notin Holding \cup {"sent"}
<1>5. \A q \in Request : Other(q) \/ Out(q)
  <2>1. CASE PromotesNobody(s, after)
    BY <2>1 DEF PromotesNobody
  <2>2. ASSUME NEW w \in Request, Promotes(s, w, after)
        PROVE  \A q \in Request : Other(q) \/ Out(q)
    <3>1. /\ pc'[w] = "gates" /\ pc[w] = "waiting" /\ SessionOf[w] = s
          /\ \A q \in Request : q # w => pc'[q] = after[q]
      BY <2>2 DEF Promotes
    <3>2. Out(w)
      BY <3>1 DEF Holding
    <3>3. \A q \in Request : q # w => Other(q) \/ Out(q)
      BY <3>1
    <3> QED BY <3>2, <3>3
  <2> QED BY <1>1, <2>1, <2>2, ReleaseCases
<1>6. InFlight(s)' = {}
  <2> SUFFICES ASSUME NEW q \in Request, SessionOf[q] = s,
                      pc'[q] \in Holding \/ hook'[s] = q \/ q \in closing'
               PROVE  FALSE
    BY DEF InFlight
  <2>1. hook'[s] # q
    BY <1>1
  <2>2. CASE pc'[q] \in Holding
    <3>1. q # r /\ pc'[q] = pc[q]
      BY <1>5, <2>2
    <3> QED BY <1>4, <2>2, <3>1 DEF InFlight
  <2>3. CASE q \in closing'
    BY <1>4, <2>3 DEF InFlight
  <2> QED BY <2>1, <2>2, <2>3
<1>7. \A g \in Session : g # s => InFlight(g)' = InFlight(g)
  <2> SUFFICES ASSUME NEW g \in Session, g # s PROVE InFlight(g)' = InFlight(g)
    OBVIOUS
  <2>1. \A q \in Request : SessionOf[q] = g => pc'[q] = pc[q] /\ q # r
    BY <1>5
  <2> QED BY <2>1 DEF InFlight
<1>8. AtMostOneInFlight'
  BY <1>6, <1>7 DEF RunsOK, AtMostOneInFlight
<1>9. SlotHeldByRun'
  <2> SUFFICES ASSUME NEW g \in Session
               PROVE  /\ \A q \in InFlight(g)' : slot'[g] = TokenOf[q]
                      /\ slot'[g] # None => InFlight(g)' # {}
    BY DEF SlotHeldByRun
  <2>1. CASE g = s
    BY <1>3, <1>6, <2>1
  <2>2. CASE g # s
    BY <1>3, <1>7, <2>2 DEF RunsOK, SlotHeldByRun
  <2> QED BY <2>1, <2>2
<1>10. \A q \in Request : pc[q] \in Armed \cup {"sent"} /\ q # r => pc'[q] = pc[q]
  BY <1>5, ArmedHolds DEF Armed
<1>11. HookOK'
  <2> SUFFICES ASSUME NEW g \in Session, hook[g] # None
               PROVE  SessionOf[hook[g]] = g /\ pc'[hook[g]] \in Armed \cup {"sent"}
    BY DEF HookOK
  <2>1. hook[g] \in Request /\ SessionOf[hook[g]] = g /\ pc[hook[g]] \in Armed \cup {"sent"}
    BY RunTypes DEF RunsOK, HookOK
  <2>2. hook[g] # r
    BY <2>1
  <2> QED BY <1>10, <2>1, <2>2
<1>12. ArmedOK'
  <2> SUFFICES ASSUME NEW q \in Request, pc'[q] \in Armed PROVE hook[SessionOf[q]] = q
    BY DEF ArmedOK
  <2>1. pc[q] \in Armed
    BY <1>5, ArmedHolds
  <2> QED BY <2>1 DEF RunsOK, ArmedOK
<1>13. ClosingOK'
  BY <1>10, RunTypes DEF RunsOK, ClosingOK
<1>14. NobodyHangs'
  BY <1>5 DEF RunsOK, NobodyHangs, Holding
<1> QED BY <1>8, <1>9, <1>11, <1>12, <1>13, <1>14 DEF RunsOK

-----------------------------------------------------------------------------
(* The actions.                                                            *)

(* Refusing, parking, and the unwinding of a failed dispatch.              *)
LEMMA GivingUp ==
    ASSUME Structure, RunsOK, NEW r \in Request, pc[r] \in Holding \ Armed,
           \/ Refuse(r) \/ Park(r) \/ RethrowOpen(r) \/ Unwind(r)
           \/ FreeSlot(r, "skipping") /\ UNCHANGED <<hook, closing>>
    PROVE  RunsOK'
<1>1. /\ hook[SessionOf[r]] = None /\ r \notin closing /\ r \in InFlight(SessionOf[r])
      /\ closing' = closing \ {r} /\ hook' = hook
  BY Unarmed DEF InFlight, Refuse, Park, RethrowOpen, Unwind
<1>2. ASSUME NEW p \in PC \ (Holding \cup {"sent"}),
             ReleaseAndPromote(SessionOf[r], [pc EXCEPT ![r] = p])
      PROVE  RunsOK'
  <2> DEFINE after == [pc EXCEPT ![r] = p]
  <2>1. /\ after \in [Request -> PC] /\ \A q \in Request : q # r => after[q] = pc[q]
        /\ after[r] \notin Holding \cup {"sent"}
    BY RunTypes
  <2>2. ReleaseAndPromote(SessionOf[r], after)
    BY <1>2
  <2> HIDE DEF after
  <2> QED BY <1>1, <2>1, <2>2, RunReleased
<1>3. {"skipping", "threw", "failed", "absorbed", "parked"} \subseteq PC \ (Holding \cup {"sent"})
  BY DEF PC, Active, Passing, Holding, Settled
<1>4. CASE Refuse(r) \/ FreeSlot(r, "skipping")
  BY <1>2, <1>3, <1>4 DEF Refuse, FreeSlot
<1>5. CASE Park(r)
  <2> DEFINE p == IF Grace!HasLive(SessionOf[r], TokenOf[r]) THEN "absorbed" ELSE "parked"
  <2>1. p \in PC \ (Holding \cup {"sent"}) /\ ReleaseAndPromote(SessionOf[r], [pc EXCEPT ![r] = p])
    BY <1>3, <1>5 DEF Park
  <2> QED BY <1>2, <2>1
<1>6. CASE RethrowOpen(r)
  BY <1>2, <1>3, <1>6 DEF RethrowOpen, FreeSlot
<1>7. CASE Unwind(r)
  <2> DEFINE p == IF pc[r] = "failing" THEN "failed" ELSE "skipping"
  <2>1. p \in PC \ (Holding \cup {"sent"}) /\ ReleaseAndPromote(SessionOf[r], [pc EXCEPT ![r] = p])
    BY <1>3, <1>7 DEF Unwind, FreeSlot
  <2> QED BY <1>2, <2>1
<1> QED BY <1>4, <1>5, <1>6, <1>7

(* Steps of a request that holds no slot.                                  *)
LEMMA PassingSteps ==
    ASSUME Structure, RunsOK, NEW r \in Request,
           \/ Start(r) \/ KillSwitchPasses(r) \/ CapsPass(r) \/ LifetimePasses(r) \/ GatesBlock(r)
           \/ GatesFail(r) \/ ReturnSkipped(r)
           \/ ClaimSlot(r) \/ JoinQueue(r) \/ JoinTwin(r) \/ DropBusy(r)
    PROVE  RunsOK'
<1>1. CASE \/ Start(r) \/ KillSwitchPasses(r) \/ CapsPass(r) \/ LifetimePasses(r) \/ GatesBlock(r)
           \/ GatesFail(r) \/ JoinQueue(r) \/ DropBusy(r)
  <2>1. /\ UNCHANGED <<slot, hook, closing>> /\ \A q \in Request : q # r => pc'[q] = pc[q]
        /\ pc[r] \notin Holding \cup {"sent"} /\ pc'[r] \notin Holding \cup {"sent"}
    BY <1>1, RunTypes DEF Start, KillSwitchPasses, CapsPass, LifetimePasses, GatesBlock, GatesFail,
                          AtCaps, PastCaps, JoinQueue, Wait, DropBusy, Goto, queueVars, Holding
  <2> QED BY <2>1, QuietRuns
<1>2. CASE JoinTwin(r)
  <2> DEFINE twin == ctx[SessionOf[r]][TokenOf[r]]
  <2>1. /\ UNCHANGED <<slot, hook, closing>> /\ pc[r] = "claim"
        /\ \A q \in Request : q # r /\ q # twin => pc'[q] = pc[q]
        /\ \A q \in Request : pc'[q] # pc[q] => pc'[q] \in {"waiting", "absorbed", "superseded"}
    BY <1>2, RunTypes DEF JoinTwin, Goto, queueVars
  <2>2. twin \in Request => pc[twin] = "waiting"
    BY RunTypes DEF Structure, CtxOK
  <2> QED BY <2>1, <2>2, QuietRuns DEF Holding
<1>3. CASE ReturnSkipped(r)
  <2>1. UNCHANGED <<hook, closing>> /\ pc[r] = "skipping" /\ "skipped" \in PC /\ SessionOf[r] \in Session
    BY <1>3, RunTypes DEF ReturnSkipped, PC, Settled
  <2>2. CASE Goto(r, "skipped") /\ UNCHANGED queueVars
    <3>1. slot' = slot /\ pc'[r] = "skipped" /\ \A q \in Request : q # r => pc'[q] = pc[q]
      BY <2>2, RunTypes DEF Goto, queueVars
    <3> QED BY <2>1, <3>1, QuietRuns DEF Holding
  <2>3. CASE slot[SessionOf[r]] = None /\ ReleaseAndPromote(SessionOf[r], [pc EXCEPT ![r] = "skipped"])
    <3>1. InFlight(SessionOf[r]) = {}
      BY <2>1, <2>3, SlotFreeMeansIdle
    <3>2. r \notin closing /\ hook[SessionOf[r]] = None
      <4>1. r \notin closing
        BY <3>1 DEF InFlight
      <4>2. hook[SessionOf[r]] # None => hook[SessionOf[r]] \in InFlight(SessionOf[r])
        BY <2>1, RunTypes DEF InFlight, RunsOK, HookOK
      <4> QED BY <3>1, <4>1, <4>2
    <3> DEFINE after == [pc EXCEPT ![r] = "skipped"]
    <3>3. /\ after \in [Request -> PC] /\ \A q \in Request : q # r => after[q] = pc[q]
          /\ after[r] \notin Holding \cup {"sent"} /\ ReleaseAndPromote(SessionOf[r], after)
      BY <2>1, <2>3, RunTypes DEF Holding
    <3> HIDE DEF after
    <3> QED BY <2>1, <2>3, <3>2, <3>3, RunReleased
  <2> QED BY <1>3, <2>2, <2>3 DEF ReturnSkipped
<1>4. CASE ClaimSlot(r)
  <2> DEFINE s == SessionOf[r]
  <2>1. /\ s \in Session /\ slot[s] = None /\ slot' = [slot EXCEPT ![s] = TokenOf[r]]
        /\ UNCHANGED <<hook, closing>> /\ pc[r] = "claim" /\ pc'[r] = "online"
        /\ \A q \in Request : q # r => pc'[q] = pc[q]
    BY <1>4, RunTypes DEF ClaimSlot, Claim, Goto
  <2>2. InFlight(s) = {}
    BY <2>1, SlotFreeMeansIdle
  <2>3. /\ slot'[s] = TokenOf[r] /\ \A g \in Session : g # s => slot'[g] = slot[g]
        /\ "online" \in Holding \ (Armed \cup {"sent", "hung"}) /\ "claim" \notin Holding \cup {"sent"}
    BY <2>1, RunTypes DEF Holding, Armed
  <2>4. InFlight(s)' = {r}
    <3>1. r \in InFlight(s)'
      BY <2>1, <2>3 DEF InFlight
    <3>2. \A q \in InFlight(s)' : q = r
      BY <2>1, <2>2 DEF InFlight
    <3> QED BY <3>1, <3>2
  <2>5. \A g \in Session : g # s => InFlight(g)' = InFlight(g)
    BY <2>1 DEF InFlight
  <2>6. AtMostOneInFlight'
    BY <2>4, <2>5 DEF RunsOK, AtMostOneInFlight
  <2>7. SlotHeldByRun'
    <3> SUFFICES ASSUME NEW g \in Session
                 PROVE  /\ \A q \in InFlight(g)' : slot'[g] = TokenOf[q]
                        /\ slot'[g] # None => InFlight(g)' # {}
      BY DEF SlotHeldByRun
    <3>1. CASE g = s
      BY <2>3, <2>4, <3>1
    <3>2. CASE g # s
      BY <2>3, <2>5, <3>2 DEF RunsOK, SlotHeldByRun
    <3> QED BY <3>1, <3>2
  <2>8. HookOK'
    BY <2>1, <2>3, RunTypes, ArmedHolds DEF RunsOK, HookOK
  <2>9. ArmedOK' /\ ClosingOK' /\ NobodyHangs'
    BY <2>1, <2>3, RunTypes DEF RunsOK, ArmedOK, ClosingOK, NobodyHangs
  <2> QED BY <2>6, <2>7, <2>8, <2>9 DEF RunsOK
<1> QED BY <1>1, <1>2, <1>3, <1>4

(* Steps of a request that holds its session's slot.                       *)
LEMMA HoldingSteps ==
    ASSUME Structure, RunsOK, ~Hangs, NEW r \in Request,
           \/ IsOnline(r) \/ PreEnsureCheck(r) \/ EnsureOnline(r) \/ PreSendGuard(r) \/ ReserveInject(r)
           \/ OpenRow(r) \/ OpenThrows(r) \/ RethrowOpen(r) \/ MarkDispatched(r)
           \/ FinalHaltCheck(r) \/ BeginSend(r) \/ Send(r) \/ SendThrows(r)
           \/ GiveBack(r) \/ Unwind(r) \/ Hang(r)
    PROVE  RunsOK'
<1> DEFINE GoesOn(p) == Goto(r, p) /\ UNCHANGED <<slot, closing, hook>>
           Free == Holding \ (Armed \cup {"hung"})
<1>0. /\ {"online", "precheck", "ensure", "guard", "reserve", "open", "openFailed", "unwind",
          "haltUnwind", "failing", "halting"} \subseteq Free
      /\ Armed = {"marking", "halt", "send", "sending"}
      /\ PastOnline(r) \in Free /\ PastHaltRead(r) \in Free
      /\ \A p \in Free : p \in Holding \ Armed
  BY DEF Holding, Armed, PastOnline, PastHaltRead
<1>1. ASSUME NEW p, GoesOn(p), pc[r] \in Free, p \in Free
      PROVE  RunsOK'
  BY <1>0, <1>1, HolderGoesOn
<1>2. ASSUME NEW p, GoesOn(p), pc[r] \in Armed, p \in Armed \cup {"sent"}
      PROVE  RunsOK'
  BY <1>2, HolderGoesOn, ArmedHolds
<1>3. CASE IsOnline(r)
  <2>1. pc[r] \in Free /\ ((\E p \in Free : GoesOn(p)) \/ Park(r))
    BY <1>0, <1>3 DEF IsOnline, queueVars
  <2> QED BY <1>0, <1>1, <2>1, GivingUp
<1>4. CASE PreEnsureCheck(r)
  <2>1. pc[r] \in Free /\ (GoesOn("ensure") \/ Refuse(r))
    BY <1>0, <1>4 DEF PreEnsureCheck, queueVars
  <2> QED BY <1>0, <1>1, <2>1, GivingUp
<1>5. CASE EnsureOnline(r)
  <2>1. pc[r] \in Free /\ (GoesOn(PastOnline(r)) \/ Park(r))
    BY <1>0, <1>5 DEF EnsureOnline, queueVars
  <2> QED BY <1>0, <1>1, <2>1, GivingUp
<1>6. CASE PreSendGuard(r)
  <2>1. pc[r] \in Free /\ (GoesOn(PastHaltRead(r)) \/ Refuse(r))
    BY <1>0, <1>6 DEF PreSendGuard, queueVars
  <2> QED BY <1>0, <1>1, <2>1, GivingUp
<1>7. CASE OpenThrows(r)
  BY <1>0, <1>1, <1>7 DEF OpenThrows, queueVars
<1>8. CASE RethrowOpen(r) \/ Unwind(r)
  BY <1>0, <1>8, GivingUp DEF RethrowOpen, Unwind
<1>9. CASE MarkDispatched(r) \/ BeginSend(r) \/ Send(r)
  <2>1. pc[r] \in Armed /\ \E p \in Armed \cup {"sent"} : GoesOn(p)
    BY <1>0, <1>9 DEF MarkDispatched, BeginSend, Send, queueVars
  <2> QED BY <1>2, <2>1
<1>10. ASSUME pc[r] \in Holding, UNCHANGED <<slot, closing>>,
              NEW p, Goto(r, p), NEW h, hook' = [hook EXCEPT ![SessionOf[r]] = h],
              (p \in Free /\ h = None) \/ (p = "marking" /\ h = r)
       PROVE  RunsOK'
  <2>1. /\ pc'[r] = p /\ \A q \in Request : q # r => pc'[q] = pc[q]
        /\ hook'[SessionOf[r]] = h /\ \A g \in Session : g # SessionOf[r] => hook'[g] = hook[g]
    BY <1>10, RunTypes DEF Goto
  <2> QED BY <1>0, <1>10, <2>1, HolderMoves
<1>11. CASE OpenRow(r)
  BY <1>0, <1>10, <1>11 DEF OpenRow, queueVars
<1>12. CASE FinalHaltCheck(r)
  <2>1. CASE Goto(r, "send") /\ UNCHANGED hook
    BY <1>0, <1>2, <1>12, <2>1 DEF FinalHaltCheck, queueVars
  <2> DEFINE p == IF r \in Counted THEN "haltUnwind" ELSE "halting"
  <2>2. CASE Goto(r, p) /\ hook' = [hook EXCEPT ![SessionOf[r]] = None]
    <3>1. pc[r] \in Holding /\ p \in Free /\ UNCHANGED <<slot, closing>>
      BY <1>0, <1>12, ArmedHolds DEF FinalHaltCheck, queueVars
    <3> QED BY <1>10, <2>2, <3>1
  <2> QED BY <1>12, <2>1, <2>2 DEF FinalHaltCheck
<1>13. CASE SendThrows(r)
  <2> DEFINE p == IF r \in Counted THEN "unwind" ELSE "failing"
  <2>1. /\ pc[r] \in Holding /\ p \in Free /\ UNCHANGED <<slot, closing>>
        /\ Goto(r, p) /\ hook' = [hook EXCEPT ![SessionOf[r]] = None]
    BY <1>0, <1>13, ArmedHolds DEF SendThrows, queueVars
  <2> QED BY <1>10, <2>1
<1>14. CASE ReserveInject(r)
  <2>1. /\ pc[r] \in Free
        /\ \/ GoesOn("open")
           \/ FreeSlot(r, "skipping") /\ UNCHANGED <<hook, closing>>
    BY <1>0, <1>14 DEF ReserveInject, queueVars
  <2> QED BY <1>0, <1>1, <2>1, GivingUp
<1>15. CASE GiveBack(r)
  <2>1. pc[r] \in Free /\ \E p \in Free : GoesOn(p)
    BY <1>0, <1>15 DEF GiveBack, queueVars
  <2> QED BY <1>1, <2>1
<1> QED BY <1>3, <1>4, <1>5, <1>6, <1>7, <1>8, <1>9, <1>11, <1>12, <1>13, <1>14, <1>15 DEF Hang

(* The end of a run.                                                       *)
LEMMA EndingSteps ==
    ASSUME Structure, RunsOK, ~EarlyEvents, NEW s \in Session, NEW r \in Request,
           EndRun(s) \/ FinishClose(r)
    PROVE  RunsOK'
<1>1. CASE EndRun(s)
  <2> DEFINE q == hook[s]
  <2>1. TakeHook(s) /\ q \in Request /\ pc[q] = "sent" /\ SessionOf[q] = s
    BY <1>1, RunTypes DEF EndRun, OnSessionReply, ReapTimedOutHook, ReleaseClosedRun, Releasable, RunsOK, HookOK
  <2>2. /\ closing' = closing \cup {q} /\ hook' = [hook EXCEPT ![s] = None] /\ UNCHANGED <<slot, pc>>
    BY <2>1 DEF TakeHook, queueVars
  <2>3. hook'[s] = None /\ \A g \in Session : g # s => hook'[g] = hook[g]
    BY <2>2, RunTypes
  <2>4. q \in InFlight(s) /\ \A p \in InFlight(s) : p = q
    <3>1. q \in InFlight(s)
      BY <2>1 DEF InFlight
    <3> QED BY <3>1 DEF RunsOK, AtMostOneInFlight
  <2>5. \A g \in Session : InFlight(g)' = InFlight(g)
    <3> SUFFICES ASSUME NEW g \in Session PROVE InFlight(g)' = InFlight(g)
      OBVIOUS
    <3>1. CASE g = s
      <4>1. q \in InFlight(s)'
        BY <2>1, <2>2 DEF InFlight
      <4>2. \A p \in InFlight(s)' : p = q
        BY <2>2, <2>3, <2>4 DEF InFlight
      <4> QED BY <2>4, <3>1, <4>1, <4>2
    <3>2. CASE g # s
      BY <2>1, <2>2, <2>3, <3>2 DEF InFlight
    <3> QED BY <3>1, <3>2
  <2>6. AtMostOneInFlight' /\ SlotHeldByRun'
    BY <2>2, <2>5 DEF RunsOK, AtMostOneInFlight, SlotHeldByRun
  <2>7. HookOK'
    BY <2>2, <2>3 DEF RunsOK, HookOK
  <2>8. ArmedOK'
    <3> SUFFICES ASSUME NEW p \in Request, pc[p] \in Armed PROVE hook'[SessionOf[p]] = p
      BY <2>2 DEF ArmedOK
    <3>1. hook[SessionOf[p]] = p /\ p # q
      BY <2>1, ArmedHolds DEF RunsOK, ArmedOK
    <3> QED BY <2>3, <3>1, RunTypes
  <2>9. ClosingOK'
    BY <2>1, <2>2, <2>3, RunTypes DEF RunsOK, ClosingOK
  <2>10. NobodyHangs'
    BY <2>2 DEF RunsOK, NobodyHangs
  <2> QED BY <2>6, <2>7, <2>8, <2>9, <2>10 DEF RunsOK
<1>2. CASE FinishClose(r)
  <2>1. /\ r \in closing /\ closing' = closing \ {r} /\ hook' = hook
        /\ pc[r] = "sent" /\ hook[SessionOf[r]] = None /\ r \in InFlight(SessionOf[r])
    BY <1>2 DEF FinishClose, RunsOK, ClosingOK, InFlight
  <2> DEFINE after == [pc EXCEPT ![r] = "closed"]
  <2>2. "closed" \in PC \ (Holding \cup {"sent"})
    BY DEF PC, Settled, Holding
  <2>3. /\ after \in [Request -> PC] /\ \A q \in Request : q # r => after[q] = pc[q]
        /\ after[r] \notin Holding \cup {"sent"}
    BY <2>2, RunTypes
  <2>4. ReleaseAndPromote(SessionOf[r], after)
    BY <1>2, <2>1 DEF FinishClose
  <2> HIDE DEF after
  <2> QED BY <2>1, <2>3, <2>4, RunReleased
<1> QED BY <1>1, <1>2

(* The stale-lock reaper never finds a slot that nobody will give back.    *)
LEMMA NoStaleLock ==
    ASSUME Structure, RunsOK, NEW s \in Session
    PROVE  ~StaleLockReap(s)
<1> SUFFICES ASSUME StaleLockReap(s) PROVE FALSE
  OBVIOUS
<1>1. slot[s] # None /\ hook[s] = None
  BY DEF StaleLockReap
<1>2. PICK r \in InFlight(s) : TRUE
  BY <1>1 DEF RunsOK, SlotHeldByRun
<1>3. r \in Request /\ SessionOf[r] = s /\ (pc[r] \in Holding \/ r \in closing)
  BY <1>1, <1>2 DEF InFlight
<1> QED BY <1>3 DEF StaleLockReap, RunsOK, NobodyHangs

LEMMA WorldSteps ==
    ASSUME Structure, RunsOK, NEW s \in Session,
           \/ Drain(s) \/ DrainLoop(s) \/ GraceSweep \/ GraceLapse(s) \/ Connect(s) \/ Disconnect(s)
           \/ CapFlip \/ KillSwitchFlip \/ UNCHANGED vars
    PROVE  RunsOK'
<1>1. ASSUME NEW d \in drains[s], DrainNext(s, d)
      PROVE  RunsOK'
  <2> DEFINE r == Head(d.rest)
  <2>1. d.rest # << >> /\ UNCHANGED <<slot, hook, closing>>
    BY <1>1 DEF DrainNext, Grace!Advance, queueVars
  <2>2. d.rest \in Seq(Request)
    BY DEF Structure, Types, Grace!GraceTypeOK, Grace!Loop
  <2>3. 1 \in 1 .. Len(d.rest) /\ r = d.rest[1]
    BY <2>1, <2>2
  <2>4. r \in Request /\ pc[r] = "parked"
    BY <2>3, LoopEntry
  <2>5. pc'[r] \in {"gates", "expired"} /\ \A q \in Request : q # r => pc'[q] = pc[q]
    BY <1>1, <2>4, RunTypes DEF DrainNext, Goto
  <2> QED BY <2>1, <2>4, <2>5, QuietRuns DEF Holding
<1>2. CASE GraceSweep
  <2>1. UNCHANGED <<slot, hook, closing>>
    BY <1>2 DEF GraceSweep, queueVars
  <2>2. \A q \in Grace!Swept : q \in Request /\ pc[q] = "parked"
    <3> SUFFICES ASSUME NEW q \in Grace!Swept PROVE q \in Request /\ pc[q] = "parked"
      OBVIOUS
    <3>1. PICK g \in Session : q \in Request /\ \E i \in 1 .. stale[g] : parked[g][i] = q
      BY DEF Grace!Swept
    <3>2. stale[g] \in Nat /\ Len(parked[g]) \in Nat /\ stale[g] <= Len(parked[g])
      BY DEF Structure, Types, Grace!GraceTypeOK, ListOK
    <3> QED BY <3>1, <3>2 DEF Structure, ListOK
  <2>3. \A q \in Request : pc'[q] = pc[q] \/ (pc[q] = "parked" /\ pc'[q] = "expired")
    BY <1>2, <2>2 DEF GraceSweep
  <2> QED BY <2>1, <2>3, QuietRuns DEF Holding
<1>3. CASE \/ Drain(s) \/ GraceLapse(s) \/ Connect(s) \/ Disconnect(s) \/ CapFlip \/ KillSwitchFlip
           \/ UNCHANGED vars \/ \E d \in drains[s] : DrainEnd(s, d)
  <2>1. UNCHANGED <<slot, hook, closing, pc>>
    BY <1>3 DEF Drain, GraceLapse, Connect, Disconnect, CapFlip, KillSwitchFlip, vars, DrainEnd, queueVars
  <2> QED BY <2>1, QuietRuns
<1> QED BY <1>1, <1>2, <1>3 DEF DrainLoop

-----------------------------------------------------------------------------
LEMMA RunsInductive ==
    ASSUME ~EarlyEvents, ~Hangs
    PROVE  /\ Init => RunsOK
           /\ Structure /\ RunsOK /\ [Next]_vars => RunsOK'
<1>1. Init => RunsOK
  <2> SUFFICES ASSUME Init PROVE RunsOK
    OBVIOUS
  <2>1. /\ \A s \in Session : hook[s] = None /\ slot[s] = None
        /\ \A r \in Request : pc[r] = "new"
        /\ closing = {}
    BY DEF Init, QueueInit
  <2>2. "new" \notin Holding /\ "new" \notin Armed
    BY DEF Holding, Armed
  <2>3. ASSUME NEW s \in Session PROVE InFlight(s) = {}
    <3>1. \A r \in Request : hook[s] # r /\ r \notin closing
      BY <2>1
    <3>2. \A r \in Request : pc[r] \notin Holding
      BY <2>1, <2>2
    <3> QED BY <3>1, <3>2 DEF InFlight
  <2>4. AtMostOneInFlight /\ SlotHeldByRun
    BY <2>1, <2>3 DEF AtMostOneInFlight, SlotHeldByRun
  <2>5. HookOK /\ ArmedOK
    BY <2>1, <2>2 DEF HookOK, ArmedOK
  <2>6. ClosingOK /\ NobodyHangs
    BY <2>1 DEF ClosingOK, NobodyHangs
  <2> QED BY <2>4, <2>5, <2>6 DEF RunsOK
<1>2. ASSUME Structure, RunsOK, [Next]_vars
      PROVE  RunsOK'
  <2>1. ASSUME NEW r \in Request, Start(r) \/ Step(r) \/ GatesFail(r) \/ Hang(r)
        PROVE  RunsOK'
    BY <1>2, <2>1, PassingSteps, HoldingSteps DEF Step
  <2>2. ASSUME NEW r \in Request, FinishClose(r)
        PROVE  RunsOK'
    BY <1>2, <2>2, EndingSteps, RunTypes
  <2>3. ASSUME NEW s \in Session, EndRun(s)
        PROVE  RunsOK'
    <3>1. hook[s] \in Request
      BY <1>2, <2>3, RunTypes DEF EndRun, OnSessionReply, ReapTimedOutHook, ReleaseClosedRun, Releasable
    <3> QED BY <1>2, <2>3, <3>1, EndingSteps
  <2>4. ASSUME NEW s \in Session, StaleLockReap(s)
        PROVE  RunsOK'
    BY <1>2, <2>4, NoStaleLock
  <2>5. ASSUME NEW s \in Session,
               Drain(s) \/ DrainLoop(s) \/ GraceSweep \/ GraceLapse(s) \/ Connect(s) \/ Disconnect(s)
        PROVE  RunsOK'
    BY <1>2, <2>5, WorldSteps
  <2>6. CASE GraceSweep \/ CapFlip \/ KillSwitchFlip \/ UNCHANGED vars
    <3>1. CASE Session # {}
      BY <1>2, <2>6, <3>1, WorldSteps
    <3>2. CASE Session = {}
      <4>1. Request = {}
        BY <3>2
      <4> QED BY <1>2, <2>6, <3>2, <4>1, RunTypes
              DEF RunsOK, AtMostOneInFlight, SlotHeldByRun, HookOK, ArmedOK, ClosingOK, NobodyHangs,
                  GraceSweep, CapFlip, KillSwitchFlip, vars
    <3> QED BY <3>1, <3>2
  <2> QED BY <1>2, <2>1, <2>2, <2>3, <2>4, <2>5, <2>6 DEF Next
<1> QED BY <1>1, <1>2

(* If no run ends before its prompt is sent and no awaited call hangs, a   *)
(* session never works on two prompts at a time.                           *)
THEOREM OneRunAtATime == ~EarlyEvents /\ ~Hangs => (Spec => []AtMostOneInFlight)
<1> SUFFICES ASSUME ~EarlyEvents, ~Hangs PROVE Spec => []AtMostOneInFlight
  OBVIOUS
<1>1. RunsOK => AtMostOneInFlight
  BY DEF RunsOK
<1> QED BY <1>1, AlwaysStructure, RunsInductive, PTL DEF Spec

(* Then, too, the slot is taken exactly while a run is in flight: no path  *)
(* out of a dispatch leaks it.                                             *)
THEOREM SlotNeverLeaks == ~EarlyEvents /\ ~Hangs => (Spec => []SlotHeldByRun)
<1> SUFFICES ASSUME ~EarlyEvents, ~Hangs PROVE Spec => []SlotHeldByRun
  OBVIOUS
<1>1. RunsOK => SlotHeldByRun
  BY DEF RunsOK
<1> QED BY <1>1, AlwaysStructure, RunsInductive, PTL DEF Spec
=============================================================================
