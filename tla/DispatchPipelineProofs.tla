----------------------- MODULE DispatchPipelineProofs -----------------------
(***************************************************************************)
(* Proofs about DispatchPipeline, for every set of sessions and requests.  *)
(*                                                                         *)
(* The inductive invariant joins the types, the agreement of the queue     *)
(* with the waiter contexts, and the disjointness of the grace buffer's    *)
(* lists: together they say that nobody but a request's own activation     *)
(* moves it, unless it waits (then a promotion does) or is parked (then a  *)
(* drain or a sweep does).                                                 *)
(***************************************************************************)
EXTENDS DispatchPipeline, SequenceTheorems, TLAPS

PC == Active \cup Settled

(* No token waits twice, and every waiting token has a context.            *)
QueueOK ==
    \A s \in Session : \A i \in DOMAIN waiters[s] :
        /\ ctx[s][waiters[s][i]] # None
        /\ \A j \in DOMAIN waiters[s] : waiters[s][i] = waiters[s][j] => i = j

(* A context belongs to a waiting request of that session and token.       *)
CtxOK ==
    \A s \in Session, t \in Token :
        ctx[s][t] # None =>
            /\ pc[ctx[s][t]] = "waiting"
            /\ SessionOf[ctx[s][t]] = s
            /\ TokenOf[ctx[s][t]] = t

(* Whoever is in the grace buffer is parked, and is there once.            *)
ListOK ==
    \A g \in Session :
        /\ stale[g] <= Len(parked[g])
        /\ \A i \in 1 .. Len(parked[g]) :
              /\ pc[parked[g][i]] = "parked"
              /\ SessionOf[parked[g][i]] = g
              /\ \A j \in 1 .. Len(parked[g]) : parked[g][i] = parked[g][j] => i = j

LoopsOK ==
    \A g \in Session : \A d \in drains[g] : \A i \in 1 .. Len(d.rest) :
        /\ pc[d.rest[i]] = "parked"
        /\ SessionOf[d.rest[i]] = g
        /\ \A j \in 1 .. Len(parked[g]) : d.rest[i] # parked[g][j]
        /\ \A e \in drains[g] : \A j \in 1 .. Len(e.rest) :
              d.rest[i] = e.rest[j] => d = e /\ i = j

Structure == Types /\ QueueOK /\ CtxOK /\ ListOK /\ LoopsOK

USE QueueAssumption, PipelineAssumption

-----------------------------------------------------------------------------
(* What releaseAndPromote() does when the queue and the contexts agree: it *)
(* frees the slot and promotes exactly the oldest waiter.                  *)

Promotes(s, w, after) ==
    /\ waiters[s] # << >>
    /\ w = ctx[s][Head(waiters[s])]
    /\ w \in Request /\ pc[w] = "waiting" /\ SessionOf[w] = s
    /\ waiters' = [waiters EXCEPT ![s] = Tail(@)]
    /\ ctx' = [ctx EXCEPT ![s][Head(waiters[s])] = None]
    /\ pc' = [after EXCEPT ![w] = "gates"]
    /\ from' = [from EXCEPT ![w] = "promotion"]
    /\ okSince' = [okSince EXCEPT ![w] = ~capped]

PromotesNobody(s, after) ==
    /\ waiters[s] = << >>
    /\ pc' = after
    /\ UNCHANGED <<waiters, ctx, from, okSince>>

LEMMA ReleaseCases ==
    ASSUME Structure, NEW s \in Session, NEW after, ReleaseAndPromote(s, after)
    PROVE  /\ slot' = [slot EXCEPT ![s] = None]
           /\ PromotesNobody(s, after) \/ \E w \in Request : Promotes(s, w, after)
<1>1. waiters[s] \in Seq(Token) /\ DOMAIN waiters[s] = 1 .. Len(waiters[s]) /\ Len(waiters[s]) \in Nat
  BY DEF Structure, Types, QueueTypeOK
<1>2. WithContext(s) = DOMAIN waiters[s]
  BY DEF WithContext, Structure, QueueOK
<1>3. slot' = [slot EXCEPT ![s] = None]
  BY DEF ReleaseAndPromote, ReleaseAndTake
<1>4. CASE waiters[s] = << >>
  <2>1. WithContext(s) = {} /\ TakenCount(s) = 0
    BY <1>1, <1>2, <1>4 DEF TakenCount
  <2>2. SubSeq(waiters[s], 1, 0) = << >>
    BY <1>1
  <2>3. waiters' = waiters
    BY <2>1, <2>2, <1>4 DEF ReleaseAndPromote, ReleaseAndTake, Structure, Types, QueueTypeOK
  <2> QED BY <1>3, <1>4, <2>1, <2>3 DEF ReleaseAndPromote, PromotesNobody
<1>5. CASE waiters[s] # << >>
  <2>1. Len(waiters[s]) > 0 /\ Head(waiters[s]) = waiters[s][1] /\ waiters[s][1] \in Token
    BY <1>1, <1>5
  <2>2. 1 \in WithContext(s) /\ \A j \in WithContext(s) : 1 <= j
    BY <1>1, <1>2, <2>1
  <2>3. TakenCount(s) = 1
    <3>1. WithContext(s) # {}
      BY <2>2
    <3>2. \A i \in WithContext(s) : (\A j \in WithContext(s) : i <= j) => i = 1
      BY <1>1, <1>2, <2>2
    <3> QED BY <3>1, <3>2, <2>2 DEF TakenCount
  <2>4. SubSeq(waiters[s], 2, Len(waiters[s])) = Tail(waiters[s])
    BY <1>1, <1>5, TailIsSubSeq
  <2> DEFINE w == ctx[s][Head(waiters[s])]
  <2>5. w \in Request /\ pc[w] = "waiting" /\ SessionOf[w] = s
    BY <2>1, <2>2, <1>2 DEF Structure, QueueOK, CtxOK, Types
  <2>6. waiters' = [waiters EXCEPT ![s] = Tail(@)]
    <3>1. waiters' = [waiters EXCEPT ![s] = SubSeq(waiters[s], TakenCount(s) + 1, Len(waiters[s]))]
      BY DEF ReleaseAndPromote, ReleaseAndTake
    <3>2. TakenCount(s) + 1 = 2
      BY <2>3
    <3> QED BY <3>1, <3>2, <2>4
  <2>7. Promotes(s, w, after)
    BY <1>5, <2>1, <2>2, <2>3, <2>5, <2>6 DEF ReleaseAndPromote, Promotes
  <2> QED BY <1>3, <2>5, <2>7
<1> QED BY <1>4, <1>5

(* A release keeps the queue and the contexts in agreement, and disturbs   *)
(* no parked request.                                                      *)
LEMMA ReleaseKeeps ==
    ASSUME Structure, NEW s \in Session, NEW after \in [Request -> PC],
           ReleaseAndPromote(s, after),
           \A q \in Request : pc[q] = "waiting" <=> after[q] = "waiting"
    PROVE  /\ slot' \in [Session -> Token \cup {None}]
           /\ waiters' \in [Session -> Seq(Token)]
           /\ ctx' \in [Session -> [Token -> Request \cup {None}]]
           /\ pc' \in [Request -> PC]
           /\ from' \in [Request -> {"source", "promotion", "replay"}]
           /\ okSince' \in [Request -> BOOLEAN]
           /\ QueueOK' /\ CtxOK'
           /\ \A q \in Request : after[q] = "parked" => pc'[q] = "parked"
<1>1. slot' = [slot EXCEPT ![s] = None]
  BY ReleaseCases
<1>2. CASE PromotesNobody(s, after)
  BY <1>1, <1>2 DEF PromotesNobody, Structure, Types, QueueTypeOK, QueueOK, CtxOK
<1>3. ASSUME NEW w \in Request, Promotes(s, w, after)
      PROVE  /\ slot' \in [Session -> Token \cup {None}]
             /\ waiters' \in [Session -> Seq(Token)]
             /\ ctx' \in [Session -> [Token -> Request \cup {None}]]
             /\ pc' \in [Request -> PC]
             /\ from' \in [Request -> {"source", "promotion", "replay"}]
             /\ okSince' \in [Request -> BOOLEAN]
             /\ QueueOK' /\ CtxOK'
             /\ \A q \in Request : after[q] = "parked" => pc'[q] = "parked"
  <2> DEFINE t == Head(waiters[s])
  <2>1. /\ waiters[s] \in Seq(Token) /\ waiters[s] # << >>
        /\ Len(waiters[s]) \in Nat /\ Len(waiters[s]) >= 1
        /\ t = waiters[s][1] /\ t \in Token
    BY <1>3 DEF Promotes, Structure, Types, QueueTypeOK
  <2>2. /\ Tail(waiters[s]) \in Seq(Token)
        /\ Len(Tail(waiters[s])) = Len(waiters[s]) - 1
        /\ \A i \in 1 .. Len(waiters[s]) - 1 : Tail(waiters[s])[i] = waiters[s][i + 1]
    BY <2>1, HeadTailProperties
  <2>3. waiters' \in [Session -> Seq(Token)] /\ waiters'[s] = Tail(waiters[s])
    BY <1>3, <2>2 DEF Promotes, Structure, Types, QueueTypeOK
  <2>4. /\ pc' \in [Request -> PC]
        /\ from' \in [Request -> {"source", "promotion", "replay"}]
        /\ okSince' \in [Request -> BOOLEAN]
        /\ slot' \in [Session -> Token \cup {None}]
    <3>1. "gates" \in PC
      BY DEF PC, Active, Passing
    <3> QED BY <1>1, <1>3, <3>1 DEF Promotes, Structure, Types, QueueTypeOK
  <2>5. ctx' \in [Session -> [Token -> Request \cup {None}]]
    BY <1>3, <2>1 DEF Promotes, Structure, Types
  <2>6. \A g \in Session, u \in Token :
           ctx'[g][u] = IF g = s /\ u = t THEN None ELSE ctx[g][u]
    BY <1>3, <2>1 DEF Promotes, Structure, Types
  <2>7. QueueOK'
    <3> SUFFICES ASSUME NEW g \in Session, NEW i \in DOMAIN waiters'[g]
                 PROVE  /\ ctx'[g][waiters'[g][i]] # None
                        /\ \A j \in DOMAIN waiters'[g] : waiters'[g][i] = waiters'[g][j] => i = j
      BY DEF QueueOK
    <3>1. CASE g = s
      <4>1. i \in 1 .. Len(waiters[s]) - 1 /\ DOMAIN waiters'[s] = 1 .. Len(waiters[s]) - 1
        BY <2>2, <2>3, <3>1
      <4>2. i + 1 \in DOMAIN waiters[s] /\ 1 \in DOMAIN waiters[s] /\ i + 1 # 1
        BY <2>1, <4>1
      <4>3. waiters[s][i + 1] # t /\ ctx[s][waiters[s][i + 1]] # None
        BY <2>1, <4>2 DEF Structure, QueueOK
      <4>4. waiters'[s][i] = waiters[s][i + 1] /\ waiters[s][i + 1] \in Token
        BY <2>1, <2>2, <2>3, <4>1, <4>2
      <4>5. \A j \in DOMAIN waiters'[s] : waiters'[s][i] = waiters'[s][j] => i = j
        <5> SUFFICES ASSUME NEW j \in 1 .. Len(waiters[s]) - 1, waiters'[s][i] = waiters'[s][j]
                     PROVE  i = j
          BY <4>1
        <5>1. j + 1 \in DOMAIN waiters[s] /\ waiters'[s][j] = waiters[s][j + 1]
          BY <2>1, <2>2, <2>3
        <5>2. i + 1 = j + 1
          BY <4>2, <4>4, <5>1 DEF Structure, QueueOK
        <5> QED BY <4>1, <5>2
      <4> QED BY <2>6, <3>1, <4>3, <4>4, <4>5
    <3>2. CASE g # s
      <4>1. waiters'[g] = waiters[g] /\ waiters[g] \in Seq(Token)
        BY <1>3, <3>2 DEF Promotes, Structure, Types, QueueTypeOK
      <4>2. waiters[g][i] \in Token
        BY <4>1
      <4> QED BY <2>6, <3>2, <4>1, <4>2 DEF Structure, QueueOK
    <3> QED BY <3>1, <3>2
  <2>8. CtxOK'
    <3> SUFFICES ASSUME NEW g \in Session, NEW u \in Token, ctx'[g][u] # None
                 PROVE  /\ pc'[ctx'[g][u]] = "waiting"
                        /\ SessionOf[ctx'[g][u]] = g
                        /\ TokenOf[ctx'[g][u]] = u
      BY DEF CtxOK
    <3> DEFINE v == ctx[g][u]
    <3>1. ctx'[g][u] = v /\ ~(g = s /\ u = t) /\ v # None
      BY <2>6
    <3>2. v \in Request /\ pc[v] = "waiting" /\ SessionOf[v] = g /\ TokenOf[v] = u
      BY <3>1 DEF Structure, CtxOK, Types
    <3>3. SessionOf[w] = s /\ TokenOf[w] = t /\ w = ctx[s][t]
      <4>1. w = ctx[s][t] /\ w # None
        BY <1>3 DEF Promotes
      <4> QED BY <2>1, <4>1 DEF Structure, CtxOK
    <3>4. v # w
      BY <3>1, <3>2, <3>3
    <3>5. pc'[v] = after[v]
      BY <1>3, <3>2, <3>4 DEF Promotes
    <3> QED BY <3>1, <3>2, <3>5
  <2>9. \A q \in Request : after[q] = "parked" => pc'[q] = "parked"
    <3>1. after[w] = "waiting"
      BY <1>3 DEF Promotes
    <3> QED BY <1>3, <3>1 DEF Promotes
  <2> QED BY <2>3, <2>4, <2>5, <2>7, <2>8, <2>9
<1> QED BY <1>2, <1>3, ReleaseCases

(* A step that leaves the queue alone and moves no waiting request.        *)
LEMMA QueueKept ==
    ASSUME Structure, UNCHANGED <<waiters, ctx>>,
           \A q \in Request : pc[q] = "waiting" => pc'[q] = "waiting"
    PROVE  QueueOK' /\ CtxOK'
BY DEF Structure, Types, QueueOK, CtxOK

(* A step that leaves the grace buffer alone and moves no parked request.  *)
LEMMA GraceKept ==
    ASSUME Structure, UNCHANGED graceVars,
           \A q \in Request : pc[q] = "parked" => pc'[q] = "parked"
    PROVE  ListOK' /\ LoopsOK'
<1>1. /\ parked \in [Session -> Seq(Request)]
      /\ \A g \in Session : \A i \in 1 .. Len(parked[g]) : parked[g][i] \in Request
  BY DEF Structure, Types, Grace!GraceTypeOK
<1>2. \A g \in Session : \A d \in drains[g] : \A i \in 1 .. Len(d.rest) : d.rest[i] \in Request
  BY DEF Structure, Types, Grace!GraceTypeOK, Grace!Loop
<1>3. ListOK'
  BY <1>1 DEF Structure, ListOK, graceVars
<1>4. LoopsOK'
  BY <1>2 DEF Structure, LoopsOK, graceVars
<1> QED BY <1>3, <1>4

-----------------------------------------------------------------------------
(* The two shapes of most steps: a request moves, and perhaps releases.    *)

Elsewhere == PC \ {"waiting", "parked"}

QueueState ==
    /\ QueueTypeOK
    /\ ctx \in [Session -> [Token -> Request \cup {None}]]
    /\ pc \in [Request -> PC]
    /\ from \in [Request -> {"source", "promotion", "replay"}]
    /\ okSince \in [Request -> BOOLEAN]
    /\ QueueOK /\ CtxOK

GraceState == Grace!GraceTypeOK /\ ListOK /\ LoopsOK

OtherTypes ==
    /\ hook \in [Session -> Request \cup {None}]
    /\ closing \in SUBSET Request
    /\ charged \in SUBSET Token /\ pending \in SUBSET Token
    /\ online \in [Session -> BOOLEAN] /\ drainDue \in [Session -> BOOLEAN]
    /\ drops \in 0 .. MaxDrops
    /\ capped \in BOOLEAN /\ halted \in BOOLEAN
    /\ clearSince \in [Request -> BOOLEAN]

LEMMA StructureParts ==
    ASSUME QueueState', GraceState', OtherTypes'
    PROVE  Structure'
BY DEF Structure, Types, QueueState, GraceState, OtherTypes, PC

LEMMA GraceTypesKept ==
    ASSUME Structure, UNCHANGED graceVars
    PROVE  Grace!GraceTypeOK'
BY DEF Structure, Types, graceVars, Grace!GraceTypeOK

LEMMA MoveStep ==
    ASSUME Structure, NEW r \in Request, pc[r] \in Elsewhere,
           NEW p \in Elsewhere, Goto(r, p),
           UNCHANGED <<waiters, ctx, from, graceVars>>,
           slot' \in [Session -> Token \cup {None}],
           okSince' \in [Request -> BOOLEAN]
    PROVE  QueueState' /\ GraceState'
<1>1. pc' \in [Request -> PC] /\ \A q \in Request : q # r => pc'[q] = pc[q]
  BY DEF Goto, Structure, Types, PC, Elsewhere
<1>2. \A q \in Request : pc[q] = "waiting" => pc'[q] = "waiting"
  BY <1>1 DEF Elsewhere
<1>3. \A q \in Request : pc[q] = "parked" => pc'[q] = "parked"
  BY <1>1 DEF Elsewhere
<1>4. QueueOK' /\ CtxOK'
  BY <1>2, QueueKept
<1>5. ListOK' /\ LoopsOK' /\ Grace!GraceTypeOK'
  BY <1>3, GraceKept, GraceTypesKept
<1> QED BY <1>1, <1>4, <1>5 DEF QueueState, GraceState, Structure, Types, QueueTypeOK

LEMMA MoveAndRelease ==
    ASSUME Structure, NEW r \in Request, pc[r] \in Elsewhere,
           NEW p \in PC \ {"waiting"}, ReleaseAndPromote(SessionOf[r], [pc EXCEPT ![r] = p])
    PROVE  /\ QueueState'
           /\ \A q \in Request : pc[q] = "parked" => pc'[q] = "parked"
           /\ p = "parked" => pc'[r] = "parked"
<1> DEFINE after == [pc EXCEPT ![r] = p]
<1>1. after \in [Request -> PC] /\ SessionOf[r] \in Session
  BY DEF Structure, Types, PC
<1>2. \A q \in Request : pc[q] = "waiting" <=> after[q] = "waiting"
  BY DEF Elsewhere, Structure, Types
<1>3. /\ QueueState'
      /\ \A q \in Request : after[q] = "parked" => pc'[q] = "parked"
  <2> HIDE DEF after
  <2>1. ReleaseAndPromote(SessionOf[r], after)
    BY DEF after
  <2> QED BY <1>1, <1>2, <2>1, ReleaseKeeps DEF QueueState, QueueTypeOK
<1>4. \A q \in Request : pc[q] = "parked" => after[q] = "parked"
  BY DEF Elsewhere, Structure, Types
<1>5. p = "parked" => after[r] = "parked"
  BY DEF Structure, Types
<1> QED BY <1>3, <1>4, <1>5

LEMMA MoveReleaseStep ==
    ASSUME Structure, NEW r \in Request, pc[r] \in Elsewhere,
           NEW p \in Elsewhere, ReleaseAndPromote(SessionOf[r], [pc EXCEPT ![r] = p]),
           UNCHANGED graceVars
    PROVE  QueueState' /\ GraceState'
<1>1. p \in PC \ {"waiting"}
  BY DEF Elsewhere
<1>2. QueueState' /\ \A q \in Request : pc[q] = "parked" => pc'[q] = "parked"
  BY <1>1, MoveAndRelease
<1> QED BY <1>2, GraceKept, GraceTypesKept DEF GraceState

-----------------------------------------------------------------------------
(* The structure is inductive: one lemma for each group of actions.        *)

LEMMA Whereabouts ==
    /\ Passing \subseteq Elsewhere /\ Holding \subseteq Elsewhere
    /\ {"new", "sent", "skipped", "dropped", "absorbed", "failed", "threw", "closed"} \subseteq Elsewhere
BY DEF Elsewhere, PC, Active, Passing, Holding, Settled

(* Steps of an activation that neither take nor give back a slot.          *)
LEMMA PlainSteps ==
    ASSUME Structure, NEW r \in Request,
           \/ Start(r) \/ KillSwitchPasses(r) \/ CapsPass(r) \/ LifetimePasses(r)
           \/ GatesBlock(r) \/ GatesFail(r) \/ DropBusy(r)
           \/ OpenRow(r) \/ OpenThrows(r) \/ MarkDispatched(r) \/ FinalHaltCheck(r)
           \/ BeginSend(r) \/ Send(r) \/ SendThrows(r) \/ GiveBack(r) \/ Hang(r) \/ ClaimSlot(r)
    PROVE  Structure'
<1> DEFINE Change(p) ==
       /\ pc[r] \in Elsewhere /\ p \in Elsewhere /\ Goto(r, p)
       /\ UNCHANGED <<waiters, ctx, from, graceVars>>
       /\ slot' \in [Session -> Token \cup {None}]
       /\ okSince' \in [Request -> BOOLEAN]
       /\ OtherTypes'
<1>0. /\ slot \in [Session -> Token \cup {None}] /\ okSince \in [Request -> BOOLEAN]
      /\ hook \in [Session -> Request \cup {None}] /\ clearSince \in [Request -> BOOLEAN]
      /\ capped \in BOOLEAN /\ halted \in BOOLEAN /\ OtherTypes
      /\ SessionOf[r] \in Session /\ TokenOf[r] \in Token
  BY DEF Structure, Types, QueueTypeOK, OtherTypes
<1>1. CASE Start(r)
  <2>1. Change("gates")
    BY <1>0, <1>1, Whereabouts DEF Start, Passing, queueVars, ledgerVars, worldVars, OtherTypes
  <2> QED BY <2>1, MoveStep, StructureParts
<1>2. CASE KillSwitchPasses(r) \/ CapsPass(r) \/ LifetimePasses(r)
  <2>1. \E p \in {"caps", "lifetime", "claim"} : Change(p)
    BY <1>0, <1>2, Whereabouts
       DEF KillSwitchPasses, CapsPass, LifetimePasses, AtCaps, PastCaps, Passing, queueVars, ledgerVars,
           worldVars, ledgerVars, OtherTypes
  <2> QED BY <2>1, MoveStep, StructureParts
<1>3. CASE GatesBlock(r)
  <2>1. Change("skipping")
    BY <1>0, <1>3, Whereabouts DEF GatesBlock, AtCaps, Passing, queueVars, ledgerVars, worldVars, OtherTypes
  <2> QED BY <2>1, MoveStep, StructureParts
<1>4. CASE GatesFail(r)
  <2>1. Change("threw")
    BY <1>0, <1>4, Whereabouts DEF GatesFail, AtCaps, Passing, queueVars, ledgerVars, worldVars, OtherTypes
  <2> QED BY <2>1, MoveStep, StructureParts
<1>5. CASE DropBusy(r)
  <2>1. Change("dropped")
    BY <1>0, <1>5, Whereabouts DEF DropBusy, Passing, queueVars, ledgerVars, worldVars, OtherTypes
  <2> QED BY <2>1, MoveStep, StructureParts
<1>6. CASE OpenRow(r)
  <2>1. Change("marking")
    BY <1>0, <1>6, Whereabouts DEF OpenRow, Holding, queueVars, ledgerVars, worldVars, OtherTypes
  <2> QED BY <2>1, MoveStep, StructureParts
<1>7. CASE OpenThrows(r)
  <2>1. Change("openFailed")
    BY <1>0, <1>7, Whereabouts DEF OpenThrows, Holding, queueVars, ledgerVars, worldVars, OtherTypes
  <2> QED BY <2>1, MoveStep, StructureParts
<1>8. CASE MarkDispatched(r)
  <2>1. Change("halt") \/ Change("send")
    BY <1>0, <1>8, Whereabouts DEF MarkDispatched, Holding, queueVars, ledgerVars, worldVars, OtherTypes
  <2> QED BY <2>1, MoveStep, StructureParts
<1>9. CASE FinalHaltCheck(r)
  <2>1. Change("send") \/ Change("haltUnwind") \/ Change("halting")
    BY <1>0, <1>9, Whereabouts DEF FinalHaltCheck, Holding, queueVars, ledgerVars, worldVars, OtherTypes
  <2> QED BY <2>1, MoveStep, StructureParts
<1>10. CASE BeginSend(r)
  <2>1. Change("sending")
    BY <1>0, <1>10, Whereabouts DEF BeginSend, Holding, queueVars, ledgerVars, worldVars, OtherTypes
  <2> QED BY <2>1, MoveStep, StructureParts
<1>11. CASE Send(r)
  <2>1. Change("sent")
    BY <1>0, <1>11, Whereabouts DEF Send, Holding, queueVars, ledgerVars, worldVars, OtherTypes
  <2> QED BY <2>1, MoveStep, StructureParts
<1>12. CASE SendThrows(r)
  <2>1. Change("unwind") \/ Change("failing")
    BY <1>0, <1>12, Whereabouts DEF SendThrows, Holding, queueVars, ledgerVars, worldVars, OtherTypes
  <2> QED BY <2>1, MoveStep, StructureParts
<1>13. CASE Hang(r)
  <2>1. Change("hung")
    BY <1>0, <1>13, Whereabouts DEF Hang, Holding, queueVars, ledgerVars, worldVars, OtherTypes
  <2> QED BY <2>1, MoveStep, StructureParts
<1>14. CASE ClaimSlot(r)
  <2>1. Change("online")
    BY <1>0, <1>14, Whereabouts DEF ClaimSlot, Claim, Passing, Holding, ledgerVars, worldVars, OtherTypes
  <2> QED BY <2>1, MoveStep, StructureParts
<1>15. CASE GiveBack(r)
  <2>1. charged' \in SUBSET Token /\ pending' \in SUBSET Token
    BY <1>0, <1>15 DEF GiveBack, ReleaseInject, Healed, ledgerVars, OtherTypes
  <2>2. Change("failing") \/ Change("halting")
    BY <1>0, <1>15, <2>1, Whereabouts DEF GiveBack, Holding, queueVars, ledgerVars, worldVars, OtherTypes
  <2> QED BY <2>2, MoveStep, StructureParts
<1> QED BY <1>1, <1>2, <1>3, <1>4, <1>5, <1>6, <1>7, <1>8, <1>9, <1>10, <1>11, <1>12, <1>13, <1>14, <1>15

(* Steps that give the slot back and leave the grace buffer alone.         *)
LEMMA RefuseStep ==
    ASSUME Structure, NEW r \in Request, pc[r] \in Holding, Refuse(r)
    PROVE  Structure'
<1>1. pc[r] \in Elsewhere /\ "skipping" \in Elsewhere
  BY Whereabouts DEF Passing
<1>2. QueueState' /\ GraceState'
  BY <1>1, MoveReleaseStep DEF Refuse, FreeSlot
<1>3. OtherTypes'
  BY DEF Refuse, ledgerVars, worldVars, OtherTypes, Structure, Types
<1> QED BY <1>2, <1>3, StructureParts

LEMMA ReleasingSteps ==
    ASSUME Structure, NEW r \in Request,
           ReturnSkipped(r) \/ RethrowOpen(r) \/ Unwind(r) \/ FinishClose(r)
    PROVE  Structure'
<1>0. OtherTypes /\ SessionOf[r] \in Session /\ TokenOf[r] \in Token
  BY DEF Structure, Types, OtherTypes
<1>1. CASE ReturnSkipped(r)
  <2>1. pc[r] \in Elsewhere /\ "skipped" \in Elsewhere /\ UNCHANGED graceVars
    BY <1>1, Whereabouts DEF ReturnSkipped, Passing
  <2>2. OtherTypes'
    BY <1>0, <1>1 DEF ReturnSkipped, ledgerVars, worldVars, OtherTypes
  <2>3. QueueState' /\ GraceState'
    <3>1. CASE ReleaseAndPromote(SessionOf[r], [pc EXCEPT ![r] = "skipped"])
      BY <2>1, <3>1, MoveReleaseStep
    <3>2. CASE Goto(r, "skipped") /\ UNCHANGED <<queueVars, ctx, from, okSince>>
      BY <2>1, <3>2, MoveStep DEF queueVars, Structure, Types, QueueTypeOK
    <3> QED BY <1>1, <3>1, <3>2 DEF ReturnSkipped
  <2> QED BY <2>2, <2>3, StructureParts
<1>2. CASE RethrowOpen(r)
  <2>1. pc[r] \in Elsewhere /\ "threw" \in Elsewhere
    BY <1>2, Whereabouts DEF RethrowOpen, Holding
  <2>2. OtherTypes'
    BY <1>0, <1>2 DEF RethrowOpen, ReleaseInject, Healed, ledgerVars, worldVars, OtherTypes
  <2>3. QueueState' /\ GraceState'
    BY <1>2, <2>1, MoveReleaseStep DEF RethrowOpen, FreeSlot
  <2> QED BY <2>2, <2>3, StructureParts
<1>3. CASE Unwind(r)
  <2> DEFINE p == IF pc[r] = "failing" THEN "failed" ELSE "skipping"
  <2>1. pc[r] \in Elsewhere /\ p \in Elsewhere
    BY <1>3, Whereabouts DEF Unwind, Holding, Passing
  <2>2. OtherTypes'
    BY <1>0, <1>3 DEF Unwind, ledgerVars, worldVars, OtherTypes
  <2>3. QueueState' /\ GraceState'
    BY <1>3, <2>1, MoveReleaseStep DEF Unwind, FreeSlot
  <2> QED BY <2>2, <2>3, StructureParts
<1>4. CASE FinishClose(r)
  <2> DEFINE after == [pc EXCEPT ![r] = IF pc[r] = "sent" THEN "closed" ELSE @]
  <2>1. /\ after \in [Request -> PC]
        /\ \A q \in Request : pc[q] = "waiting" <=> after[q] = "waiting"
        /\ \A q \in Request : pc[q] = "parked" => after[q] = "parked"
    <3>1. "closed" \in PC
      BY DEF PC, Settled
    <3>2. pc \in [Request -> PC]
      BY DEF Structure, Types, PC
    <3> QED BY <3>1, <3>2
  <2>2. OtherTypes'
    BY <1>0, <1>4 DEF FinishClose, ledgerVars, worldVars, OtherTypes
  <2>3. ReleaseAndPromote(SessionOf[r], after) /\ UNCHANGED graceVars
    BY <1>4 DEF FinishClose
  <2> HIDE DEF after
  <2>4. QueueState' /\ \A q \in Request : after[q] = "parked" => pc'[q] = "parked"
    BY <1>0, <2>1, <2>3, ReleaseKeeps DEF QueueState, QueueTypeOK
  <2>5. GraceState'
    BY <2>1, <2>3, <2>4, GraceKept, GraceTypesKept DEF GraceState
  <2> QED BY <2>2, <2>4, <2>5, StructureParts
<1> QED BY <1>1, <1>2, <1>3, <1>4

(* Parking: the slot is given back and, unless a live twin is parked       *)
(* already, the request joins its session's list.                          *)
LEMMA ParkStep ==
    ASSUME Structure, NEW r \in Request, pc[r] \in Holding, Park(r)
    PROVE  Structure'
<1> DEFINE s == SessionOf[r]
<1>0. s \in Session /\ pc[r] \in Elsewhere /\ pc[r] # "parked"
  BY Whereabouts DEF Elsewhere
<1>1. OtherTypes'
  BY DEF Park, ledgerVars, worldVars, OtherTypes, Structure, Types
<1>2. CASE Grace!HasLive(s, TokenOf[r])
  <2>1. ReleaseAndPromote(s, [pc EXCEPT ![r] = "absorbed"]) /\ UNCHANGED graceVars
    BY <1>2 DEF Park, Grace!Register, graceVars
  <2>2. "absorbed" \in Elsewhere
    BY Whereabouts
  <2> QED BY <1>0, <1>1, <2>1, <2>2, MoveReleaseStep, StructureParts
<1>3. CASE ~Grace!HasLive(s, TokenOf[r])
  <2>1. /\ ReleaseAndPromote(s, [pc EXCEPT ![r] = "parked"])
        /\ parked' = [parked EXCEPT ![s] = Append(@, r)]
        /\ UNCHANGED <<stale, drains>>
    BY <1>3 DEF Park, Grace!Register
  <2>2. "parked" \in PC \ {"waiting"}
    BY DEF PC, Settled
  <2>3. /\ QueueState'
        /\ \A q \in Request : pc[q] = "parked" => pc'[q] = "parked"
        /\ pc'[r] = "parked"
    BY <1>0, <2>1, <2>2, MoveAndRelease
  <2>4. /\ parked \in [Session -> Seq(Request)] /\ stale \in [Session -> Nat]
        /\ drains \in [Session -> SUBSET Grace!Loop]
        /\ \A g \in Session : Len(parked[g]) \in Nat
        /\ \A g \in Session : \A i \in 1 .. Len(parked[g]) : parked[g][i] \in Request
        /\ \A g \in Session : \A d \in drains[g] : \A i \in 1 .. Len(d.rest) : d.rest[i] \in Request
    BY DEF Structure, Types, Grace!GraceTypeOK, Grace!Loop
  <2>5. /\ parked' \in [Session -> Seq(Request)]
        /\ parked'[s] = Append(parked[s], r)
        /\ \A g \in Session : g # s => parked'[g] = parked[g]
    BY <1>0, <2>1, <2>4
  <2>6. /\ Len(parked'[s]) = Len(parked[s]) + 1
        /\ parked'[s][Len(parked[s]) + 1] = r
        /\ \A i \in 1 .. Len(parked[s]) : parked'[s][i] = parked[s][i]
    BY <1>0, <2>4, <2>5, AppendProperties
  <2>7. /\ \A g \in Session : \A i \in 1 .. Len(parked[g]) : parked[g][i] # r
        /\ \A g \in Session : \A d \in drains[g] : \A i \in 1 .. Len(d.rest) : d.rest[i] # r
    BY <1>0 DEF Structure, ListOK, LoopsOK
  <2>8. ListOK'
    <3> SUFFICES ASSUME NEW g \in Session
                 PROVE  /\ stale[g] <= Len(parked'[g])
                        /\ \A i \in 1 .. Len(parked'[g]) :
                              /\ pc'[parked'[g][i]] = "parked"
                              /\ SessionOf[parked'[g][i]] = g
                              /\ \A j \in 1 .. Len(parked'[g]) : parked'[g][i] = parked'[g][j] => i = j
      BY <2>1 DEF ListOK
    <3>1. CASE g # s
      <4>1. parked'[g] = parked[g]
        BY <2>5, <3>1
      <4>2. /\ stale[g] <= Len(parked[g])
            /\ \A i \in 1 .. Len(parked[g]) :
                  /\ pc[parked[g][i]] = "parked"
                  /\ SessionOf[parked[g][i]] = g
                  /\ \A j \in 1 .. Len(parked[g]) : parked[g][i] = parked[g][j] => i = j
        BY DEF Structure, ListOK
      <4>3. \A i \in 1 .. Len(parked[g]) : pc'[parked[g][i]] = "parked"
        BY <2>3, <2>4, <4>2
      <4> QED BY <4>1, <4>2, <4>3
    <3>2. CASE g = s
      <4>1. stale[g] <= Len(parked'[g])
        BY <2>4, <2>6, <3>2 DEF Structure, ListOK
      <4>2. \A i \in 1 .. Len(parked'[g]) :
               \/ i \in 1 .. Len(parked[g]) /\ parked'[g][i] = parked[g][i]
               \/ i = Len(parked[g]) + 1 /\ parked'[g][i] = r
        BY <2>4, <2>6, <3>2
      <4>3. \A i \in 1 .. Len(parked'[g]) : pc'[parked'[g][i]] = "parked" /\ SessionOf[parked'[g][i]] = g
        <5> SUFFICES ASSUME NEW i \in 1 .. Len(parked'[g])
                     PROVE  pc'[parked'[g][i]] = "parked" /\ SessionOf[parked'[g][i]] = g
          OBVIOUS
        <5>1. CASE i \in 1 .. Len(parked[g]) /\ parked'[g][i] = parked[g][i]
          <6>1. parked[g][i] \in Request /\ pc[parked[g][i]] = "parked" /\ SessionOf[parked[g][i]] = g
            BY <2>4, <5>1 DEF Structure, ListOK
          <6> QED BY <2>3, <5>1, <6>1
        <5>2. CASE parked'[g][i] = r
          BY <2>3, <3>2, <5>2
        <5> QED BY <4>2, <5>1, <5>2
      <4>4. \A i, j \in 1 .. Len(parked'[g]) : parked'[g][i] = parked'[g][j] => i = j
        <5> SUFFICES ASSUME NEW i \in 1 .. Len(parked'[g]), NEW j \in 1 .. Len(parked'[g]),
                            parked'[g][i] = parked'[g][j]
                     PROVE  i = j
          OBVIOUS
        <5>1. \A k \in 1 .. Len(parked[g]) : parked[g][k] # r
          BY <2>7
        <5>2. CASE i \in 1 .. Len(parked[g]) /\ j \in 1 .. Len(parked[g])
          <6>1. parked[g][i] = parked[g][j]
            BY <2>6, <3>2, <5>2
          <6> QED BY <5>2, <6>1 DEF Structure, ListOK
        <5>3. CASE i \notin 1 .. Len(parked[g]) /\ j \in 1 .. Len(parked[g])
          BY <2>6, <3>2, <4>2, <5>1, <5>3
        <5>4. CASE i \in 1 .. Len(parked[g]) /\ j \notin 1 .. Len(parked[g])
          BY <2>6, <3>2, <4>2, <5>1, <5>4
        <5>5. CASE i \notin 1 .. Len(parked[g]) /\ j \notin 1 .. Len(parked[g])
          BY <4>2, <5>5
        <5> QED BY <5>2, <5>3, <5>4, <5>5
      <4> QED BY <4>1, <4>3, <4>4
    <3> QED BY <3>1, <3>2
  <2>11. \A j \in 1 .. Len(parked'[s]) :
           \/ j \in 1 .. Len(parked[s]) /\ parked'[s][j] = parked[s][j]
           \/ parked'[s][j] = r
    BY <1>0, <2>4, <2>6
  <2>9. LoopsOK'
    <3> SUFFICES ASSUME NEW g \in Session, NEW d \in drains[g], NEW i \in 1 .. Len(d.rest)
                 PROVE  /\ pc'[d.rest[i]] = "parked"
                        /\ SessionOf[d.rest[i]] = g
                        /\ \A j \in 1 .. Len(parked'[g]) : d.rest[i] # parked'[g][j]
                        /\ \A e \in drains[g] : \A j \in 1 .. Len(e.rest) :
                              d.rest[i] = e.rest[j] => d = e /\ i = j
      BY <2>1 DEF LoopsOK
    <3>1. \A j \in 1 .. Len(parked'[g]) : d.rest[i] # parked'[g][j]
      <4>0. /\ d.rest[i] # r
            /\ \A j \in 1 .. Len(parked[g]) : d.rest[i] # parked[g][j]
        BY <2>7 DEF Structure, LoopsOK
      <4>1. CASE g # s
        BY <2>5, <4>0, <4>1
      <4>2. CASE g = s
        BY <2>11, <4>0, <4>2
      <4> QED BY <4>1, <4>2
    <3>2. d.rest[i] \in Request /\ pc[d.rest[i]] = "parked" /\ SessionOf[d.rest[i]] = g
      BY <2>4 DEF Structure, LoopsOK
    <3>3. \A e \in drains[g] : \A j \in 1 .. Len(e.rest) :
             d.rest[i] = e.rest[j] => d = e /\ i = j
      BY DEF Structure, LoopsOK
    <3> QED BY <2>3, <3>1, <3>2, <3>3
  <2>10. Grace!GraceTypeOK'
    BY <2>1, <2>4, <2>5 DEF Grace!GraceTypeOK
  <2> QED BY <1>1, <2>3, <2>8, <2>9, <2>10, StructureParts DEF GraceState
<1> QED BY <1>2, <1>3

(* The three calls that may park or refuse, and the guard.                 *)
LEMMA GuardSteps ==
    ASSUME Structure, NEW r \in Request,
           IsOnline(r) \/ PreEnsureCheck(r) \/ EnsureOnline(r) \/ PreSendGuard(r) \/ ReserveInject(r)
    PROVE  Structure'
<1> DEFINE Change(p) ==
       /\ p \in Elsewhere /\ Goto(r, p)
       /\ UNCHANGED <<slot, waiters, ctx, from, okSince, graceVars>>
       /\ OtherTypes'
<1>0. /\ OtherTypes /\ TokenOf[r] \in Token
      /\ pc[r] \in Holding
      /\ {"guard", "reserve", "open", "precheck", "ensure"} \subseteq Elsewhere
  BY Whereabouts
     DEF Structure, Types, OtherTypes, Holding, IsOnline, PreEnsureCheck, EnsureOnline, PreSendGuard,
         ReserveInject
<1>1. ASSUME NEW p, Change(p)
      PROVE  Structure'
  <2>1. /\ slot' \in [Session -> Token \cup {None}] /\ okSince' \in [Request -> BOOLEAN]
        /\ pc[r] \in Elsewhere
    BY <1>0, <1>1, Whereabouts DEF Structure, Types, QueueTypeOK
  <2> QED BY <1>1, <2>1, MoveStep, StructureParts
<1>2. PastOnline(r) \in Elsewhere /\ PastHaltRead(r) \in Elsewhere
  BY <1>0 DEF PastOnline, PastHaltRead
<1>3. CASE IsOnline(r)
  <2>1. (\E p \in Elsewhere : Change(p)) \/ Park(r)
    BY <1>0, <1>2, <1>3 DEF IsOnline, queueVars, ledgerVars, worldVars, OtherTypes
  <2> QED BY <1>0, <1>1, <2>1, ParkStep
<1>4. CASE PreEnsureCheck(r)
  <2>1. Change("ensure") \/ Refuse(r)
    BY <1>0, <1>4 DEF PreEnsureCheck, queueVars, ledgerVars, worldVars, OtherTypes
  <2> QED BY <1>0, <1>1, <2>1, RefuseStep
<1>5. CASE EnsureOnline(r)
  <2>1. Change(PastOnline(r)) \/ Park(r)
    BY <1>0, <1>2, <1>5 DEF EnsureOnline, queueVars, ledgerVars, worldVars, OtherTypes
  <2> QED BY <1>0, <1>1, <2>1, ParkStep
<1>6. CASE PreSendGuard(r)
  <2>1. Change(PastHaltRead(r)) \/ Refuse(r)
    BY <1>0, <1>2, <1>6 DEF PreSendGuard, queueVars, ledgerVars, worldVars, OtherTypes
  <2> QED BY <1>0, <1>1, <2>1, RefuseStep
<1>7. CASE ReserveInject(r)
  <2>1. charged' \in SUBSET Token /\ pending' \in SUBSET Token
    BY <1>0, <1>7 DEF ReserveInject, Healed, OtherTypes
  <2>2. OtherTypes'
    BY <1>0, <1>7, <2>1 DEF ReserveInject, worldVars, ledgerVars, OtherTypes
  <2>3. CASE Goto(r, "open") /\ UNCHANGED <<queueVars, ctx, from, okSince>>
    <3>1. Change("open")
      BY <1>0, <1>7, <2>2, <2>3 DEF ReserveInject, queueVars
    <3> QED BY <1>1, <3>1
  <2>4. CASE FreeSlot(r, "skipping")
    <3>1. pc[r] \in Elsewhere /\ "skipping" \in Elsewhere /\ UNCHANGED graceVars
      BY <1>0, <1>7, Whereabouts DEF ReserveInject, Passing
    <3> QED BY <2>2, <2>4, <3>1, MoveReleaseStep, StructureParts DEF FreeSlot
  <2> QED BY <1>7, <2>3, <2>4 DEF ReserveInject
<1> QED BY <1>3, <1>4, <1>5, <1>6, <1>7

(* Joining the tail of the queue.                                          *)
LEMMA JoinQueueStep ==
    ASSUME Structure, NEW r \in Request, JoinQueue(r)
    PROVE  Structure'
<1> DEFINE s == SessionOf[r]
           t == TokenOf[r]
<1>0. /\ s \in Session /\ t \in Token /\ pc[r] = "claim"
      /\ waiters \in [Session -> Seq(Token)] /\ ctx \in [Session -> [Token -> Request \cup {None}]]
      /\ pc \in [Request -> PC]
      /\ "waiting" \in PC /\ None \notin Request
  BY DEF Structure, Types, QueueTypeOK, JoinQueue, PC, Settled
<1>1. /\ waiters' = [waiters EXCEPT ![s] = Append(@, t)] /\ slot' = slot
      /\ ctx' = [ctx EXCEPT ![s][t] = r]
      /\ pc' = [pc EXCEPT ![r] = "waiting"]
      /\ \A i \in DOMAIN waiters[s] : waiters[s][i] # t
      /\ UNCHANGED <<hook, from, closing, ledgerVars, graceVars, worldVars, okSince, clearSince>>
  BY <1>0 DEF JoinQueue, Wait, IsDuplicate, IsWaiting, Goto
<1>2. OtherTypes'
  BY <1>1 DEF ledgerVars, worldVars, OtherTypes, Structure, Types
<1>3. GraceState'
  <2>1. \A q \in Request : pc[q] = "parked" => pc'[q] = "parked"
    BY <1>0, <1>1
  <2> QED BY <1>1, <2>1, GraceKept, GraceTypesKept DEF GraceState
<1>4. /\ waiters' \in [Session -> Seq(Token)]
      /\ ctx' \in [Session -> [Token -> Request \cup {None}]]
      /\ pc' \in [Request -> PC]
      /\ \A g \in Session : g # s => waiters'[g] = waiters[g]
      /\ \A g \in Session, u \in Token :
            ctx'[g][u] = IF g = s /\ u = t THEN r ELSE ctx[g][u]
  BY <1>0, <1>1
<1>5. /\ waiters'[s] = Append(waiters[s], t) /\ waiters[s] \in Seq(Token)
      /\ Len(waiters[s]) \in Nat
      /\ DOMAIN waiters'[s] = 1 .. Len(waiters[s]) + 1
      /\ DOMAIN waiters[s] = 1 .. Len(waiters[s])
      /\ waiters'[s][Len(waiters[s]) + 1] = t
      /\ \A i \in DOMAIN waiters[s] : waiters'[s][i] = waiters[s][i]
  BY <1>0, <1>1, AppendProperties
<1>6. QueueOK'
  <2> SUFFICES ASSUME NEW g \in Session, NEW i \in DOMAIN waiters'[g]
               PROVE  /\ ctx'[g][waiters'[g][i]] # None
                      /\ \A j \in DOMAIN waiters'[g] : waiters'[g][i] = waiters'[g][j] => i = j
    BY DEF QueueOK
  <2>1. CASE g # s
    <3>1. waiters'[g] = waiters[g] /\ waiters[g] \in Seq(Token) /\ i \in DOMAIN waiters[g]
      BY <1>0, <1>4, <2>1
    <3>2. waiters[g][i] \in Token
      BY <3>1
    <3>3. ctx'[g][waiters'[g][i]] = ctx[g][waiters[g][i]]
      BY <1>4, <2>1, <3>1, <3>2
    <3> QED BY <3>1, <3>3 DEF Structure, QueueOK
  <2>2. CASE g = s
    <3>1. \A k \in DOMAIN waiters'[s] :
             \/ k \in DOMAIN waiters[s] /\ waiters'[s][k] = waiters[s][k] /\ waiters[s][k] \in Token
             \/ k = Len(waiters[s]) + 1 /\ waiters'[s][k] = t
      BY <1>0, <1>5
    <3>2. \A k \in DOMAIN waiters[s] : waiters[s][k] # t
      BY <1>1
    <3>3. ctx'[s][waiters'[s][i]] # None
      <4>1. CASE i \in DOMAIN waiters[s] /\ waiters'[s][i] = waiters[s][i] /\ waiters[s][i] \in Token
        <5>1. ctx[s][waiters[s][i]] # None
          BY <1>0, <4>1 DEF Structure, QueueOK
        <5>2. waiters[s][i] # t
          BY <3>2, <4>1
        <5>3. ctx'[s][waiters[s][i]] = ctx[s][waiters[s][i]]
          BY <1>0, <1>4, <4>1, <5>2
        <5> QED BY <4>1, <5>1, <5>3
      <4>2. CASE waiters'[s][i] = t
        BY <1>0, <1>4, <4>2
      <4> QED BY <2>2, <3>1, <4>1, <4>2
    <3>4. \A j \in DOMAIN waiters'[s] : waiters'[s][i] = waiters'[s][j] => i = j
      BY <2>2, <3>1, <3>2 DEF Structure, QueueOK
    <3> QED BY <2>2, <3>3, <3>4
  <2> QED BY <2>1, <2>2
<1>7. CtxOK'
  <2> SUFFICES ASSUME NEW g \in Session, NEW u \in Token, ctx'[g][u] # None
               PROVE  /\ pc'[ctx'[g][u]] = "waiting"
                      /\ SessionOf[ctx'[g][u]] = g
                      /\ TokenOf[ctx'[g][u]] = u
    BY DEF CtxOK
  <2>1. CASE g = s /\ u = t
    BY <1>0, <1>1, <1>4, <2>1
  <2>2. CASE ~(g = s /\ u = t)
    <3>1. ctx'[g][u] = ctx[g][u]
      BY <1>4, <2>2
    <3>2. /\ ctx[g][u] \in Request /\ pc[ctx[g][u]] = "waiting"
          /\ SessionOf[ctx[g][u]] = g /\ TokenOf[ctx[g][u]] = u
      BY <1>0, <3>1 DEF Structure, CtxOK
    <3> QED BY <1>0, <1>1, <3>1, <3>2
  <2> QED BY <2>1, <2>2
<1>8. QueueState'
  BY <1>1, <1>4, <1>6, <1>7 DEF QueueState, QueueTypeOK, Structure, Types
<1> QED BY <1>2, <1>3, <1>8, StructureParts

(* Joining behind a twin: the context changes hands.                       *)
LEMMA JoinTwinStep ==
    ASSUME Structure, NEW r \in Request, JoinTwin(r)
    PROVE  Structure'
<1> DEFINE s == SessionOf[r]
           t == TokenOf[r]
           twin == ctx[s][t]
<1>0. /\ s \in Session /\ t \in Token /\ pc[r] = "claim"
      /\ waiters \in [Session -> Seq(Token)] /\ ctx \in [Session -> [Token -> Request \cup {None}]]
      /\ pc \in [Request -> PC]
      /\ {"waiting", "superseded", "absorbed"} \subseteq PC /\ None \notin Request
      /\ UNCHANGED <<queueVars, hook, from, closing, ledgerVars, graceVars, worldVars, okSince, clearSince>>
  BY DEF Structure, Types, QueueTypeOK, JoinTwin, PC, Settled
<1>1. OtherTypes'
  BY <1>0 DEF ledgerVars, worldVars, OtherTypes, Structure, Types
<1>2. CASE Goto(r, "absorbed") /\ UNCHANGED ctx
  <2>1. pc[r] \in Elsewhere /\ "absorbed" \in Elsewhere
    BY <1>0, Whereabouts DEF Passing
  <2>2. slot' \in [Session -> Token \cup {None}] /\ okSince' \in [Request -> BOOLEAN]
    BY <1>0 DEF Structure, Types, QueueTypeOK, queueVars
  <2> QED BY <1>0, <1>1, <1>2, <2>1, <2>2, MoveStep, StructureParts DEF queueVars
<1>3. CASE /\ IsWaiting(s, t)
           /\ ctx' = [ctx EXCEPT ![s][t] = r]
           /\ pc' = [q \in Request |-> IF q = r THEN "waiting"
                                       ELSE IF q = twin THEN "superseded" ELSE pc[q]]
  <2>1. twin \in Request /\ pc[twin] = "waiting" /\ SessionOf[twin] = s /\ TokenOf[twin] = t
    <3>1. twin # None
      BY <1>3 DEF IsWaiting, Structure, QueueOK
    <3> QED BY <1>0, <3>1 DEF Structure, CtxOK
  <2>2. /\ ctx' \in [Session -> [Token -> Request \cup {None}]]
        /\ pc' \in [Request -> PC]
        /\ \A g \in Session, u \in Token :
              ctx'[g][u] = IF g = s /\ u = t THEN r ELSE ctx[g][u]
    BY <1>0, <1>3
  <2>3. GraceState'
    <3>1. \A q \in Request : pc[q] = "parked" => pc'[q] = "parked"
      BY <1>0, <1>3, <2>1
    <3> QED BY <1>0, <3>1, GraceKept, GraceTypesKept DEF GraceState
  <2>4. QueueOK'
    <3>1. waiters' = waiters /\ \A g \in Session : \A i \in DOMAIN waiters[g] : waiters[g][i] \in Token
      BY <1>0 DEF queueVars
    <3>2. \A g \in Session : \A i \in DOMAIN waiters[g] : ctx'[g][waiters[g][i]] # None
      <4> SUFFICES ASSUME NEW g \in Session, NEW i \in DOMAIN waiters[g]
                   PROVE  ctx'[g][waiters[g][i]] # None
        OBVIOUS
      <4>1. ctx[g][waiters[g][i]] # None
        BY DEF Structure, QueueOK
      <4>2. ctx'[g][waiters[g][i]] \in {r, ctx[g][waiters[g][i]]}
        BY <2>2, <3>1
      <4> QED BY <1>0, <4>1, <4>2
    <3> QED BY <3>1, <3>2 DEF Structure, QueueOK
  <2>5. CtxOK'
    <3> SUFFICES ASSUME NEW g \in Session, NEW u \in Token, ctx'[g][u] # None
                 PROVE  /\ pc'[ctx'[g][u]] = "waiting"
                        /\ SessionOf[ctx'[g][u]] = g
                        /\ TokenOf[ctx'[g][u]] = u
      BY DEF CtxOK
    <3>1. CASE g = s /\ u = t
      BY <1>0, <1>3, <2>2, <3>1
    <3>2. CASE ~(g = s /\ u = t)
      <4>1. ctx'[g][u] = ctx[g][u]
        BY <2>2, <3>2
      <4>2. /\ ctx[g][u] \in Request /\ pc[ctx[g][u]] = "waiting"
            /\ SessionOf[ctx[g][u]] = g /\ TokenOf[ctx[g][u]] = u
        BY <1>0, <4>1 DEF Structure, CtxOK
      <4>3. ctx[g][u] # twin /\ ctx[g][u] # r
        BY <1>0, <2>1, <3>2, <4>2
      <4> QED BY <1>3, <4>1, <4>2, <4>3
    <3> QED BY <3>1, <3>2
  <2>6. QueueState'
    BY <1>0, <2>2, <2>4, <2>5 DEF QueueState, QueueTypeOK, queueVars, Structure, Types
  <2> QED BY <1>1, <2>3, <2>6, StructureParts
<1>4. \/ Goto(r, "absorbed") /\ UNCHANGED ctx
      \/ /\ IsWaiting(s, t)
         /\ ctx' = [ctx EXCEPT ![s][t] = r]
         /\ pc' = [q \in Request |-> IF q = r THEN "waiting"
                                     ELSE IF q = twin THEN "superseded" ELSE pc[q]]
  BY DEF JoinTwin, IsDuplicate
<1> QED BY <1>2, <1>3, <1>4

(* The end of a run, the abandoned queue, and the steps of the world.      *)
LEMMA OtherSteps ==
    ASSUME Structure, NEW s \in Session,
           EndRun(s) \/ StaleLockReap(s) \/ Connect(s) \/ Disconnect(s) \/ CapFlip
               \/ KillSwitchFlip \/ UNCHANGED vars
    PROVE  Structure'
<1>0. OtherTypes /\ clearSince \in [Request -> BOOLEAN] /\ okSince \in [Request -> BOOLEAN]
  BY DEF Structure, Types, OtherTypes
<1>1. CASE EndRun(s)
  <2>1. TakeHook(s) /\ hook[s] \in Request
    BY <1>0, <1>1 DEF EndRun, OnSessionReply, ReapTimedOutHook, ReleaseClosedRun, Releasable, OtherTypes
  <2>2. OtherTypes'
    BY <1>0, <2>1 DEF TakeHook, OtherTypes, worldVars, ledgerVars
  <2>3. QueueState' /\ GraceState'
    BY <2>1, QueueKept, GraceKept, GraceTypesKept
       DEF TakeHook, queueVars, QueueState, GraceState, Structure, Types, QueueTypeOK, PC
  <2> QED BY <2>2, <2>3, StructureParts
<1>2. CASE StaleLockReap(s)
  <2>1. OtherTypes'
    BY <1>0, <1>2 DEF StaleLockReap, OtherTypes, worldVars, ledgerVars
  <2>2. GraceState'
    BY <1>2, GraceKept, GraceTypesKept DEF StaleLockReap, GraceState
  <2>3. /\ waiters' = [waiters EXCEPT ![s] = << >>] /\ slot' = [slot EXCEPT ![s] = None]
        /\ UNCHANGED <<ctx, pc, from, okSince>>
        /\ waiters \in [Session -> Seq(Token)] /\ slot \in [Session -> Token \cup {None}]
    BY <1>2 DEF StaleLockReap, Abandon, Structure, Types, QueueTypeOK
  <2>4. waiters' \in [Session -> Seq(Token)] /\ slot' \in [Session -> Token \cup {None}]
    BY <2>3
  <2>5. QueueOK' /\ CtxOK'
    BY <2>3 DEF Structure, QueueOK, CtxOK
  <2>6. QueueState'
    BY <2>3, <2>4, <2>5 DEF QueueState, QueueTypeOK, Structure, Types, PC
  <2> QED BY <2>1, <2>2, <2>6, StructureParts
<1>3. CASE Connect(s) \/ Disconnect(s) \/ CapFlip \/ KillSwitchFlip \/ UNCHANGED vars
  <2>1. UNCHANGED <<slot, waiters, ctx, pc, from, hook, closing, ledgerVars, graceVars>>
    BY <1>3 DEF Connect, Disconnect, CapFlip, KillSwitchFlip, vars, queueVars, graceVars, ledgerVars
  <2>2. OtherTypes' /\ okSince' \in [Request -> BOOLEAN]
    <3>1. CASE Connect(s)
      BY <1>0, <3>1 DEF Connect, ledgerVars, OtherTypes
    <3>2. CASE Disconnect(s)
      BY <1>0, <3>2 DEF Disconnect, ledgerVars, OtherTypes
    <3>3. CASE CapFlip \/ KillSwitchFlip
      BY <1>0, <3>3 DEF CapFlip, KillSwitchFlip, ledgerVars, OtherTypes
    <3>4. CASE UNCHANGED vars
      BY <1>0, <3>4 DEF vars, OtherTypes
    <3> QED BY <1>3, <3>1, <3>2, <3>3, <3>4
  <2>3. QueueState' /\ GraceState'
    BY <2>1, <2>2, QueueKept, GraceKept, GraceTypesKept
       DEF QueueState, GraceState, Structure, Types, QueueTypeOK, PC
  <2> QED BY <2>2, <2>3, StructureParts
<1> QED BY <1>1, <1>2, <1>3

(* A connect's drain takes the list and starts a loop over it.             *)
LEMMA DrainStep ==
    ASSUME Structure, NEW s \in Session, Drain(s)
    PROVE  Structure'
<1>1. UNCHANGED <<queueVars, ctx, hook, pc, from, closing, ledgerVars, online, drops, capped,
                  halted, okSince, clearSince>>
  BY DEF Drain
<1>2. OtherTypes'
  BY DEF Drain, ledgerVars, OtherTypes, Structure, Types
<1>3. QueueState'
  BY <1>1, QueueKept DEF QueueState, queueVars, Structure, Types, QueueTypeOK, PC
<1>4. CASE UNCHANGED graceVars
  <2>1. GraceState'
    BY <1>1, <1>4, GraceKept, GraceTypesKept DEF GraceState
  <2> QED BY <1>2, <1>3, <2>1, StructureParts
<1>5. CASE Grace!BeginDrain(s)
  <2> DEFINE new == [cur |-> None, rest |-> parked[s], stale |-> stale[s]]
  <2>1. /\ parked[s] # << >>
        /\ drains' = [drains EXCEPT ![s] = @ \cup {new}]
        /\ parked' = [parked EXCEPT ![s] = << >>]
        /\ stale' = [stale EXCEPT ![s] = 0]
    BY <1>5 DEF Grace!BeginDrain
  <2>2. /\ parked \in [Session -> Seq(Request)] /\ stale \in [Session -> Nat]
        /\ drains \in [Session -> SUBSET Grace!Loop]
        /\ \A g \in Session : \A i \in 1 .. Len(parked[g]) : parked[g][i] \in Request
    BY DEF Structure, Types, Grace!GraceTypeOK
  <2>3. new \in Grace!Loop
    BY <2>2 DEF Grace!Loop
  <2>4. Grace!GraceTypeOK'
    BY <2>1, <2>2, <2>3 DEF Grace!GraceTypeOK
  <2>5. /\ parked'[s] = << >> /\ Len(parked'[s]) = 0 /\ stale'[s] = 0
        /\ drains'[s] = drains[s] \cup {new}
        /\ \A g \in Session : g # s => /\ parked'[g] = parked[g] /\ stale'[g] = stale[g]
                                        /\ drains'[g] = drains[g]
    BY <2>1, <2>2
  <2>6. ListOK'
    <3> SUFFICES ASSUME NEW g \in Session
                 PROVE  /\ stale'[g] <= Len(parked'[g])
                        /\ \A i \in 1 .. Len(parked'[g]) :
                              /\ pc[parked'[g][i]] = "parked"
                              /\ SessionOf[parked'[g][i]] = g
                              /\ \A j \in 1 .. Len(parked'[g]) : parked'[g][i] = parked'[g][j] => i = j
      BY <1>1 DEF ListOK
    <3>1. CASE g = s
      BY <2>5, <3>1
    <3>2. CASE g # s
      BY <2>5, <3>2 DEF Structure, ListOK
    <3> QED BY <3>1, <3>2
  <2>7. LoopsOK'
    <3> SUFFICES ASSUME NEW g \in Session, NEW d \in drains'[g], NEW i \in 1 .. Len(d.rest)
                 PROVE  /\ pc[d.rest[i]] = "parked"
                        /\ SessionOf[d.rest[i]] = g
                        /\ \A j \in 1 .. Len(parked'[g]) : d.rest[i] # parked'[g][j]
                        /\ \A e \in drains'[g] : \A j \in 1 .. Len(e.rest) :
                              d.rest[i] = e.rest[j] => d = e /\ i = j
      BY <1>1 DEF LoopsOK
    <3>1. CASE g # s
      BY <2>5, <3>1 DEF Structure, LoopsOK
    <3>2. CASE g = s
      <4>1. \A j \in 1 .. Len(parked'[g]) : FALSE
        BY <2>5, <3>2
      <4>2. CASE d = new
        <5>1. i \in 1 .. Len(parked[s]) /\ d.rest[i] = parked[s][i]
          BY <4>2
        <5>2. /\ pc[parked[s][i]] = "parked" /\ SessionOf[parked[s][i]] = s
              /\ \A j \in 1 .. Len(parked[s]) : parked[s][i] = parked[s][j] => i = j
          BY <5>1 DEF Structure, ListOK
        <5>3. \A e \in drains[s] : \A j \in 1 .. Len(e.rest) : e.rest[j] # parked[s][i]
          BY <5>1 DEF Structure, LoopsOK
        <5> QED BY <2>5, <3>2, <4>1, <4>2, <5>1, <5>2, <5>3
      <4>3. CASE d \in drains[s]
        <5>1. /\ pc[d.rest[i]] = "parked" /\ SessionOf[d.rest[i]] = s
              /\ \A j \in 1 .. Len(parked[s]) : d.rest[i] # parked[s][j]
              /\ \A e \in drains[s] : \A j \in 1 .. Len(e.rest) :
                    d.rest[i] = e.rest[j] => d = e /\ i = j
          BY <4>3 DEF Structure, LoopsOK
        <5>2. \A j \in 1 .. Len(new.rest) : d.rest[i] # new.rest[j]
          BY <5>1
        <5> QED BY <2>5, <3>2, <4>1, <5>1, <5>2
      <4> QED BY <2>5, <3>2, <4>2, <4>3
    <3> QED BY <3>1, <3>2
  <2> QED BY <1>2, <1>3, <2>4, <2>6, <2>7, StructureParts DEF GraceState
<1> QED BY <1>4, <1>5 DEF Drain

LEMMA LoopEntry ==
    ASSUME Structure, NEW g \in Session, NEW d \in drains[g], NEW i \in 1 .. Len(d.rest)
    PROVE  /\ d.rest \in Seq(Request) /\ d.rest[i] \in Request
           /\ pc[d.rest[i]] = "parked" /\ SessionOf[d.rest[i]] = g
           /\ \A j \in 1 .. Len(parked[g]) : d.rest[i] # parked[g][j]
<1>1. d.rest \in Seq(Request)
  BY DEF Structure, Types, Grace!GraceTypeOK, Grace!Loop
<1> QED BY <1>1 DEF Structure, LoopsOK

LEMMA LoopsDistinct ==
    ASSUME Structure, NEW g \in Session, NEW d \in drains[g], NEW i \in 1 .. Len(d.rest),
           NEW e \in drains[g], NEW j \in 1 .. Len(e.rest), d.rest[i] = e.rest[j]
    PROVE  d = e /\ i = j
BY DEF Structure, LoopsOK

(* A drain loop reaches its next entry, which leaves the buffer.           *)
LEMMA DrainNextStep ==
    ASSUME Structure, NEW s \in Session, NEW d \in drains[s], DrainNext(s, d)
    PROVE  Structure'
<1> DEFINE r == Head(d.rest)
           new == [cur |-> r, rest |-> Tail(d.rest),
                   stale |-> IF d.stale > 0 THEN d.stale - 1 ELSE 0]
<1>1. /\ d.rest # << >>
      /\ drains' = [drains EXCEPT ![s] = (@ \ {d}) \cup {new}]
      /\ UNCHANGED <<parked, stale>>
      /\ UNCHANGED <<queueVars, ctx, hook, closing, ledgerVars, worldVars, clearSince>>
  BY DEF DrainNext, Grace!Advance
<1>2. /\ parked \in [Session -> Seq(Request)] /\ stale \in [Session -> Nat]
      /\ drains \in [Session -> SUBSET Grace!Loop]
      /\ d.rest \in Seq(Request) /\ d.stale \in Nat /\ Len(d.rest) \in Nat /\ Len(d.rest) >= 1
      /\ r = d.rest[1] /\ r \in Request
      /\ pc \in [Request -> PC]
  BY <1>1 DEF Structure, Types, Grace!GraceTypeOK, Grace!Loop, PC
<1>3. /\ Tail(d.rest) \in Seq(Request) /\ Len(Tail(d.rest)) = Len(d.rest) - 1
      /\ \A i \in 1 .. Len(d.rest) - 1 : Tail(d.rest)[i] = d.rest[i + 1]
  BY <1>1, <1>2, HeadTailProperties
<1>4. pc[r] = "parked" /\ 1 \in 1 .. Len(d.rest)
  BY <1>2 DEF Structure, LoopsOK
<1>5. /\ \E p \in Elsewhere : pc' = [pc EXCEPT ![r] = p]
      /\ from' \in [Request -> {"source", "promotion", "replay"}]
      /\ okSince' \in [Request -> BOOLEAN]
  <2>1. {"expired", "gates"} \subseteq Elsewhere
    BY DEF Elsewhere, PC, Active, Passing, Settled
  <2> QED BY <1>2, <2>1 DEF DrainNext, Goto, Structure, Types
<1>6. /\ pc' \in [Request -> PC]
      /\ \A q \in Request : q # r => pc'[q] = pc[q]
      /\ \A q \in Request : pc[q] = "waiting" => pc'[q] = "waiting"
  BY <1>2, <1>4, <1>5 DEF Elsewhere
<1>7. OtherTypes'
  BY <1>1 DEF OtherTypes, Structure, Types, worldVars, ledgerVars
<1>8. QueueState'
  BY <1>1, <1>5, <1>6, QueueKept DEF QueueState, queueVars, Structure, Types, QueueTypeOK
<1>9. new \in Grace!Loop
  BY <1>2, <1>3 DEF Grace!Loop
<1>10. Grace!GraceTypeOK'
  BY <1>1, <1>2, <1>9 DEF Grace!GraceTypeOK
<1>11. /\ drains'[s] = (drains[s] \ {d}) \cup {new}
       /\ \A g \in Session : g # s => drains'[g] = drains[g]
  BY <1>1, <1>2
<1>12. ListOK'
  <2>1. \A g \in Session : \A i \in 1 .. Len(parked[g]) : parked[g][i] \in Request /\ parked[g][i] # r
    <3> SUFFICES ASSUME NEW g \in Session, NEW i \in 1 .. Len(parked[g])
                 PROVE  parked[g][i] \in Request /\ parked[g][i] # r
      OBVIOUS
    <3>1. parked[g][i] \in Request
      BY <1>2
    <3>2. SessionOf[parked[g][i]] = g
      BY DEF Structure, ListOK
    <3>3. SessionOf[r] = s /\ \A j \in 1 .. Len(parked[s]) : r # parked[s][j]
      BY <1>2, <1>4, LoopEntry
    <3> QED BY <3>1, <3>2, <3>3
  <2> QED BY <1>1, <1>6, <2>1 DEF Structure, ListOK
<1>13. new.rest = Tail(d.rest)
  OBVIOUS
<1>14. SessionOf[r] = s
  BY <1>2, <1>4, LoopEntry
<1> HIDE DEF r, new
<1> DEFINE Was(g, e) == IF e = new /\ g = s THEN d ELSE e
           At(g, e, i) == IF e = new /\ g = s THEN i + 1 ELSE i
<1>15. ASSUME NEW g \in Session, NEW e \in drains'[g], NEW i \in 1 .. Len(e.rest)
       PROVE  /\ Was(g, e) \in drains[g]
              /\ At(g, e, i) \in 1 .. Len(Was(g, e).rest)
              /\ e.rest[i] = Was(g, e).rest[At(g, e, i)]
              /\ e.rest[i] # r
  <2>1. CASE e = new /\ g = s
    <3>0. Len(e.rest) = Len(d.rest) - 1
      BY <1>3, <1>13, <2>1
    <3>1. i \in 1 .. Len(d.rest) - 1 /\ i + 1 \in 1 .. Len(d.rest) /\ i + 1 # 1
      BY <1>2, <3>0
    <3>2. e.rest[i] = d.rest[i + 1]
      BY <1>3, <1>13, <2>1, <3>1
    <3>3. d.rest[i + 1] # r
      BY <1>2, <1>4, <3>1, LoopsDistinct
    <3> QED BY <2>1, <3>1, <3>2, <3>3
  <2>2. CASE ~(e = new /\ g = s)
    <3>1. e \in drains[g] /\ (g = s => e # d)
      BY <1>11, <2>2
    <3>2. SessionOf[e.rest[i]] = g
      BY <3>1, LoopEntry
    <3>3. g = s => e.rest[i] # r
      BY <1>2, <1>4, <3>1, LoopsDistinct
    <3> QED BY <1>14, <2>2, <3>1, <3>2, <3>3
  <2> QED BY <2>1, <2>2
<1>16. ASSUME NEW g \in Session, NEW e \in drains'[g], NEW i \in 1 .. Len(e.rest),
              NEW h \in drains'[g], NEW j \in 1 .. Len(h.rest), e.rest[i] = h.rest[j]
       PROVE  e = h /\ i = j
  <2>1. /\ Was(g, e) \in drains[g] /\ At(g, e, i) \in 1 .. Len(Was(g, e).rest)
        /\ Was(g, h) \in drains[g] /\ At(g, h, j) \in 1 .. Len(Was(g, h).rest)
        /\ Was(g, e).rest[At(g, e, i)] = Was(g, h).rest[At(g, h, j)]
    BY <1>15, <1>16
  <2>2. Was(g, e) = Was(g, h) /\ At(g, e, i) = At(g, h, j)
    <3> HIDE DEF Was, At
    <3> QED BY <2>1, LoopsDistinct
  <2>3. (e # new /\ g = s => e # d) /\ (h # new /\ g = s => h # d)
    BY <1>11
  <2>4. i \in Int /\ j \in Int
    OBVIOUS
  <2> QED BY <2>2, <2>3, <2>4
<1>17. LoopsOK'
  <2>0. parked' = parked
    BY <1>1
  <2> HIDE DEF new
  <2> SUFFICES ASSUME NEW g \in Session, NEW e \in drains'[g], NEW i \in 1 .. Len(e.rest)
               PROVE  /\ pc'[e.rest[i]] = "parked"
                      /\ SessionOf[e.rest[i]] = g
                      /\ \A j \in 1 .. Len(parked[g]) : e.rest[i] # parked[g][j]
                      /\ \A h \in drains'[g] : \A j \in 1 .. Len(h.rest) :
                            e.rest[i] = h.rest[j] => e = h /\ i = j
    BY <2>0 DEF LoopsOK
  <2>1. /\ e.rest[i] \in Request /\ pc[e.rest[i]] = "parked" /\ SessionOf[e.rest[i]] = g
        /\ \A j \in 1 .. Len(parked[g]) : e.rest[i] # parked[g][j]
    <3>1. /\ Was(g, e) \in drains[g] /\ At(g, e, i) \in 1 .. Len(Was(g, e).rest)
          /\ e.rest[i] = Was(g, e).rest[At(g, e, i)]
      BY <1>15
    <3> HIDE DEF Was, At
    <3> QED BY <3>1, LoopEntry
  <2>2. e.rest[i] # r
    BY <1>15
  <2> QED BY <1>6, <1>16, <2>1, <2>2
<1> QED BY <1>7, <1>8, <1>10, <1>12, <1>17, StructureParts DEF GraceState

LEMMA DrainEndStep ==
    ASSUME Structure, NEW s \in Session, NEW d \in drains[s], DrainEnd(s, d)
    PROVE  Structure'
<1>1. /\ drains' = [drains EXCEPT ![s] = @ \ {d}]
      /\ UNCHANGED <<queueVars, ctx, hook, pc, from, closing, ledgerVars, worldVars, okSince,
                     clearSince, parked, stale>>
  BY DEF DrainEnd, Grace!EndDrain
<1>2. OtherTypes'
  BY <1>1 DEF OtherTypes, Structure, Types, worldVars, ledgerVars
<1>3. QueueState'
  BY <1>1, QueueKept DEF QueueState, queueVars, Structure, Types, QueueTypeOK, PC
<1>4. drains \in [Session -> SUBSET Grace!Loop]
  BY DEF Structure, Types, Grace!GraceTypeOK
<1>5. drains' \in [Session -> SUBSET Grace!Loop] /\ \A g \in Session : drains'[g] \subseteq drains[g]
  BY <1>1, <1>4
<1>6. Grace!GraceTypeOK' /\ ListOK'
  BY <1>1, <1>5 DEF Grace!GraceTypeOK, ListOK, Structure, Types
<1>7. LoopsOK'
  BY <1>1, <1>5 DEF LoopsOK, Structure
<1> QED BY <1>2, <1>3, <1>6, <1>7, StructureParts DEF GraceState

(* The time of an entry lapses; the sweep expires the lapsed entries.      *)
LEMMA GraceLapseStep ==
    ASSUME Structure, NEW s \in Session, GraceLapse(s)
    PROVE  Structure'
<1>1. /\ stale[s] < Len(parked[s])
      /\ stale' = [stale EXCEPT ![s] = @ + 1]
      /\ UNCHANGED <<queueVars, ctx, hook, pc, from, closing, ledgerVars, worldVars, okSince,
                     clearSince, parked, drains>>
  BY DEF GraceLapse, Grace!Lapse
<1>2. OtherTypes'
  BY <1>1 DEF OtherTypes, Structure, Types, worldVars, ledgerVars
<1>3. QueueState'
  BY <1>1, QueueKept DEF QueueState, queueVars, Structure, Types, QueueTypeOK, PC
<1>4. /\ parked \in [Session -> Seq(Request)] /\ stale \in [Session -> Nat]
      /\ drains \in [Session -> SUBSET Grace!Loop]
  BY DEF Structure, Types, Grace!GraceTypeOK
<1>5. stale' \in [Session -> Nat] /\ \A g \in Session : stale'[g] <= Len(parked[g])
  BY <1>1, <1>4 DEF Structure, ListOK
<1>6. GraceState'
  BY <1>1, <1>4, <1>5 DEF GraceState, Grace!GraceTypeOK, Structure, ListOK, LoopsOK
<1> QED BY <1>2, <1>3, <1>6, StructureParts

LEMMA GraceSweepStep ==
    ASSUME Structure, GraceSweep
    PROVE  Structure'
<1>1. /\ parked' = [g \in Session |-> SubSeq(parked[g], stale[g] + 1, Len(parked[g]))]
      /\ stale' = [g \in Session |-> 0]
      /\ pc' = [r \in Request |-> IF r \in Grace!Swept THEN "expired" ELSE pc[r]]
      /\ UNCHANGED <<queueVars, ctx, hook, from, closing, ledgerVars, worldVars, okSince,
                     clearSince, drains>>
  BY DEF GraceSweep, Grace!Sweep
<1>2. /\ parked \in [Session -> Seq(Request)] /\ stale \in [Session -> Nat]
      /\ drains \in [Session -> SUBSET Grace!Loop]
      /\ pc \in [Request -> PC] /\ "expired" \in PC
      /\ \A g \in Session : stale[g] <= Len(parked[g]) /\ Len(parked[g]) \in Nat
  BY DEF Structure, Types, Grace!GraceTypeOK, ListOK, PC, Settled
<1>3. ASSUME NEW r \in Grace!Swept
      PROVE  \E g \in Session : \E i \in 1 .. Len(parked[g]) : i <= stale[g] /\ parked[g][i] = r
  BY <1>2 DEF Grace!Swept
<1>4. \A r \in Grace!Swept : r \in Request /\ pc[r] = "parked"
  <2> SUFFICES ASSUME NEW r \in Grace!Swept
               PROVE  r \in Request /\ pc[r] = "parked"
    OBVIOUS
  <2>1. PICK g \in Session : \E i \in 1 .. Len(parked[g]) : i <= stale[g] /\ parked[g][i] = r
    BY <1>3
  <2>2. PICK i \in 1 .. Len(parked[g]) : parked[g][i] = r
    BY <2>1
  <2> QED BY <2>2, <1>2 DEF Structure, ListOK
<1>5. OtherTypes'
  BY <1>1 DEF OtherTypes, Structure, Types, worldVars, ledgerVars
<1>6. /\ pc' \in [Request -> PC]
      /\ \A q \in Request : q \notin Grace!Swept => pc'[q] = pc[q]
      /\ \A q \in Request : pc[q] = "waiting" => pc'[q] = "waiting"
  BY <1>1, <1>2, <1>4
<1>7. QueueState'
  BY <1>1, <1>6, QueueKept DEF QueueState, queueVars, Structure, Types, QueueTypeOK
<1>8. ASSUME NEW g \in Session
      PROVE  /\ parked'[g] \in Seq(Request) /\ Len(parked'[g]) = Len(parked[g]) - stale[g]
             /\ \A i \in 1 .. Len(parked'[g]) : /\ stale[g] + i \in 1 .. Len(parked[g])
                                                 /\ parked'[g][i] = parked[g][stale[g] + i]
  <2>1. /\ parked[g] \in Seq(Request) /\ stale[g] \in Nat /\ stale[g] <= Len(parked[g])
        /\ Len(parked[g]) \in Nat
        /\ parked'[g] = SubSeq(parked[g], stale[g] + 1, Len(parked[g]))
    BY <1>1, <1>2
  <2>2. \A i \in stale[g] + 1 .. Len(parked[g]) : parked[g][i] \in Request
    BY <2>1
  <2>3. Len(parked'[g]) = Len(parked[g]) - stale[g] /\ parked'[g] \in Seq(Request)
    BY <2>1, <2>2
  <2>4. ASSUME NEW i \in 1 .. Len(parked'[g]) PROVE parked'[g][i] = parked[g][stale[g] + i]
    <3>1. i \in 1 .. Len(parked[g]) - stale[g] /\ i \in Nat
      BY <2>3
    <3>2. SubSeq(parked[g], stale[g] + 1, Len(parked[g]))[i] = parked[g][stale[g] + i]
      BY <2>1, <3>1
    <3> QED BY <2>1, <3>2
  <2>5. \A i \in 1 .. Len(parked[g]) - stale[g] : stale[g] + i \in 1 .. Len(parked[g])
    BY <2>1
  <2> QED BY <2>3, <2>4, <2>5
<1>9. ASSUME NEW g \in Session, NEW i \in 1 .. Len(parked[g]), i > stale[g]
      PROVE  parked[g][i] \notin Grace!Swept
  <2> SUFFICES ASSUME parked[g][i] \in Grace!Swept PROVE FALSE
    OBVIOUS
  <2>1. PICK h \in Session : \E j \in 1 .. Len(parked[h]) : j <= stale[h] /\ parked[h][j] = parked[g][i]
    BY <1>3
  <2>2. PICK j \in 1 .. Len(parked[h]) : j <= stale[h] /\ parked[h][j] = parked[g][i]
    BY <2>1
  <2>3. h = g
    BY <2>2 DEF Structure, ListOK
  <2>4. i = j
    BY <2>2, <2>3 DEF Structure, ListOK
  <2> QED BY <1>2, <1>9, <2>2, <2>3, <2>4
<1>10. ListOK'
  <2> SUFFICES ASSUME NEW g \in Session
               PROVE  /\ stale'[g] <= Len(parked'[g])
                      /\ \A i \in 1 .. Len(parked'[g]) :
                            /\ pc'[parked'[g][i]] = "parked"
                            /\ SessionOf[parked'[g][i]] = g
                            /\ \A j \in 1 .. Len(parked'[g]) : parked'[g][i] = parked'[g][j] => i = j
    BY DEF ListOK
  <2>1. stale'[g] <= Len(parked'[g])
    BY <1>1, <1>2, <1>8
  <2>2. ASSUME NEW i \in 1 .. Len(parked'[g])
        PROVE  /\ pc'[parked'[g][i]] = "parked"
               /\ SessionOf[parked'[g][i]] = g
               /\ \A j \in 1 .. Len(parked'[g]) : parked'[g][i] = parked'[g][j] => i = j
    <3>1. /\ stale[g] + i \in 1 .. Len(parked[g]) /\ stale[g] + i > stale[g] /\ stale[g] \in Nat
          /\ parked'[g][i] = parked[g][stale[g] + i]
      BY <1>2, <1>8
    <3>2. /\ parked[g][stale[g] + i] \in Request /\ pc[parked[g][stale[g] + i]] = "parked"
          /\ SessionOf[parked[g][stale[g] + i]] = g
      BY <1>2, <3>1 DEF Structure, ListOK
    <3>3. parked[g][stale[g] + i] \notin Grace!Swept
      BY <1>9, <3>1
    <3>4. \A j \in 1 .. Len(parked'[g]) : parked'[g][i] = parked'[g][j] => i = j
      <4> SUFFICES ASSUME NEW j \in 1 .. Len(parked'[g]), parked'[g][i] = parked'[g][j]
                   PROVE  i = j
        OBVIOUS
      <4>1. stale[g] + j \in 1 .. Len(parked[g]) /\ parked'[g][j] = parked[g][stale[g] + j]
        BY <1>8
      <4>2. parked[g][stale[g] + i] = parked[g][stale[g] + j]
        BY <3>1, <4>1
      <4>3. stale[g] + i = stale[g] + j
        BY <3>1, <4>1, <4>2 DEF Structure, ListOK
      <4> QED BY <3>1, <4>3
    <3> QED BY <1>6, <3>1, <3>2, <3>3, <3>4
  <2> QED BY <2>1, <2>2
<1>11. LoopsOK'
  <2> SUFFICES ASSUME NEW g \in Session, NEW d \in drains[g], NEW i \in 1 .. Len(d.rest)
               PROVE  /\ pc'[d.rest[i]] = "parked"
                      /\ SessionOf[d.rest[i]] = g
                      /\ \A j \in 1 .. Len(parked'[g]) : d.rest[i] # parked'[g][j]
                      /\ \A e \in drains[g] : \A j \in 1 .. Len(e.rest) :
                            d.rest[i] = e.rest[j] => d = e /\ i = j
    <3>1. drains' = drains
      BY <1>1
    <3> QED BY <3>1 DEF LoopsOK
  <2>1. /\ d.rest[i] \in Request /\ pc[d.rest[i]] = "parked" /\ SessionOf[d.rest[i]] = g
        /\ \A j \in 1 .. Len(parked[g]) : d.rest[i] # parked[g][j]
    BY LoopEntry
  <2>2. d.rest[i] \notin Grace!Swept
    <3> SUFFICES ASSUME d.rest[i] \in Grace!Swept PROVE FALSE
      OBVIOUS
    <3>1. PICK h \in Session : \E j \in 1 .. Len(parked[h]) : j <= stale[h] /\ parked[h][j] = d.rest[i]
      BY <1>3
    <3>2. h = g
      <4>1. PICK j \in 1 .. Len(parked[h]) : parked[h][j] = d.rest[i]
        BY <3>1
      <4>2. SessionOf[parked[h][j]] = h
        BY DEF Structure, ListOK
      <4> QED BY <2>1, <4>1, <4>2
    <3> QED BY <2>1, <3>1, <3>2
  <2>3. \A j \in 1 .. Len(parked'[g]) : d.rest[i] # parked'[g][j]
    <3> SUFFICES ASSUME NEW j \in 1 .. Len(parked'[g]) PROVE d.rest[i] # parked'[g][j]
      OBVIOUS
    <3>1. stale[g] + j \in 1 .. Len(parked[g]) /\ parked'[g][j] = parked[g][stale[g] + j]
      BY <1>8
    <3> QED BY <2>1, <3>1
  <2>4. \A e \in drains[g] : \A j \in 1 .. Len(e.rest) : d.rest[i] = e.rest[j] => d = e /\ i = j
    BY LoopsDistinct
  <2> QED BY <1>6, <2>1, <2>2, <2>3, <2>4
<1>12. Grace!GraceTypeOK'
  <2>1. parked' \in [Session -> Seq(Request)]
    <3>1. \A g \in Session : parked'[g] \in Seq(Request)
      BY <1>8
    <3> QED BY <1>1, <3>1
  <2>2. stale' \in [Session -> Nat]
    BY <1>1
  <2> QED BY <1>1, <1>2, <2>1, <2>2 DEF Grace!GraceTypeOK
<1> QED BY <1>5, <1>7, <1>10, <1>11, <1>12, StructureParts DEF GraceState

-----------------------------------------------------------------------------
(* Together: the structure holds in every reachable state.                 *)

LEMMA StructureInit == Init => Structure
<1> SUFFICES ASSUME Init PROVE Structure
  OBVIOUS
<1>1. "new" \in PC /\ << >> \in Seq(Token) /\ << >> \in Seq(Request) /\ 0 \in 0 .. MaxDrops
  BY DEF PC, Settled
<1>2. Types
  BY <1>1 DEF Init, QueueInit, Grace!GraceInit, Types, QueueTypeOK, Grace!GraceTypeOK, PC
<1>3. QueueOK
  BY DEF Init, QueueInit, QueueOK
<1>4. CtxOK
  BY DEF Init, CtxOK
<1>5. ListOK /\ LoopsOK
  BY DEF Init, Grace!GraceInit, ListOK, LoopsOK
<1> QED BY <1>2, <1>3, <1>4, <1>5 DEF Structure

LEMMA StructureNext == Structure /\ [Next]_vars => Structure'
<1> SUFFICES ASSUME Structure, [Next]_vars PROVE Structure'
  OBVIOUS
<1>1. ASSUME NEW r \in Request, Start(r) \/ Step(r) \/ GatesFail(r) \/ Hang(r) \/ FinishClose(r)
      PROVE  Structure'
  BY <1>1, PlainSteps, ReleasingSteps, GuardSteps, JoinQueueStep, JoinTwinStep DEF Step
<1>2. ASSUME NEW s \in Session, EndRun(s) \/ StaleLockReap(s) \/ Drain(s) \/ DrainLoop(s)
      PROVE  Structure'
  BY <1>2, OtherSteps, DrainStep, DrainNextStep, DrainEndStep DEF DrainLoop
<1>3. CASE GraceSweep
  BY <1>3, GraceSweepStep
<1>4. ASSUME NEW s \in Session, GraceLapse(s) \/ Connect(s) \/ Disconnect(s)
      PROVE  Structure'
  BY <1>4, OtherSteps, GraceLapseStep
<1>5. CASE CapFlip \/ KillSwitchFlip \/ UNCHANGED vars
  <2>1. CASE Session # {}
    BY <1>5, <2>1, OtherSteps
  <2>2. CASE Session = {}
    <3>1. /\ UNCHANGED <<slot, waiters, ctx, pc, from, hook, closing, charged, pending, parked, stale, drains,
                         online, drainDue, drops>>
          /\ capped' \in BOOLEAN /\ halted' \in BOOLEAN
          /\ okSince' \in [Request -> BOOLEAN] /\ clearSince' \in [Request -> BOOLEAN]
      <4>1. /\ okSince \in [Request -> BOOLEAN] /\ clearSince \in [Request -> BOOLEAN]
            /\ capped \in BOOLEAN /\ halted \in BOOLEAN
        BY DEF Structure, Types
      <4> QED BY <1>5, <4>1 DEF CapFlip, KillSwitchFlip, vars, queueVars, graceVars, ledgerVars
    <3>2. Types'
      BY <3>1 DEF Structure, Types, QueueTypeOK, Grace!GraceTypeOK
    <3> QED BY <2>2, <3>2 DEF Structure, QueueOK, CtxOK, ListOK, LoopsOK
  <2> QED BY <2>1, <2>2
<1> QED BY <1>1, <1>2, <1>3, <1>4, <1>5 DEF Next

(* Queue, waiter contexts and grace buffer always agree on who waits and   *)
(* who is parked.                                                          *)
THEOREM AlwaysStructure == Spec => []Structure
BY StructureInit, StructureNext, PTL DEF Spec

(* Only a token that finds room joins a queue; releases shorten it.        *)
LEMMA BoundInit == Init => QueueBounded
<1>1. Len(<< >>) = 0 /\ 0 <= MaxWaiters
  OBVIOUS
<1> QED BY <1>1 DEF Init, QueueInit, QueueBounded

LEMMA BoundKept ==
    ASSUME Structure, QueueBounded, NEW s \in Session,
           NEW l \in Seq(Token), waiters' = [waiters EXCEPT ![s] = l], Len(l) <= MaxWaiters
    PROVE  QueueBounded'
BY DEF Structure, Types, QueueTypeOK, QueueBounded

LEMMA ReleaseKeepsBound ==
    ASSUME Structure, QueueBounded, NEW s \in Session, NEW after, ReleaseAndPromote(s, after)
    PROVE  QueueBounded'
<1>1. CASE PromotesNobody(s, after)
  BY <1>1 DEF PromotesNobody, QueueBounded
<1>2. CASE \E w \in Request : Promotes(s, w, after)
  <2> DEFINE l == Tail(waiters[s])
  <2>1. waiters[s] # << >> /\ waiters' = [waiters EXCEPT ![s] = l]
    BY <1>2 DEF Promotes
  <2>2. waiters[s] \in Seq(Token) /\ Len(waiters[s]) <= MaxWaiters /\ Len(waiters[s]) \in Nat
    BY DEF Structure, Types, QueueTypeOK, QueueBounded
  <2>3. l \in Seq(Token) /\ Len(l) = Len(waiters[s]) - 1
    BY <2>1, <2>2, HeadTailProperties
  <2>4. Len(l) <= MaxWaiters
    BY <2>2, <2>3
  <2> HIDE DEF l
  <2> QED BY <2>1, <2>3, <2>4, BoundKept
<1> QED BY <1>1, <1>2, ReleaseCases

LEMMA BoundNext == Structure /\ QueueBounded /\ [Next]_vars => QueueBounded'
<1> SUFFICES ASSUME Structure, QueueBounded, [Next]_vars PROVE QueueBounded'
  OBVIOUS
<1>1. ASSUME UNCHANGED waiters
      PROVE  QueueBounded'
  BY <1>1 DEF QueueBounded
<1>2. ASSUME NEW r \in Request, JoinQueue(r)
      PROVE  QueueBounded'
  <2> DEFINE s == SessionOf[r]
  <2>1. /\ s \in Session /\ TokenOf[r] \in Token
        /\ waiters[s] \in Seq(Token) /\ Len(waiters[s]) \in Nat
    BY DEF Structure, Types, QueueTypeOK
  <2>2. /\ Len(waiters[s]) < MaxWaiters
        /\ waiters' = [waiters EXCEPT ![s] = Append(waiters[s], TokenOf[r])]
    BY <1>2 DEF JoinQueue, Wait
  <2>3. /\ Append(waiters[s], TokenOf[r]) \in Seq(Token)
        /\ Len(Append(waiters[s], TokenOf[r])) <= MaxWaiters
    BY <2>1, <2>2, AppendProperties
  <2> QED BY <2>1, <2>2, <2>3, BoundKept
<1>3. ASSUME NEW r \in Request, Start(r) \/ Step(r) \/ GatesFail(r) \/ Hang(r) \/ FinishClose(r)
      PROVE  QueueBounded'
  <2>1. SessionOf[r] \in Session
    OBVIOUS
  <2>2. JoinQueue(r) \/ UNCHANGED waiters \/ \E after : ReleaseAndPromote(SessionOf[r], after)
    <3>1. CASE \/ Start(r) \/ KillSwitchPasses(r) \/ CapsPass(r) \/ LifetimePasses(r) \/ GatesBlock(r)
               \/ GatesFail(r) \/ DropBusy(r) \/ ClaimSlot(r) \/ JoinTwin(r) \/ Hang(r)
      BY <3>1 DEF Start, KillSwitchPasses, CapsPass, LifetimePasses, GatesBlock, GatesFail, DropBusy,
                  ClaimSlot, Claim, JoinTwin, Hang, queueVars
    <3>2. CASE \/ OpenRow(r) \/ OpenThrows(r) \/ MarkDispatched(r) \/ FinalHaltCheck(r) \/ BeginSend(r)
               \/ Send(r) \/ SendThrows(r) \/ GiveBack(r)
      BY <3>2 DEF OpenRow, OpenThrows, MarkDispatched, FinalHaltCheck, BeginSend, Send, SendThrows,
                  GiveBack, queueVars
    <3>3. CASE ReturnSkipped(r) \/ RethrowOpen(r) \/ Unwind(r) \/ FinishClose(r)
      BY <3>3 DEF ReturnSkipped, RethrowOpen, Unwind, FinishClose, FreeSlot, queueVars
    <3>4. CASE \/ IsOnline(r) \/ PreEnsureCheck(r) \/ EnsureOnline(r) \/ PreSendGuard(r)
               \/ ReserveInject(r)
      BY <3>4 DEF IsOnline, PreEnsureCheck, EnsureOnline, PreSendGuard, ReserveInject, Park, Refuse,
                  FreeSlot, queueVars
    <3> QED BY <1>3, <3>1, <3>2, <3>3, <3>4 DEF Step
  <2> QED BY <1>1, <1>2, <2>1, <2>2, ReleaseKeepsBound
<1>4. ASSUME NEW s \in Session, StaleLockReap(s)
      PROVE  QueueBounded'
  <2>1. waiters' = [waiters EXCEPT ![s] = << >>] /\ << >> \in Seq(Token) /\ Len(<< >>) <= MaxWaiters
    BY <1>4 DEF StaleLockReap, Abandon
  <2> QED BY <2>1, BoundKept
<1>5. ASSUME NEW s \in Session,
             EndRun(s) \/ Drain(s) \/ DrainLoop(s) \/ GraceLapse(s) \/ Connect(s) \/ Disconnect(s)
      PROVE  UNCHANGED waiters
  BY <1>5 DEF EndRun, OnSessionReply, ReapTimedOutHook, ReleaseClosedRun, TakeHook, Drain, DrainLoop,
              DrainNext, DrainEnd, GraceLapse, Connect, Disconnect, queueVars
<1>6. CASE GraceSweep \/ CapFlip \/ KillSwitchFlip \/ UNCHANGED vars
  BY <1>1, <1>6 DEF GraceSweep, CapFlip, KillSwitchFlip, vars, queueVars
<1> QED BY <1>1, <1>3, <1>4, <1>5, <1>6 DEF Next

(* The state of the pipeline keeps its types, and no interleaving of       *)
(* claims, retries and promotions makes a queue longer than its room.      *)
THEOREM TypeCorrect == Spec => []TypeOK
<1>1. Structure /\ QueueBounded => TypeOK
  BY DEF Structure, TypeOK
<1> QED BY <1>1, BoundInit, BoundNext, AlwaysStructure, PTL DEF Spec

-----------------------------------------------------------------------------
(* Nobody is stranded: while a slot is free and somebody waits, a promoted *)
(* activation is on its way.  If no gate throws, only that activation's    *)
(* own steps move it, and each leaves it on its way, takes the slot, or    *)
(* promotes the next waiter.                                               *)

LEMMA WitnessStays ==
    ASSUME NoStrandedWaiter,
           \A s \in Session : slot'[s] = None /\ waiters'[s] # << >> =>
                                slot[s] = None /\ waiters[s] # << >>,
           \A q \in Request : pc[q] \in Passing /\ from[q] = "promotion"
                                 /\ slot'[SessionOf[q]] = None =>
                                pc'[q] \in Passing /\ from'[q] = "promotion"
    PROVE  NoStrandedWaiter'
BY DEF NoStrandedWaiter

LEMMA WitnessAfterRelease ==
    ASSUME Structure, NoStrandedWaiter, NEW r \in Request,
           NEW after, after \in [Request -> PC], ReleaseAndPromote(SessionOf[r], after),
           \A q \in Request : q # r => after[q] = pc[q]
    PROVE  NoStrandedWaiter'
<1> DEFINE s == SessionOf[r]
<1>1. /\ s \in Session
      /\ slot \in [Session -> Token \cup {None}] /\ waiters \in [Session -> Seq(Token)]
      /\ from \in [Request -> {"source", "promotion", "replay"}]
  BY DEF Structure, Types, QueueTypeOK
<1>2. slot' = [slot EXCEPT ![s] = None]
  BY <1>1, ReleaseCases
<1>3. CASE PromotesNobody(s, after)
  <2>1. /\ waiters' = waiters /\ waiters[s] = << >> /\ pc' = after /\ from' = from
        /\ \A g \in Session : g # s => slot'[g] = slot[g]
    BY <1>1, <1>2, <1>3 DEF PromotesNobody
  <2> QED BY <2>1 DEF NoStrandedWaiter
<1>4. ASSUME NEW w \in Request, Promotes(s, w, after)
      PROVE  NoStrandedWaiter'
  <2>1. /\ SessionOf[w] = s /\ pc'[w] = "gates" /\ from'[w] = "promotion"
        /\ \A q \in Request : q # w => pc'[q] = after[q] /\ from'[q] = from[q]
    BY <1>1, <1>4 DEF Promotes
  <2>2. "gates" \in Passing
    BY DEF Passing
  <2>3. \A g \in Session : g # s => slot'[g] = slot[g] /\ waiters'[g] = waiters[g]
    BY <1>1, <1>2, <1>4 DEF Promotes
  <2> SUFFICES ASSUME NEW g \in Session, slot'[g] = None, waiters'[g] # << >>
               PROVE  \E q \in Request :
                         SessionOf[q] = g /\ from'[q] = "promotion" /\ pc'[q] \in Passing
    BY DEF NoStrandedWaiter
  <2>4. CASE g = s
    BY <2>1, <2>2, <2>4
  <2>5. CASE g # s
    <3>1. PICK q \in Request : SessionOf[q] = g /\ from[q] = "promotion" /\ pc[q] \in Passing
      BY <2>3, <2>5 DEF NoStrandedWaiter
    <3>2. q # w /\ q # r
      BY <2>1, <2>5, <3>1
    <3> QED BY <2>1, <3>1, <3>2
  <2> QED BY <2>4, <2>5
<1> QED BY <1>1, <1>3, <1>4, ReleaseCases

(* The steps that release, and park, refuse or end a run on the way.       *)
LEMMA StrandedRelease ==
    ASSUME Structure, NoStrandedWaiter, NEW r \in Request,
           \/ ReturnSkipped(r) \/ RethrowOpen(r) \/ Unwind(r) \/ FinishClose(r)
           \/ Park(r) \/ Refuse(r) \/ FreeSlot(r, "skipping")
    PROVE  NoStrandedWaiter'
<1>0. pc \in [Request -> PC]
  BY DEF Structure, Types, PC
<1>1. ASSUME NEW p \in PC, ReleaseAndPromote(SessionOf[r], [pc EXCEPT ![r] = p])
      PROVE  NoStrandedWaiter'
  <2> DEFINE after == [pc EXCEPT ![r] = p]
  <2>1. after \in [Request -> PC] /\ \A q \in Request : q # r => after[q] = pc[q]
    BY <1>0
  <2>2. ReleaseAndPromote(SessionOf[r], after)
    BY <1>1
  <2> HIDE DEF after
  <2> QED BY <2>1, <2>2, WitnessAfterRelease
<1>2. {"skipped", "threw", "failed", "skipping", "closed", "absorbed", "parked"} \subseteq PC
  BY DEF PC, Active, Passing, Settled
<1>3. CASE ReturnSkipped(r)
  <2>1. CASE from[r] = "promotion" /\ slot[SessionOf[r]] = None /\ waiters[SessionOf[r]] # << >>
    BY <1>1, <1>2, <1>3, <2>1 DEF ReturnSkipped
  <2>2. CASE ~(from[r] = "promotion" /\ slot[SessionOf[r]] = None /\ waiters[SessionOf[r]] # << >>)
    <3>1. UNCHANGED <<slot, waiters, from>> /\ \A q \in Request : q # r => pc'[q] = pc[q]
      BY <1>0, <1>3, <2>2 DEF ReturnSkipped, Goto, queueVars
    <3> QED BY <2>2, <3>1 DEF NoStrandedWaiter
  <2> QED BY <2>1, <2>2
<1>4. CASE RethrowOpen(r)
  BY <1>1, <1>2, <1>4 DEF RethrowOpen, FreeSlot
<1>5. CASE Unwind(r)
  <2>1. CASE pc[r] = "failing"
    BY <1>1, <1>2, <1>5, <2>1 DEF Unwind, FreeSlot
  <2>2. CASE pc[r] # "failing"
    BY <1>1, <1>2, <1>5, <2>2 DEF Unwind, FreeSlot
  <2> QED BY <2>1, <2>2
<1>6. CASE FinishClose(r)
  <2> DEFINE p == IF pc[r] = "sent" THEN "closed" ELSE pc[r]
  <2>1. p \in PC
    BY <1>0, <1>2
  <2>2. ReleaseAndPromote(SessionOf[r], [pc EXCEPT ![r] = p])
    BY <1>6 DEF FinishClose
  <2> QED BY <1>1, <2>1, <2>2
<1>7. CASE Park(r)
  <2> DEFINE p == IF Grace!HasLive(SessionOf[r], TokenOf[r]) THEN "absorbed" ELSE "parked"
  <2>1. p \in PC
    BY <1>2
  <2>2. ReleaseAndPromote(SessionOf[r], [pc EXCEPT ![r] = p])
    BY <1>7 DEF Park
  <2> QED BY <1>1, <2>1, <2>2
<1>8. CASE Refuse(r) \/ FreeSlot(r, "skipping")
  BY <1>1, <1>2, <1>8 DEF Refuse, FreeSlot
<1> QED BY <1>3, <1>4, <1>5, <1>6, <1>7, <1>8

(* Steps that leave the slots and the queues alone, and keep every passing *)
(* activation passing.                                                     *)
LEMMA StrandedStill ==
    ASSUME NoStrandedWaiter, UNCHANGED <<slot, waiters>>,
           \A q \in Request : pc[q] \in Passing =>
                                pc'[q] \in Passing /\ from'[q] = from[q]
    PROVE  NoStrandedWaiter'
BY DEF NoStrandedWaiter

LEMMA StrandedMoves ==
    ASSUME Structure, NoStrandedWaiter, ~GatesThrow, NEW r \in Request,
           Start(r) \/ Step(r) \/ GatesFail(r) \/ Hang(r) \/ FinishClose(r)
    PROVE  NoStrandedWaiter'
<1>0. /\ pc \in [Request -> PC] /\ from \in [Request -> {"source", "promotion", "replay"}]
      /\ SessionOf[r] \in Session /\ TokenOf[r] \in Token
      /\ slot \in [Session -> Token \cup {None}] /\ waiters \in [Session -> Seq(Token)]
  BY DEF Structure, Types, QueueTypeOK, PC
<1>1. CASE Start(r)
  BY <1>0, <1>1, StrandedStill DEF Start, Goto, queueVars, Passing
<1>2. CASE KillSwitchPasses(r) \/ CapsPass(r) \/ LifetimePasses(r) \/ GatesBlock(r)
  <2>1. /\ UNCHANGED <<slot, waiters, from>> /\ pc'[r] \in Passing
        /\ \A q \in Request : q # r => pc'[q] = pc[q]
    BY <1>0, <1>2
       DEF KillSwitchPasses, CapsPass, LifetimePasses, GatesBlock, PastCaps, Goto, queueVars, Passing
  <2> QED BY <2>1, StrandedStill
<1>3. CASE ClaimSlot(r)
  <2>1. /\ slot' = [slot EXCEPT ![SessionOf[r]] = TokenOf[r]] /\ UNCHANGED <<waiters, from>>
        /\ \A q \in Request : q # r => pc'[q] = pc[q]
    BY <1>0, <1>3 DEF ClaimSlot, Claim, Goto
  <2>2. slot'[SessionOf[r]] # None
    BY <1>0, <2>1
  <2>3. \A g \in Session : slot'[g] = None => slot[g] = None
    BY <1>0, <2>1, <2>2
  <2> QED BY <2>1, <2>2, <2>3, WitnessStays
<1>4. CASE JoinQueue(r)
  <2>1. /\ slot[SessionOf[r]] # None /\ UNCHANGED <<slot, from>>
        /\ waiters' = [waiters EXCEPT ![SessionOf[r]] = Append(@, TokenOf[r])]
        /\ \A q \in Request : q # r => pc'[q] = pc[q]
    BY <1>0, <1>4 DEF JoinQueue, Wait, Goto
  <2>2. \A g \in Session : g # SessionOf[r] => waiters'[g] = waiters[g]
    BY <1>0, <2>1
  <2> QED BY <1>0, <2>1, <2>2, WitnessStays
<1>5. CASE JoinTwin(r)
  <2> DEFINE twin == ctx[SessionOf[r]][TokenOf[r]]
  <2>1. /\ slot[SessionOf[r]] # None /\ UNCHANGED <<slot, waiters, from>>
        /\ \A q \in Request : q # r /\ q # twin => pc'[q] = pc[q]
    BY <1>0, <1>5 DEF JoinTwin, IsDuplicate, Goto, queueVars
  <2>2. twin \in Request => pc[twin] = "waiting"
    BY <1>0 DEF Structure, CtxOK
  <2>3. \A q \in Request : pc[q] \in Passing /\ q # r => pc'[q] = pc[q]
    BY <2>1, <2>2 DEF Passing
  <2> QED BY <1>0, <2>1, <2>3, WitnessStays
<1>6. CASE DropBusy(r)
  <2>1. /\ slot[SessionOf[r]] # None /\ UNCHANGED <<slot, waiters, from>>
        /\ \A q \in Request : q # r => pc'[q] = pc[q]
    BY <1>0, <1>6 DEF DropBusy, IsFull, Goto, queueVars
  <2> QED BY <1>0, <2>1, WitnessStays
<1>7. CASE \/ Park(r) \/ Refuse(r) \/ FreeSlot(r, "skipping")
           \/ ReturnSkipped(r) \/ RethrowOpen(r) \/ Unwind(r) \/ FinishClose(r)
  BY <1>7, StrandedRelease
<1>8. CASE /\ pc[r] \in Holding /\ \E p \in PC : Goto(r, p)
           /\ UNCHANGED <<slot, waiters, from>>
  <2>1. pc[r] \notin Passing
    BY <1>8 DEF Holding, Passing
  <2>2. \A q \in Request : q # r => pc'[q] = pc[q]
    BY <1>0, <1>8 DEF Goto
  <2> QED BY <1>8, <2>1, <2>2, StrandedStill
<1>9. CASE \/ IsOnline(r) \/ PreEnsureCheck(r) \/ EnsureOnline(r) \/ PreSendGuard(r) \/ ReserveInject(r)
           \/ OpenRow(r) \/ OpenThrows(r) \/ MarkDispatched(r) \/ FinalHaltCheck(r)
           \/ BeginSend(r) \/ Send(r) \/ SendThrows(r) \/ GiveBack(r) \/ Hang(r)
  <2>1. /\ pc[r] \in Holding
        /\ {"precheck", "ensure", "guard", "reserve", "open", "openFailed", "marking", "halt", "send",
            "sending", "sent", "unwind", "haltUnwind", "failing", "halting", "hung"} \subseteq PC
    BY <1>9 DEF Holding, PC, Active, Settled, IsOnline, PreEnsureCheck, EnsureOnline, PreSendGuard,
                ReserveInject, OpenRow, OpenThrows, MarkDispatched, FinalHaltCheck, BeginSend, Send,
                SendThrows, GiveBack, Hang
  <2>2. CASE IsOnline(r)
    BY <1>7, <1>8, <2>1, <2>2 DEF IsOnline, PastOnline, PastHaltRead, queueVars
  <2>3. CASE PreEnsureCheck(r)
    BY <1>7, <1>8, <2>1, <2>3 DEF PreEnsureCheck, queueVars
  <2>4. CASE EnsureOnline(r)
    BY <1>7, <1>8, <2>1, <2>4 DEF EnsureOnline, PastOnline, PastHaltRead, queueVars
  <2>5. CASE PreSendGuard(r)
    BY <1>7, <1>8, <2>1, <2>5 DEF PreSendGuard, PastHaltRead, queueVars
  <2>6. CASE OpenRow(r) \/ OpenThrows(r) \/ MarkDispatched(r) \/ Hang(r)
    BY <1>8, <2>1, <2>6 DEF OpenRow, OpenThrows, MarkDispatched, Hang, queueVars
  <2>7. CASE FinalHaltCheck(r) \/ BeginSend(r) \/ Send(r) \/ SendThrows(r) \/ GiveBack(r)
    BY <1>8, <2>1, <2>7 DEF FinalHaltCheck, BeginSend, Send, SendThrows, GiveBack, queueVars
  <2>8. CASE ReserveInject(r)
    BY <1>7, <1>8, <2>1, <2>8 DEF ReserveInject, queueVars
  <2> QED BY <1>9, <2>2, <2>3, <2>4, <2>5, <2>6, <2>7, <2>8
<1> QED BY <1>1, <1>2, <1>3, <1>4, <1>5, <1>6, <1>7, <1>9 DEF Step, GatesFail

LEMMA StrandedOthers ==
    ASSUME Structure, NoStrandedWaiter, NEW s \in Session,
           \/ EndRun(s) \/ StaleLockReap(s) \/ Drain(s) \/ DrainLoop(s) \/ GraceSweep
           \/ GraceLapse(s) \/ Connect(s) \/ Disconnect(s) \/ CapFlip \/ KillSwitchFlip
           \/ UNCHANGED vars
    PROVE  NoStrandedWaiter'
<1>0. /\ pc \in [Request -> PC] /\ from \in [Request -> {"source", "promotion", "replay"}]
      /\ slot \in [Session -> Token \cup {None}] /\ waiters \in [Session -> Seq(Token)]
  BY DEF Structure, Types, QueueTypeOK, PC
<1>1. CASE StaleLockReap(s)
  <2>1. /\ waiters' = [waiters EXCEPT ![s] = << >>] /\ slot' = [slot EXCEPT ![s] = None]
        /\ UNCHANGED <<pc, from>>
    BY <1>1 DEF StaleLockReap, Abandon
  <2>2. \A g \in Session : waiters'[g] # << >> => waiters'[g] = waiters[g] /\ slot'[g] = slot[g]
    BY <1>0, <2>1
  <2> QED BY <2>1, <2>2 DEF NoStrandedWaiter
<1>2. ASSUME NEW d \in drains[s], DrainNext(s, d)
      PROVE  NoStrandedWaiter'
  <2> DEFINE r == Head(d.rest)
  <2>1. d.rest # << >> /\ UNCHANGED <<slot, waiters>>
    BY <1>2 DEF DrainNext, Grace!Advance, queueVars
  <2>2. d.rest \in Seq(Request)
    BY DEF Structure, Types, Grace!GraceTypeOK, Grace!Loop
  <2>3. 1 \in 1 .. Len(d.rest) /\ r = d.rest[1]
    BY <2>1, <2>2
  <2>4. r \in Request /\ pc[r] = "parked"
    BY <2>3, LoopEntry
  <2>5. \A q \in Request : q # r => pc'[q] = pc[q] /\ from'[q] = from[q]
    BY <1>0, <1>2, <2>4 DEF DrainNext, Goto
  <2> QED BY <2>1, <2>4, <2>5, StrandedStill DEF Passing
<1>3. CASE GraceSweep
  <2>1. UNCHANGED <<slot, waiters, from>>
    BY <1>3 DEF GraceSweep, queueVars
  <2>2. \A q \in Grace!Swept : q \in Request /\ pc[q] = "parked"
    <3> SUFFICES ASSUME NEW q \in Grace!Swept PROVE q \in Request /\ pc[q] = "parked"
      OBVIOUS
    <3>1. PICK g \in Session : q \in Request /\ \E i \in 1 .. stale[g] : parked[g][i] = q
      BY DEF Grace!Swept
    <3>2. stale[g] \in Nat /\ Len(parked[g]) \in Nat /\ stale[g] <= Len(parked[g])
      BY DEF Structure, Types, Grace!GraceTypeOK, ListOK
    <3> QED BY <3>1, <3>2 DEF Structure, ListOK
  <2>3. \A q \in Request : pc[q] \in Passing => pc'[q] = pc[q]
    BY <1>3, <2>2 DEF GraceSweep, Passing
  <2> QED BY <2>1, <2>3, StrandedStill
<1>4. CASE \/ EndRun(s) \/ Drain(s) \/ GraceLapse(s) \/ Connect(s) \/ Disconnect(s) \/ CapFlip
           \/ KillSwitchFlip \/ UNCHANGED vars \/ \E d \in drains[s] : DrainEnd(s, d)
  <2>1. UNCHANGED <<slot, waiters, pc, from>>
    BY <1>4 DEF EndRun, OnSessionReply, ReapTimedOutHook, ReleaseClosedRun, TakeHook, Drain, GraceLapse,
                Connect, Disconnect, CapFlip, KillSwitchFlip, vars, DrainEnd, queueVars
  <2> QED BY <2>1, StrandedStill
<1> QED BY <1>1, <1>2, <1>3, <1>4 DEF DrainLoop

(* While no gate throws, no waiter is stranded: whenever a slot is free    *)
(* and somebody waits, a promoted activation is on its way.                *)
THEOREM NobodyStranded == ~GatesThrow => (Spec => []NoStrandedWaiter)
<1> SUFFICES ASSUME ~GatesThrow PROVE Spec => []NoStrandedWaiter
  OBVIOUS
<1>1. Init => NoStrandedWaiter
  BY DEF Init, QueueInit, NoStrandedWaiter
<1>2. Structure /\ NoStrandedWaiter /\ [Next]_vars => NoStrandedWaiter'
  <2> SUFFICES ASSUME Structure, NoStrandedWaiter, [Next]_vars, NEW g \in Session,
                      slot'[g] = None, waiters'[g] # << >>
               PROVE  \E q \in Request :
                         SessionOf[q] = g /\ from'[q] = "promotion" /\ pc'[q] \in Passing
    BY DEF NoStrandedWaiter
  <2>1. NoStrandedWaiter'
    BY StrandedMoves, StrandedOthers DEF Next
  <2> QED BY <2>1 DEF NoStrandedWaiter
<1> QED BY <1>1, <1>2, AlwaysStructure, PTL DEF Spec
=============================================================================
