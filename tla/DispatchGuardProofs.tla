------------------------ MODULE DispatchGuardProofs -------------------------
(***************************************************************************)
(* What stands between a request and its send, and what becomes of it      *)
(* otherwise: proofs for every set of sessions and requests that a sent    *)
(* prompt passed the spending gates and the kill switch, that the ledger   *)
(* charges exactly the prompts that hold a reservation and never exceeds   *)
(* the lifetime ceiling, that a waiting request is in the queue, which is  *)
(* first in, first out, that a parked one is in the grace buffer exactly   *)
(* once, that no request is left waiting for nobody, and that the whole    *)
(* pipeline implements the server that its callers see (OneRunPerSession). *)
(***************************************************************************)
EXTENDS DispatchRunProofs, FiniteSetTheorems, FunctionTheorems

USE QueueAssumption, PipelineAssumption

-----------------------------------------------------------------------------
(* The guards.  A request that has passed the gates could pass them at     *)
(* some time in its activation; one that stands before them still can, if  *)
(* they are open now.                                                      *)
BeforeCaps == {"gates", "caps"}
PastGates == {"lifetime", "claim", "sent", "closed"} \cup Holding

CapOK ==
    \A r \in Request :
        /\ pc[r] \in BeforeCaps /\ ~capped => okSince[r]
        /\ pc[r] \in PastGates => okSince[r]

(* The same for the kill switch, from the opening of the row on.           *)
BeforeHalt == {"marking", "halt"}
PastHalt == {"send"} \cup Sending

HaltOK ==
    \A r \in Machine :
        /\ pc[r] \in BeforeHalt /\ ~halted => clearSince[r]
        /\ pc[r] \in PastHalt => clearSince[r]

Rests(q) == pc'[q] = pc[q] /\ okSince'[q] = okSince[q] /\ clearSince'[q] = clearSince[q]

(* What a step may do to a request, as the gates, ...                      *)
CapMove(q) ==
    \/ pc'[q] = "gates" /\ okSince'[q] = ~capped
    \/ pc[q] = "gates" /\ pc'[q] = "caps" /\ okSince'[q] = okSince[q]
    \/ pc[q] \in BeforeCaps /\ ~capped /\ okSince'[q] = okSince[q]
    \/ pc[q] \in PastGates /\ pc'[q] \notin BeforeCaps /\ okSince'[q] = okSince[q]
    \/ pc'[q] \notin PastGates \cup BeforeCaps

(* ... the kill switch ...                                                 *)
HaltMove(q) ==
    \/ pc'[q] = "marking" /\ clearSince'[q] = ~halted
    \/ pc[q] = "marking" /\ pc'[q] = "halt" /\ clearSince'[q] = clearSince[q]
    \/ pc[q] = "halt" /\ ~halted /\ clearSince'[q] = clearSince[q]
    \/ pc[q] \in PastHalt /\ pc'[q] \in PastHalt /\ clearSince'[q] = clearSince[q]
    \/ pc'[q] \notin BeforeHalt \cup PastHalt

(* ... and the ledger see it.                                              *)
MayCharge == Reserved \cup {"hung"}

(* Past the release of its reservation: a request never comes back.        *)
Spent == {"failing", "halting", "threw", "failed", "skipping", "skipped"}

KeepsCharge(q) ==
    /\ pc'[q] \in Reserved => pc[q] \in Reserved
    /\ pc[q] \in MayCharge => pc'[q] \in MayCharge
    /\ pc[q] \in Spent => pc'[q] \in Spent

Reserves(r) ==
    /\ pc[r] = "reserve"
    /\ \E done \in SUBSET pending :
          /\ Healed(done)
          /\ \/ charged' = charged \ done /\ pc'[r] = "skipping"
             \/ charged' = (charged \ done) \cup {TokenOf[r]} /\ pc'[r] = "open"

LedgerMove(r) ==
    \/ UNCHANGED ledgerVars /\ (r \in Counted => KeepsCharge(r))
    \/ r \in Counted /\ Reserves(r)
    \/ r \in Counted /\ ReleaseInject(r) /\ pc'[r] \in Spent

Guarded(q) == CapMove(q) /\ (q \in Machine => HaltMove(q))

(* A step of the activation of r.  Everybody else rests or is promoted.    *)
GuardedStep(r) ==
    /\ UNCHANGED <<capped, halted>>
    /\ Rests(r) \/ Guarded(r)
    /\ LedgerMove(r)
    /\ \A q \in Request \ {r} : Rests(q) \/ (Guarded(q) /\ KeepsCharge(q))

-----------------------------------------------------------------------------
LEMMA GuardTypes ==
    ASSUME Structure
    PROVE  /\ pc \in [Request -> PC] /\ okSince \in [Request -> BOOLEAN]
           /\ clearSince \in [Request -> BOOLEAN]
           /\ charged \subseteq Token /\ pending \subseteq Token
           /\ \A r \in Request : SessionOf[r] \in Session /\ TokenOf[r] \in Token
BY DEF Structure, Types, PC

(* The gates, one by one.                                                  *)
GatesAsked(r) == KillSwitchPasses(r) \/ CapsPass(r) \/ LifetimePasses(r) \/ GatesBlock(r)

GatesMove(r) ==
    /\ pc[r] \in {"gates", "caps", "lifetime"}
    /\ \E p \in {"caps", "lifetime", "claim", "skipping"} : Goto(r, p)
    /\ UNCHANGED <<queueVars, ctx, hook, from, closing, ledgerVars, graceVars, worldVars, okSince,
                   clearSince>>

LEMMA GatesMoves == ASSUME NEW r \in Request, GatesAsked(r) PROVE GatesMove(r)
BY DEF GatesAsked, KillSwitchPasses, CapsPass, LifetimePasses, GatesBlock, AtCaps, PastCaps, GatesMove

(* The steps of an activation that keep the slot as it is.                 *)
LEMMA MovingAlone ==
    ASSUME Structure, NEW r \in Request,
           \/ Start(r) \/ GatesAsked(r) \/ GatesFail(r) \/ DropBusy(r)
           \/ ClaimSlot(r) \/ JoinQueue(r) \/ Hang(r)
           \/ OpenRow(r) \/ OpenThrows(r) \/ MarkDispatched(r) \/ FinalHaltCheck(r)
           \/ BeginSend(r) \/ Send(r) \/ SendThrows(r) \/ GiveBack(r)
    PROVE  GuardedStep(r)
<1> USE GuardTypes DEF GuardedStep, Guarded, CapMove, HaltMove, LedgerMove, KeepsCharge, Rests, Goto,
        worldVars, ledgerVars, BeforeCaps, PastGates, BeforeHalt, PastHalt, Sending, Reserved, MayCharge,
        Spent, Holding
<1>1. CASE Start(r)
  BY <1>1 DEF Start
<1>2. CASE KillSwitchPasses(r) \/ LifetimePasses(r) \/ GatesBlock(r)
  BY <1>2 DEF KillSwitchPasses, LifetimePasses, GatesBlock, AtCaps
<1>12. CASE CapsPass(r)
  <2>1. /\ pc[r] \in {"gates", "caps"} /\ ~capped
        /\ \E p \in {"lifetime", "claim"} : Goto(r, p)
        /\ UNCHANGED <<charged, pending, okSince, clearSince, capped, halted>>
    BY <1>12 DEF CapsPass, AtCaps, PastCaps
  <2>2. PICK p \in {"lifetime", "claim"} : pc'[r] = p
    BY <2>1
  <2>3. \A q \in Request \ {r} : Rests(q)
    BY <2>1
  <2>4. CapMove(r) /\ HaltMove(r) /\ KeepsCharge(r)
    BY <2>1, <2>2
  <2>5. LedgerMove(r) /\ UNCHANGED <<capped, halted>>
    BY <2>1, <2>4
  <2> HIDE DEF CapMove, HaltMove, KeepsCharge, LedgerMove, Rests
  <2> QED BY <2>3, <2>4, <2>5
<1>3. CASE GatesFail(r) \/ DropBusy(r)
  BY <1>3 DEF GatesFail, AtCaps, DropBusy
<1>4. CASE ClaimSlot(r)
  BY <1>4 DEF ClaimSlot
<1>5. CASE JoinQueue(r)
  BY <1>5 DEF JoinQueue
<1>6. CASE Hang(r)
  BY <1>6 DEF Hang
<1>7. CASE OpenRow(r)
  BY <1>7 DEF OpenRow
<1>8. CASE OpenThrows(r) \/ MarkDispatched(r)
  BY <1>8 DEF OpenThrows, MarkDispatched
<1>9. CASE FinalHaltCheck(r)
  BY <1>9 DEF FinalHaltCheck
<1>10. CASE BeginSend(r) \/ Send(r) \/ SendThrows(r)
  BY <1>10 DEF BeginSend, Send, SendThrows
<1>11. CASE GiveBack(r)
  <2>0. ReleaseInject(r)
    BY <1>11 DEF GiveBack
  <2>1. r \notin Counted => UNCHANGED ledgerVars
    BY <2>0 DEF ReleaseInject
  <2>2. /\ \E p \in {"failing", "halting"} : Goto(r, p)
        /\ UNCHANGED <<okSince, clearSince, capped, halted>>
        /\ pc[r] \in {"unwind", "haltUnwind"}
    BY <1>11 DEF GiveBack
  <2>3. pc'[r] \in {"failing", "halting"}
    BY <2>2
  <2>4. CapMove(r) /\ HaltMove(r)
    BY <2>2, <2>3
  <2>5. LedgerMove(r)
    <3>1. r \notin Counted => LedgerMove(r)
      BY <2>1
    <3>2. ASSUME r \in Counted
          PROVE  LedgerMove(r)
      <4>1. ReleaseInject(r) /\ pc'[r] \in Spent
        BY <2>0, <2>3, <3>2
      <4> QED BY <3>2, <4>1, Zenon DEF LedgerMove
    <3> QED BY <3>1, <3>2
  <2>6. \A q \in Request \ {r} : Rests(q)
    BY <2>2
  <2> QED BY <2>2, <2>4, <2>5, <2>6
<1> QED BY <1>1, <1>2, <1>3, <1>4, <1>5, <1>6, <1>7, <1>8, <1>9, <1>10, <1>11, <1>12 DEF GatesAsked

(* A release moves the one who gives the slot back and, perhaps, the one   *)
(* it promotes, who stands before the gates again.                         *)
Promoted(q) ==
    /\ pc[q] = "waiting" /\ pc'[q] = "gates"
    /\ okSince'[q] = ~capped /\ clearSince'[q] = clearSince[q]

LEMMA ReleaseMoves ==
    ASSUME Structure, NEW r \in Request, NEW s \in Session, NEW p,
           ReleaseAndPromote(s, [pc EXCEPT ![r] = p]), clearSince' = clearSince
    PROVE  /\ Promoted(r) \/ (pc'[r] = p /\ okSince'[r] = okSince[r] /\ clearSince'[r] = clearSince[r])
           /\ \A q \in Request \ {r} : Rests(q) \/ Promoted(q)
<1> DEFINE after == [pc EXCEPT ![r] = p]
<1>1. after[r] = p /\ DOMAIN after = Request /\ \A q \in Request \ {r} : after[q] = pc[q]
  BY GuardTypes
<1>2. CASE PromotesNobody(s, after)
  BY <1>1, <1>2 DEF PromotesNobody, Rests
<1>3. CASE \E w \in Request : Promotes(s, w, after)
  <2>1. PICK w \in Request : Promotes(s, w, after)
    BY <1>3
  <2>2. /\ pc[w] = "waiting" /\ pc'[w] = "gates" /\ okSince'[w] = ~capped
        /\ \A q \in Request \ {w} : pc'[q] = after[q] /\ okSince'[q] = okSince[q]
    BY <1>1, <2>1, GuardTypes DEF Promotes
  <2> QED BY <1>1, <2>2 DEF Rests, Promoted
<1> QED BY <1>2, <1>3, ReleaseCases

LEMMA PromotedGuarded ==
    ASSUME NEW q, Promoted(q)
    PROVE  Guarded(q) /\ KeepsCharge(q)
BY DEF Promoted, Guarded, CapMove, HaltMove, KeepsCharge, BeforeHalt, PastHalt, Sending, Reserved,
       MayCharge, Spent

LEMMA GivingBack ==
    ASSUME Structure, NEW r \in Request,
           \/ ReturnSkipped(r) \/ IsOnline(r) \/ PreEnsureCheck(r) \/ EnsureOnline(r)
           \/ PreSendGuard(r) \/ ReserveInject(r) \/ RethrowOpen(r) \/ Unwind(r) \/ FinishClose(r)
    PROVE  GuardedStep(r)
<1> DEFINE Aside == {"skipped", "skipping", "absorbed", "parked", "threw", "failed"}
           Leaves(p) ==
             /\ ReleaseAndPromote(SessionOf[r], [pc EXCEPT ![r] = p])
             /\ UNCHANGED <<clearSince, capped, halted>>
           LedgerMoves == UNCHANGED ledgerVars \/ (r \in Counted /\ Reserves(r))
<1>1. ASSUME NEW p \in Aside, Leaves(p), pc[r] \notin MayCharge \cup {"waiting"},
             pc[r] \in Spent => p \in Spent, LedgerMoves
      PROVE  GuardedStep(r)
  <2>1. pc'[r] = p /\ okSince'[r] = okSince[r] /\ clearSince'[r] = clearSince[r]
    <3>1. clearSince' = clearSince /\ ReleaseAndPromote(SessionOf[r], [pc EXCEPT ![r] = p])
      BY <1>1
    <3>2. SessionOf[r] \in Session
      BY GuardTypes
    <3>3. ~Promoted(r)
      BY <1>1 DEF Promoted
    <3> HIDE DEF Leaves
    <3> QED BY <3>1, <3>2, <3>3, ReleaseMoves
  <2> QED BY <1>1, <2>1, GuardTypes, ReleaseMoves, PromotedGuarded
          DEF GuardedStep, Guarded, CapMove, HaltMove, LedgerMove, KeepsCharge, BeforeCaps, PastGates,
              BeforeHalt, PastHalt, Sending, Reserved, MayCharge, Spent, Holding
<1>2. ASSUME NEW p \in Aside \cap Spent, Leaves(p), pc[r] \in MayCharge, ReleaseInject(r)
      PROVE  GuardedStep(r)
  <2>1. pc'[r] = p /\ okSince'[r] = okSince[r] /\ clearSince'[r] = clearSince[r]
    <3>1. clearSince' = clearSince /\ ReleaseAndPromote(SessionOf[r], [pc EXCEPT ![r] = p])
      BY <1>2
    <3>2. SessionOf[r] \in Session
      BY GuardTypes
    <3>3. ~Promoted(r)
      BY <1>2 DEF Promoted, MayCharge, Reserved, Sending
    <3> HIDE DEF Leaves
    <3> QED BY <3>1, <3>2, <3>3, ReleaseMoves
  <2>2. LedgerMove(r)
    <3>1. CASE r \in Counted
      BY <1>2, <2>1, <3>1 DEF LedgerMove
    <3>2. CASE r \notin Counted
      BY <1>2, <3>2 DEF LedgerMove, ReleaseInject
    <3> QED BY <3>1, <3>2
  <2> QED BY <1>2, <2>1, <2>2, GuardTypes, ReleaseMoves, PromotedGuarded
          DEF GuardedStep, Guarded, CapMove, HaltMove, BeforeCaps, PastGates, BeforeHalt,
              PastHalt, Sending, Reserved, MayCharge, Spent, Holding
<1>3. ASSUME NEW p \in {"guard", "reserve", "open", "precheck", "ensure"}, Goto(r, p),
             pc[r] \in {"online", "precheck", "ensure", "guard"}, p = "open" => r \notin Counted,
             UNCHANGED <<ledgerVars, okSince, clearSince, capped, halted>>
      PROVE  GuardedStep(r)
  BY <1>3, GuardTypes DEF GuardedStep, Guarded, CapMove, HaltMove, LedgerMove, KeepsCharge, Rests, Goto,
        BeforeCaps, PastGates, BeforeHalt, PastHalt, Sending, Reserved, MayCharge, Spent, Holding
<1>4. CASE ReturnSkipped(r)
  <2>1. CASE from[r] = "promotion" /\ slot[SessionOf[r]] = None /\ waiters[SessionOf[r]] # << >>
    <3>1. Leaves("skipped") /\ LedgerMoves /\ pc[r] \notin MayCharge \cup {"waiting"}
      BY <1>4, <2>1 DEF ReturnSkipped, worldVars, ledgerVars, MayCharge, Reserved, Sending
    <3>2. "skipped" \in Aside /\ "skipped" \in Spent
      BY DEF Spent
    <3> HIDE DEF Aside, Leaves, LedgerMoves
    <3> QED BY <3>1, <3>2, <1>1
  <2>2. CASE ~(from[r] = "promotion" /\ slot[SessionOf[r]] = None /\ waiters[SessionOf[r]] # << >>)
    BY <1>4, <2>2, GuardTypes
       DEF ReturnSkipped, worldVars, ledgerVars, Goto, GuardedStep, Guarded, CapMove, HaltMove, LedgerMove, KeepsCharge,
           Rests, BeforeCaps, PastGates, BeforeHalt, PastHalt, Sending, Reserved, MayCharge, Spent, Holding
  <2> QED BY <2>1, <2>2
<1>5. ASSUME Park(r), pc[r] \in {"online", "ensure"}
      PROVE  GuardedStep(r)
  <2>1. PICK p \in {"absorbed", "parked"} : Leaves(p) /\ LedgerMoves
    BY <1>5 DEF Park, worldVars, ledgerVars
  <2>2. pc[r] \notin MayCharge \cup {"waiting"} /\ pc[r] \notin Spent /\ p \in Aside
    BY <1>5 DEF MayCharge, Reserved, Sending, Spent
  <2> HIDE DEF Aside, Leaves, LedgerMoves
  <2> QED BY <2>1, <2>2, <1>1
<1>6. ASSUME Refuse(r), pc[r] \in {"precheck", "guard"}
      PROVE  GuardedStep(r)
  <2>1. Leaves("skipping") /\ LedgerMoves
    BY <1>6 DEF Refuse, FreeSlot, worldVars, ledgerVars
  <2>2. pc[r] \notin MayCharge \cup {"waiting"} /\ pc[r] \notin Spent /\ "skipping" \in Aside
    BY <1>6 DEF MayCharge, Reserved, Sending, Spent
  <2> HIDE DEF Aside, Leaves, LedgerMoves
  <2> QED BY <2>1, <2>2, <1>1
<1>7. CASE IsOnline(r) \/ EnsureOnline(r)
  <2>1. CASE Park(r)
    BY <1>7, <2>1, <1>5 DEF IsOnline, EnsureOnline
  <2>2. CASE ~Park(r)
    <3>1. /\ pc[r] \in {"online", "ensure"}
          /\ \E p \in {"guard", "reserve", "open", "precheck", "ensure"} :
                Goto(r, p) /\ (p = "open" => r \notin Counted)
          /\ UNCHANGED <<ledgerVars, okSince, clearSince, capped, halted>>
      BY <1>7, <2>2 DEF IsOnline, EnsureOnline, PastOnline, PastHaltRead, worldVars, ledgerVars
    <3> QED BY <3>1, <1>3
  <2> QED BY <2>1, <2>2
<1>8. CASE PreEnsureCheck(r)
  <2>1. CASE Refuse(r)
    BY <1>8, <2>1, <1>6 DEF PreEnsureCheck
  <2>2. CASE ~Refuse(r)
    <3>1. pc[r] = "precheck" /\ Goto(r, "ensure") /\ UNCHANGED <<ledgerVars, okSince, clearSince, capped, halted>>
      BY <1>8, <2>2 DEF PreEnsureCheck, worldVars, ledgerVars
    <3> QED BY <3>1, <1>3
  <2> QED BY <2>1, <2>2
<1>9. CASE PreSendGuard(r)
  <2>1. CASE Refuse(r)
    BY <1>9, <2>1, <1>6 DEF PreSendGuard
  <2>2. CASE ~Refuse(r)
    <3>1. /\ pc[r] = "guard" /\ UNCHANGED <<ledgerVars, okSince, clearSince, capped, halted>>
          /\ \E p \in {"reserve", "open"} : Goto(r, p) /\ (p = "open" => r \notin Counted)
      BY <1>9, <2>2 DEF PreSendGuard, PastHaltRead, worldVars
    <3> QED BY <3>1, <1>3
  <2> QED BY <2>1, <2>2
<1>10. CASE RethrowOpen(r)
  <2>1. Leaves("threw") /\ ReleaseInject(r) /\ pc[r] \in MayCharge
    BY <1>10 DEF RethrowOpen, FreeSlot, worldVars, MayCharge, Reserved
  <2>2. "threw" \in Aside \cap Spent
    BY DEF Spent
  <2> QED BY <2>1, <2>2, <1>2
<1>11. CASE Unwind(r)
  <2>1. PICK p \in {"failed", "skipping"} : Leaves(p)
    BY <1>11 DEF Unwind, FreeSlot, worldVars
  <2>2. LedgerMoves /\ pc[r] \notin MayCharge \cup {"waiting"} /\ p \in Aside /\ p \in Spent
    BY <1>11 DEF Unwind, MayCharge, Reserved, Sending, Spent
  <2> HIDE DEF Aside, Leaves, LedgerMoves
  <2> QED BY <2>1, <2>2, <1>1
<1>13. CASE ReserveInject(r)
  <2>1. r \in Counted /\ pc[r] = "reserve" /\ UNCHANGED <<clearSince, capped, halted>>
    BY <1>13 DEF ReserveInject, worldVars
  <2>2. PICK done \in SUBSET pending :
          /\ Healed(done)
          /\ \/ charged' = charged \ done /\ FreeSlot(r, "skipping")
             \/ /\ charged' = (charged \ done) \cup {TokenOf[r]} /\ Goto(r, "open")
                /\ okSince' = okSince
    BY <1>13 DEF ReserveInject
  <2>3. CASE charged' = charged \ done /\ FreeSlot(r, "skipping")
    <3>1. Leaves("skipping")
      BY <2>1, <2>3 DEF FreeSlot
    <3>2. pc'[r] = "skipping"
      <4>1. clearSince' = clearSince /\ ReleaseAndPromote(SessionOf[r], [pc EXCEPT ![r] = "skipping"])
        BY <3>1
      <4>2. SessionOf[r] \in Session
        BY GuardTypes
      <4>3. ~Promoted(r)
        BY <2>1 DEF Promoted
      <4> HIDE DEF Leaves
      <4> QED BY <4>1, <4>2, <4>3, ReleaseMoves
    <3>3. LedgerMoves
      BY <2>1, <2>2, <2>3, <3>2 DEF Reserves
    <3>4. pc[r] \notin MayCharge \cup {"waiting"} /\ pc[r] \notin Spent /\ "skipping" \in Aside
      BY <2>1 DEF MayCharge, Reserved, Sending, Spent
    <3> HIDE DEF Aside, Leaves, LedgerMoves
    <3> QED BY <3>1, <3>3, <3>4, <1>1
  <2>4. CASE charged' = (charged \ done) \cup {TokenOf[r]} /\ Goto(r, "open") /\ okSince' = okSince
    <3>1. pc'[r] = "open" /\ \A q \in Request \ {r} : pc'[q] = pc[q]
      BY <2>4, GuardTypes DEF Goto
    <3>2. Reserves(r)
      BY <2>1, <2>2, <2>4, <3>1 DEF Reserves
    <3> QED BY <2>1, <2>4, <3>1, <3>2, GuardTypes
            DEF GuardedStep, Guarded, CapMove, HaltMove, LedgerMove, Rests, BeforeCaps, PastGates,
                BeforeHalt, PastHalt, Sending, Holding
  <2> QED BY <2>2, <2>3, <2>4
<1>12. CASE FinishClose(r)
  <2> DEFINE p == IF pc[r] = "sent" THEN "closed" ELSE pc[r]
  <2>1. Leaves(p) /\ UNCHANGED ledgerVars
    BY <1>12 DEF FinishClose, worldVars, ledgerVars
  <2>2. Promoted(r) \/ Rests(r) \/ (pc[r] = "sent" /\ pc'[r] = "closed" /\ okSince'[r] = okSince[r]
                                    /\ clearSince'[r] = clearSince[r])
    BY <2>1, ReleaseMoves, GuardTypes DEF Rests
  <2>3. (Rests(r) \/ Guarded(r)) /\ KeepsCharge(r)
    <3>1. CASE pc[r] = "sent" /\ pc'[r] = "closed" /\ okSince'[r] = okSince[r] /\ clearSince'[r] = clearSince[r]
      BY <3>1 DEF Guarded, CapMove, HaltMove, KeepsCharge, BeforeCaps, PastGates, BeforeHalt, PastHalt, Sending,
                  Reserved, MayCharge, Spent
    <3>2. CASE Rests(r)
      BY <3>2 DEF Rests, KeepsCharge
    <3> QED BY <2>2, <3>1, <3>2, PromotedGuarded
  <2>4. UNCHANGED <<capped, halted>> /\ LedgerMove(r)
    BY <2>1, <2>3 DEF LedgerMove
  <2>5. \A q \in Request \ {r} : Rests(q) \/ (Guarded(q) /\ KeepsCharge(q))
    BY <2>1, ReleaseMoves, PromotedGuarded
  <2> QED BY <2>3, <2>4, <2>5 DEF GuardedStep
<1> QED BY <1>4, <1>7, <1>8, <1>9, <1>10, <1>11, <1>12, <1>13

(* A retry that joins the queue in its twin's place leaves both of them    *)
(* short of every guard.                                                   *)
LEMMA JoiningTwin ==
    ASSUME Structure, NEW r \in Request, JoinTwin(r)
    PROVE  GuardedStep(r)
<1> DEFINE t == TokenOf[r]
           twin == ctx[SessionOf[r]][t]
<1>1. pc[r] = "claim" /\ UNCHANGED <<ledgerVars, okSince, clearSince, capped, halted>>
  BY DEF JoinTwin, worldVars, ledgerVars
<1>2. CASE slot[SessionOf[r]] = t
  BY <1>1, <1>2, GuardTypes
     DEF JoinTwin, Goto, GuardedStep, Guarded, CapMove, HaltMove, LedgerMove, KeepsCharge, Rests, BeforeCaps, PastGates,
         BeforeHalt, PastHalt, Sending, Reserved, MayCharge, Spent, Holding
<1>3. CASE slot[SessionOf[r]] # t
  <2>1. pc' = [q \in Request |-> IF q = r THEN "waiting" ELSE IF q = twin THEN "superseded" ELSE pc[q]]
    BY <1>3 DEF JoinTwin
  <2>2. \A q \in Request : q = twin => pc[q] = "waiting"
    BY GuardTypes DEF Structure, CtxOK
  <2> QED BY <1>1, <2>1, <2>2, GuardTypes
          DEF GuardedStep, Guarded, CapMove, HaltMove, LedgerMove, KeepsCharge, Rests, BeforeCaps, PastGates,
              BeforeHalt, PastHalt, Sending, Reserved, MayCharge, Spent, Holding
<1> QED BY <1>2, <1>3

LEMMA ActivationsGuarded ==
    ASSUME Structure, NEW r \in Request,
           Start(r) \/ Step(r) \/ GatesFail(r) \/ Hang(r) \/ FinishClose(r)
    PROVE  GuardedStep(r)
BY MovingAlone, GivingBack, JoiningTwin DEF Step, GatesAsked

LEMMA SweptParked ==
    ASSUME Structure
    PROVE  \A q \in Grace!Swept : q \in Request /\ pc[q] = "parked"
<1> SUFFICES ASSUME NEW q \in Grace!Swept PROVE q \in Request /\ pc[q] = "parked"
  OBVIOUS
<1>1. PICK g \in Session : q \in Request /\ \E i \in 1 .. stale[g] : parked[g][i] = q
  BY DEF Grace!Swept
<1>2. stale[g] \in Nat /\ Len(parked[g]) \in Nat /\ stale[g] <= Len(parked[g])
  BY DEF Structure, Types, Grace!GraceTypeOK, ListOK
<1> QED BY <1>1, <1>2 DEF Structure, ListOK

(* What a drain or a sweep takes out of the grace buffer was parked.       *)
Unparked(q) ==
    /\ pc[q] = "parked" /\ clearSince'[q] = clearSince[q]
    /\ \/ pc'[q] = "gates" /\ okSince'[q] = ~capped
       \/ pc'[q] = "expired" /\ okSince'[q] = okSince[q]

(* The steps of nobody's activation, the two flips aside.                  *)
LEMMA OthersGuarded ==
    ASSUME Structure, NEW s \in Session,
           \/ EndRun(s) \/ StaleLockReap(s) \/ Drain(s) \/ DrainLoop(s) \/ GraceSweep
           \/ GraceLapse(s) \/ Connect(s) \/ Disconnect(s)
    PROVE  /\ UNCHANGED <<ledgerVars, capped, halted>>
           /\ \A q \in Request : Rests(q) \/ Unparked(q)
<1>1. ASSUME NEW d \in drains[s], DrainNext(s, d)
      PROVE  UNCHANGED <<ledgerVars, capped, halted>> /\ \A q \in Request : Rests(q) \/ Unparked(q)
  <2> DEFINE r == Head(d.rest)
  <2>1. d.rest # << >> /\ UNCHANGED <<ledgerVars, capped, halted, clearSince>>
    BY <1>1 DEF DrainNext, Grace!Advance, worldVars, ledgerVars
  <2>2. d.rest \in Seq(Request)
    BY DEF Structure, Types, Grace!GraceTypeOK, Grace!Loop
  <2>3. 1 \in 1 .. Len(d.rest) /\ r = d.rest[1]
    BY <2>1, <2>2
  <2>4. r \in Request /\ pc[r] = "parked"
    BY <2>3, LoopEntry
  <2>5. \/ pc'[r] = "expired" /\ okSince' = okSince
        \/ pc'[r] = "gates" /\ okSince' = [okSince EXCEPT ![r] = ~capped]
    BY <1>1, <2>4, GuardTypes DEF DrainNext, Goto
  <2>6. \A q \in Request : q # r => pc'[q] = pc[q]
    BY <1>1, <2>4, GuardTypes DEF DrainNext, Goto
  <2> QED BY <2>1, <2>4, <2>5, <2>6, GuardTypes DEF Rests, Unparked
<1>2. CASE GraceSweep
  <2>1. UNCHANGED <<ledgerVars, capped, halted, okSince, clearSince>>
    BY <1>2 DEF GraceSweep, worldVars, ledgerVars
  <2>2. \A q \in Grace!Swept : q \in Request /\ pc[q] = "parked"
    BY SweptParked
  <2>3. \A q \in Request : pc'[q] = pc[q] \/ (pc[q] = "parked" /\ pc'[q] = "expired")
    BY <1>2, <2>2 DEF GraceSweep
  <2> QED BY <2>1, <2>3 DEF Rests, Unparked
<1>3. CASE \/ EndRun(s) \/ StaleLockReap(s) \/ Drain(s) \/ GraceLapse(s) \/ Connect(s) \/ Disconnect(s)
           \/ \E d \in drains[s] : DrainEnd(s, d)
  <2>1. UNCHANGED <<ledgerVars, capped, halted, pc, okSince, clearSince>>
    BY <1>3 DEF EndRun, OnSessionReply, ReapTimedOutHook, ReleaseClosedRun, TakeHook, StaleLockReap, Drain,
                GraceLapse, Connect, Disconnect, DrainEnd, worldVars, ledgerVars
  <2> QED BY <2>1 DEF Rests
<1> QED BY <1>1, <1>2, <1>3 DEF DrainLoop

LEMMA UnparkedGuarded ==
    ASSUME NEW q, Unparked(q)
    PROVE  Guarded(q) /\ KeepsCharge(q)
BY DEF Unparked, Guarded, CapMove, HaltMove, KeepsCharge, BeforeCaps, PastGates, BeforeHalt, PastHalt, Sending,
       Reserved, MayCharge, Spent, Holding

-----------------------------------------------------------------------------
(* The two guards hold whatever fails, hangs or ends early.                *)

LEMMA GuardsInit == Init => CapOK /\ HaltOK
BY DEF Init, CapOK, HaltOK, BeforeCaps, PastGates, BeforeHalt, PastHalt, Sending, Holding

LEMMA GuardedKeeps ==
    ASSUME Structure, CapOK, HaltOK, UNCHANGED <<capped, halted>>,
           \A q \in Request : Rests(q) \/ Guarded(q)
    PROVE  CapOK' /\ HaltOK'
<1>1. CapOK'
  BY GuardTypes DEF CapOK, Rests, Guarded, CapMove, BeforeCaps, PastGates, Holding
<1>2. HaltOK'
  <2> SUFFICES ASSUME NEW r \in Machine
               PROVE  /\ pc'[r] \in BeforeHalt /\ ~halted' => clearSince'[r]
                      /\ pc'[r] \in PastHalt => clearSince'[r]
    BY DEF HaltOK, BeforeHalt, PastHalt, Sending
  <2>1. r \in Request
    OBVIOUS
  <2> QED BY <2>1, GuardTypes DEF HaltOK, Rests, Guarded, HaltMove, BeforeHalt, PastHalt, Sending
<1> QED BY <1>1, <1>2

LEMMA GuardsNext == Structure /\ CapOK /\ HaltOK /\ [Next]_vars => CapOK' /\ HaltOK'
<1> SUFFICES ASSUME Structure, CapOK, HaltOK, [Next]_vars PROVE CapOK' /\ HaltOK'
  OBVIOUS
<1>1. ASSUME NEW r \in Request, Start(r) \/ Step(r) \/ GatesFail(r) \/ Hang(r) \/ FinishClose(r)
      PROVE  CapOK' /\ HaltOK'
  <2>1. GuardedStep(r)
    BY <1>1, ActivationsGuarded
  <2> QED BY <2>1, GuardedKeeps DEF GuardedStep
<1>2. ASSUME NEW s \in Session,
             \/ EndRun(s) \/ StaleLockReap(s) \/ Drain(s) \/ DrainLoop(s) \/ GraceSweep
             \/ GraceLapse(s) \/ Connect(s) \/ Disconnect(s)
      PROVE  CapOK' /\ HaltOK'
  BY <1>2, OthersGuarded, UnparkedGuarded, GuardedKeeps
<1>3. CASE CapFlip
  BY <1>3, GuardTypes DEF CapFlip, CapOK, HaltOK
<1>4. CASE KillSwitchFlip
  BY <1>4, GuardTypes DEF KillSwitchFlip, CapOK, HaltOK
<1>5. CASE UNCHANGED vars
  BY <1>5 DEF vars, CapOK, HaltOK
<1>6. CASE GraceSweep
  <2>1. CASE Session # {}
    BY <1>2, <1>6, <2>1
  <2>2. CASE Session = {}
    BY <2>2 DEF CapOK, HaltOK
  <2> QED BY <2>1, <2>2
<1> QED BY <1>1, <1>2, <1>3, <1>4, <1>5, <1>6 DEF Next

(* No prompt is sent unless the spending gates could pass at some time     *)
(* after its activation had begun, however long it waited, was parked or   *)
(* hung, and whatever ended its predecessors.                              *)
THEOREM CapRespected == Spec => []SendRespectsCap
<1>1. CapOK => SendRespectsCap
  BY DEF CapOK, SendRespectsCap, Sending, PastGates, Holding
<1> QED BY <1>1, GuardsInit, GuardsNext, AlwaysStructure, PTL DEF Spec

(* No machine prompt is sent unless the kill switch was off at some time   *)
(* after its row had opened.                                               *)
THEOREM HaltRespected == Spec => []SendRespectsHalt
<1>1. HaltOK => SendRespectsHalt
  BY DEF HaltOK, SendRespectsHalt, PastHalt
<1> QED BY <1>1, GuardsInit, GuardsNext, AlwaysStructure, PTL DEF Spec

-----------------------------------------------------------------------------
(* The ledger, when no two counted requests share a token.                 *)

DistinctTokens == \A q, r \in Counted : TokenOf[q] = TokenOf[r] => q = r

(* ChargedExactly, request by request; and what is pending belongs to a    *)
(* request that has given its reservation up for good, so that a release   *)
(* tried again never takes the reservation of another one.                 *)
LedgerOK ==
    /\ \A r \in Counted : pc[r] \in Reserved => TokenOf[r] \in charged
    /\ \A t \in charged :
          t \in pending \/ \E r \in Counted : pc[r] \in MayCharge /\ TokenOf[r] = t
    /\ \A r \in Counted : TokenOf[r] \in pending => pc[r] \in Spent

LEMMA LedgerMeaning == LedgerOK => ChargedExactly
BY DEF LedgerOK, ChargedExactly, TokensAt, MayCharge

LEMMA LedgerInit == Init => LedgerOK
BY DEF Init, LedgerOK, Reserved, Sending

LEMMA LedgerSame ==
    ASSUME LedgerOK, UNCHANGED ledgerVars, \A q \in Counted : KeepsCharge(q)
    PROVE  LedgerOK'
<1>1. \A r \in Counted : pc'[r] \in Reserved => TokenOf[r] \in charged'
  BY DEF LedgerOK, KeepsCharge, ledgerVars
<1>2. \A t \in charged' :
         t \in pending' \/ \E r \in Counted : pc'[r] \in MayCharge /\ TokenOf[r] = t
  BY DEF LedgerOK, KeepsCharge, ledgerVars
<1>3. \A r \in Counted : TokenOf[r] \in pending' => pc'[r] \in Spent
  BY DEF LedgerOK, KeepsCharge, ledgerVars
<1> QED BY <1>1, <1>2, <1>3 DEF LedgerOK, Reserved, MayCharge, Sending, Spent

LEMMA LedgerStep ==
    ASSUME DistinctTokens, LedgerOK, NEW r \in Request, GuardedStep(r)
    PROVE  LedgerOK'
<1> DEFINE Charged == \A q \in Counted : pc'[q] \in Reserved => TokenOf[q] \in charged'
           Owed == \A t \in charged' :
                      t \in pending' \/ \E q \in Counted : pc'[q] \in MayCharge /\ TokenOf[q] = t
           GivenUp == \A q \in Counted : TokenOf[q] \in pending' => pc'[q] \in Spent
<1>0. SUFFICES Charged /\ Owed /\ GivenUp
  BY DEF LedgerOK, Reserved, MayCharge, Sending, Spent
<1>1. \A q \in Request \ {r} : KeepsCharge(q)
  BY DEF GuardedStep, Rests, KeepsCharge
<1>2. CASE UNCHANGED ledgerVars /\ (r \in Counted => KeepsCharge(r))
  <2>1. \A q \in Counted : KeepsCharge(q)
    BY <1>1, <1>2
  <2>2. LedgerOK'
    BY <1>2, <2>1, LedgerSame
  <2> QED BY <2>2 DEF LedgerOK, Reserved, MayCharge, Sending, Spent
<1>3. CASE r \in Counted /\ Reserves(r)
  <2>1. PICK done \in SUBSET pending :
          /\ pending' = pending \ done
          /\ \/ charged' = charged \ done /\ pc'[r] = "skipping"
             \/ charged' = (charged \ done) \cup {TokenOf[r]} /\ pc'[r] = "open"
    BY <1>3 DEF Reserves, Healed
  <2>2. pc[r] \notin MayCharge \cup Spent /\ TokenOf[r] \notin pending
    <3>1. pc[r] \notin MayCharge \cup Spent
      BY <1>3 DEF Reserves, MayCharge, Reserved, Sending, Spent
    <3> QED BY <1>3, <3>1 DEF LedgerOK
  <2>3. Charged
    <3> SUFFICES ASSUME NEW q \in Counted, pc'[q] \in Reserved
                 PROVE  TokenOf[q] \in charged'
      OBVIOUS
    <3>1. CASE q = r
      BY <2>1, <3>1 DEF Reserved, Sending
    <3>2. CASE q # r
      <4>1. pc[q] \in Reserved
        BY <1>1, <3>2 DEF KeepsCharge
      <4>2. TokenOf[q] \in charged /\ TokenOf[q] \notin pending
        BY <4>1 DEF LedgerOK, Reserved, Sending, Spent
      <4> QED BY <2>1, <4>2
    <3> QED BY <3>1, <3>2
  <2>4. Owed
    <3> SUFFICES ASSUME NEW t \in charged', t \notin pending'
                 PROVE  \E q \in Counted : pc'[q] \in MayCharge /\ TokenOf[q] = t
      OBVIOUS
    <3>1. CASE t \in charged /\ t \notin pending
      <4>1. PICK q \in Counted : pc[q] \in MayCharge /\ TokenOf[q] = t
        BY <3>1 DEF LedgerOK
      <4> QED BY <1>1, <2>2, <4>1 DEF KeepsCharge
    <3>2. CASE t = TokenOf[r] /\ pc'[r] = "open"
      BY <1>3, <3>2 DEF MayCharge, Reserved
    <3> QED BY <2>1, <3>1, <3>2
  <2>5. GivenUp
    BY <1>1, <2>1, <2>2 DEF LedgerOK, KeepsCharge
  <2> QED BY <2>3, <2>4, <2>5
<1>4. CASE r \in Counted /\ ReleaseInject(r) /\ pc'[r] \in Spent
  <2>1. pc'[r] \notin Reserved
    BY <1>4 DEF Spent, Reserved, Sending
  <2>2. CASE \E done \in SUBSET pending :
                pending' = pending \ done /\ charged' = charged \ (done \cup {TokenOf[r]})
    <3>1. PICK done \in SUBSET pending :
             pending' = pending \ done /\ charged' = charged \ (done \cup {TokenOf[r]})
      BY <2>2
    <3>2. Charged
      <4> SUFFICES ASSUME NEW q \in Counted, pc'[q] \in Reserved
                   PROVE  TokenOf[q] \in charged'
        OBVIOUS
      <4>1. q # r /\ pc[q] \in Reserved
        BY <1>1, <2>1 DEF KeepsCharge
      <4>2. /\ TokenOf[q] \in charged /\ TokenOf[q] \notin pending
            /\ TokenOf[q] # TokenOf[r]
        BY <1>4, <4>1 DEF LedgerOK, Reserved, Sending, Spent, DistinctTokens
      <4> QED BY <3>1, <4>2
    <3>3. Owed
      BY <1>1, <3>1 DEF LedgerOK, KeepsCharge
    <3>4. GivenUp
      BY <1>1, <1>4, <3>1 DEF LedgerOK, KeepsCharge
    <3> QED BY <3>2, <3>3, <3>4
  <2>3. CASE pending' = pending \cup {TokenOf[r]} /\ charged' = charged
    <3>1. Charged
      BY <1>1, <2>1, <2>3 DEF LedgerOK, KeepsCharge
    <3>2. Owed
      BY <1>1, <2>3 DEF LedgerOK, KeepsCharge
    <3>3. GivenUp
      <4> SUFFICES ASSUME NEW q \in Counted, TokenOf[q] \in pending'
                   PROVE  pc'[q] \in Spent
        OBVIOUS
      <4>1. q = r \/ TokenOf[q] \in pending
        BY <1>4, <2>3 DEF DistinctTokens
      <4> QED BY <1>1, <1>4, <4>1 DEF LedgerOK, KeepsCharge
    <3> QED BY <3>1, <3>2, <3>3
  <2> QED BY <1>4, <2>2, <2>3 DEF ReleaseInject, Healed
<1> QED BY <1>2, <1>3, <1>4 DEF GuardedStep, LedgerMove

LEMMA LedgerNext == DistinctTokens /\ Structure /\ LedgerOK /\ [Next]_vars => LedgerOK'
<1> SUFFICES ASSUME DistinctTokens, Structure, LedgerOK, [Next]_vars PROVE LedgerOK'
  OBVIOUS
<1>1. ASSUME NEW r \in Request, Start(r) \/ Step(r) \/ GatesFail(r) \/ Hang(r) \/ FinishClose(r)
      PROVE  LedgerOK'
  BY <1>1, ActivationsGuarded, LedgerStep
<1>2. ASSUME NEW s \in Session,
             \/ EndRun(s) \/ StaleLockReap(s) \/ Drain(s) \/ DrainLoop(s) \/ GraceSweep
             \/ GraceLapse(s) \/ Connect(s) \/ Disconnect(s)
      PROVE  LedgerOK'
  <2>1. UNCHANGED ledgerVars /\ \A q \in Request : KeepsCharge(q)
    BY <1>2, OthersGuarded, UnparkedGuarded DEF Rests, KeepsCharge
  <2> QED BY <2>1, LedgerSame
<1>3. CASE CapFlip \/ KillSwitchFlip \/ UNCHANGED vars
  BY <1>3, LedgerSame DEF CapFlip, KillSwitchFlip, vars, ledgerVars, KeepsCharge
<1>4. CASE GraceSweep
  <2>1. CASE Session # {}
    BY <1>2, <1>4, <2>1
  <2>2. CASE Session = {}
    <3>1. UNCHANGED ledgerVars /\ Counted = {}
      BY <1>4, <2>2 DEF GraceSweep
    <3> QED BY <3>1, LedgerSame
  <2> QED BY <2>1, <2>2
<1> QED BY <1>1, <1>2, <1>3, <1>4 DEF Next

(* The ledger charges a counted request exactly from its reservation until *)
(* the send is given up: no sent prompt goes uncounted, and no refused,    *)
(* failed, parked or skipped one eats the budget.                          *)
THEOREM LedgerExact == DistinctTokens => (Spec => []ChargedExactly)
<1> SUFFICES ASSUME DistinctTokens PROVE Spec => []ChargedExactly
  OBVIOUS
<1> QED BY LedgerMeaning, LedgerInit, LedgerNext, AlwaysStructure, PTL DEF Spec

(* The lifetime ceiling.  The ledger is changed in two ways only, and it   *)
(* grows only where there is room (reserveInject).                         *)
LedgerChange ==
    \E done : \/ charged' = charged \ done
              \/ \E r \in Counted : /\ charged' = (charged \ done) \cup {TokenOf[r]}
                                     /\ Reservable(r, charged \ done)

LedgerFits == IsFiniteSet(charged) /\ Cardinality(charged) <= LifetimeCap

LEMMA LedgerChanges == [Next]_vars => LedgerChange
<1> SUFFICES ASSUME [Next]_vars PROVE LedgerChange
  OBVIOUS
<1>1. ASSUME NEW r \in Request,
             \/ Start(r) \/ GatesAsked(r) \/ GatesFail(r) \/ ReturnSkipped(r)
             \/ ClaimSlot(r) \/ JoinQueue(r) \/ JoinTwin(r) \/ DropBusy(r) \/ IsOnline(r)
             \/ PreEnsureCheck(r) \/ EnsureOnline(r) \/ PreSendGuard(r) \/ OpenRow(r) \/ OpenThrows(r)
             \/ MarkDispatched(r) \/ FinalHaltCheck(r) \/ BeginSend(r) \/ Send(r) \/ SendThrows(r)
             \/ Unwind(r) \/ Hang(r) \/ FinishClose(r)
      PROVE  UNCHANGED ledgerVars
  BY <1>1, GatesMoves DEF Start, GatesMove, GatesFail, ReturnSkipped, ClaimSlot, JoinQueue, JoinTwin,
              DropBusy, IsOnline, Park, PreEnsureCheck, Refuse, EnsureOnline, OpenRow, OpenThrows,
              MarkDispatched, FinalHaltCheck, BeginSend, Send, SendThrows, Unwind, Hang, FinishClose,
              PreSendGuard, FreeSlot
<1>2. ASSUME NEW r \in Request, ReserveInject(r)
      PROVE  LedgerChange
  BY <1>2 DEF ReserveInject, LedgerChange
<1>3. ASSUME NEW r \in Request, ReleaseInject(r)
      PROVE  LedgerChange
  <2>1. charged = charged \ {}
    OBVIOUS
  <2> QED BY <1>3, <2>1 DEF ReleaseInject, LedgerChange, ledgerVars
<1>4. ASSUME NEW s \in Session,
             \/ EndRun(s) \/ StaleLockReap(s) \/ Drain(s) \/ DrainLoop(s) \/ GraceLapse(s)
             \/ Connect(s) \/ Disconnect(s)
      PROVE  UNCHANGED ledgerVars
  BY <1>4 DEF EndRun, OnSessionReply, ReapTimedOutHook, ReleaseClosedRun, TakeHook, StaleLockReap, Drain,
              DrainLoop, DrainNext, DrainEnd, GraceLapse, Connect, Disconnect
<1>5. ASSUME GraceSweep \/ CapFlip \/ KillSwitchFlip \/ UNCHANGED vars
      PROVE  UNCHANGED ledgerVars
  BY <1>5 DEF GraceSweep, CapFlip, KillSwitchFlip, vars, ledgerVars
<1>6. UNCHANGED ledgerVars => LedgerChange
  <2>1. charged = charged \ {}
    OBVIOUS
  <2> QED BY <2>1 DEF LedgerChange, ledgerVars
<1>7. ASSUME NEW r \in Request, RethrowOpen(r) \/ GiveBack(r)
      PROVE  LedgerChange
  BY <1>3, <1>7 DEF RethrowOpen, GiveBack
<1> QED BY <1>1, <1>2, <1>4, <1>5, <1>6, <1>7 DEF Next, Step, GatesAsked

LEMMA LedgerStaysFit == LedgerFits /\ LedgerChange => LedgerFits'
<1> SUFFICES ASSUME LedgerFits, LedgerChange PROVE LedgerFits'
  OBVIOUS
<1>1. Cardinality(charged) \in Nat /\ LifetimeCap \in Nat
  BY FS_CardinalityType DEF LedgerFits
<1>2. ASSUME NEW S
      PROVE  /\ IsFiniteSet(charged \ S) /\ Cardinality(charged \ S) \in Nat
             /\ Cardinality(charged \ S) <= LifetimeCap
  <2>1. charged \ S \subseteq charged
    OBVIOUS
  <2>2. IsFiniteSet(charged \ S) /\ Cardinality(charged \ S) <= Cardinality(charged)
    BY <2>1, FS_Subset DEF LedgerFits
  <2>3. Cardinality(charged \ S) \in Nat
    BY <2>2, FS_CardinalityType
  <2> QED BY <1>1, <2>2, <2>3 DEF LedgerFits
<1>3. ASSUME NEW S, NEW t, charged' = (charged \ S) \cup {t},
             t \in charged \ S \/ Cardinality(charged \ S) < LifetimeCap
      PROVE  LedgerFits'
  <2>1. CASE t \in charged \ S
    <3>1. (charged \ S) \cup {t} = charged \ S
      BY <2>1
    <3> QED BY <1>2, <1>3, <3>1 DEF LedgerFits
  <2>2. CASE t \notin charged \ S
    <3> DEFINE kept == charged \ S
    <3>1. IsFiniteSet(kept) /\ t \notin kept
      BY <1>2, <2>2
    <3>2. IsFiniteSet(kept \cup {t}) /\ Cardinality(kept \cup {t}) = Cardinality(kept) + 1
      <4> HIDE DEF kept
      <4> QED BY <3>1, FS_AddElement
    <3> QED BY <1>1, <1>2, <1>3, <2>2, <3>2 DEF LedgerFits
  <2> QED BY <2>1, <2>2
<1>4. ASSUME NEW S, charged' = charged \ S
      PROVE  LedgerFits'
  BY <1>2, <1>4 DEF LedgerFits
<1> QED BY <1>3, <1>4 DEF LedgerChange, Reservable

(* The counted prompts that have a reservation: they have passed the guard *)
(* and are on their way to the agent, or have reached it.                  *)
Outstanding == {r \in Counted : pc[r] \in Reserved}

LEMMA OutstandingFits ==
    ASSUME DistinctTokens, LedgerOK, LedgerFits
    PROVE  IsFiniteSet(Outstanding) /\ Cardinality(Outstanding) <= LifetimeCap
<1> DEFINE f == [r \in Outstanding |-> TokenOf[r]]
<1>1. f \in [Outstanding -> charged]
  BY DEF Outstanding, LedgerOK
<1>2. \A q, r \in Outstanding : f[q] = f[r] => q = r
  BY DEF Outstanding, DistinctTokens
<1>3. f \in Injection(Outstanding, charged)
  <2> HIDE DEF f
  <2> QED BY <1>1, <1>2, Fun_IsInj
<1> HIDE DEF f
<1>4. IsFiniteSet(Outstanding) /\ Cardinality(Outstanding) <= Cardinality(charged)
  BY <1>3, FS_Injection DEF LedgerFits
<1> QED BY <1>4, FS_CardinalityType DEF LedgerFits

(* The lifetime ceiling of a counter key is never exceeded: however many   *)
(* requests race through the guard, retry, are promoted or replayed, and   *)
(* whatever throws or hangs, no more counted prompts are sent or about to  *)
(* be sent than it allows.                                                 *)
THEOREM CeilingRespected ==
    DistinctTokens => (Spec => [](IsFiniteSet(Outstanding) /\ Cardinality(Outstanding) <= LifetimeCap))
<1> SUFFICES ASSUME DistinctTokens
             PROVE  Spec => [](IsFiniteSet(Outstanding) /\ Cardinality(Outstanding) <= LifetimeCap)
  OBVIOUS
<1>1. Init => LedgerFits
  BY FS_EmptySet DEF Init, LedgerFits
<1>2. LedgerFits /\ [Next]_vars => LedgerFits'
  BY LedgerChanges, LedgerStaysFit
<1>3. LedgerOK /\ LedgerFits => IsFiniteSet(Outstanding) /\ Cardinality(Outstanding) <= LifetimeCap
  BY OutstandingFits
<1> QED BY <1>1, <1>2, <1>3, LedgerInit, LedgerNext, AlwaysStructure, PTL DEF Spec

-----------------------------------------------------------------------------
(* No parked request is lost.  ListOK and LoopsOK say that the places of   *)
(* the grace buffer hold parked requests, each once; it remains that every *)
(* parked request has a place.                                             *)

InList(r) == \E i \in 1 .. Len(parked[SessionOf[r]]) : parked[SessionOf[r]][i] = r
InLoop(r) == \E d \in drains[SessionOf[r]] : \E i \in 1 .. Len(d.rest) : d.rest[i] = r
ParkedKept == \A r \in Request : pc[r] = "parked" => InList(r) \/ InLoop(r)

NobodyParks == \A q \in Request : pc'[q] = "parked" => pc[q] = "parked"

LEMMA ParkedTypes ==
    ASSUME Structure
    PROVE  /\ parked \in [Session -> Seq(Request)] /\ stale \in [Session -> Nat]
           /\ drains \in [Session -> SUBSET Grace!Loop]
           /\ \A g \in Session : /\ Len(parked[g]) \in Nat /\ DOMAIN parked[g] = 1 .. Len(parked[g])
                                 /\ stale[g] <= Len(parked[g])
           /\ \A g \in Session : \A d \in drains[g] : /\ d.rest \in Seq(Request) /\ Len(d.rest) \in Nat
                                                      /\ DOMAIN d.rest = 1 .. Len(d.rest)
BY DEF Structure, Types, Grace!GraceTypeOK, Grace!Loop, ListOK

LEMMA BufferUntouched ==
    ASSUME ParkedKept, UNCHANGED <<parked, drains>>, NobodyParks
    PROVE  ParkedKept'
BY DEF ParkedKept, NobodyParks, InList, InLoop

LEMMA ReleaseParksNobody ==
    ASSUME Structure, NEW r \in Request, NEW s \in Session, NEW p,
           ReleaseAndPromote(s, [pc EXCEPT ![r] = p])
    PROVE  /\ \A q \in Request \ {r} : pc'[q] = "parked" => pc[q] = "parked"
           /\ p # "parked" \/ p = pc[r] => NobodyParks
<1> DEFINE after == [pc EXCEPT ![r] = p]
<1>1. after[r] = p /\ \A q \in Request \ {r} : after[q] = pc[q]
  BY GuardTypes
<1>2. \A q \in Request : pc'[q] = "gates" \/ pc'[q] = after[q]
  <2>1. CASE PromotesNobody(s, after)
    BY <2>1 DEF PromotesNobody
  <2>2. CASE \E w \in Request : Promotes(s, w, after)
    <3>1. PICK w \in Request : Promotes(s, w, after)
      BY <2>2
    <3> QED BY <3>1, GuardTypes DEF Promotes
  <2> QED BY <2>1, <2>2, ReleaseCases
<1> QED BY <1>1, <1>2 DEF NobodyParks

(* Only Park() parks, and what it parks is the last of its list.           *)
LEMMA ParkKept ==
    ASSUME Structure, ParkedKept, NEW r \in Request, Park(r)
    PROVE  ParkedKept'
<1> DEFINE s == SessionOf[r]
<1>0. s \in Session
  BY GuardTypes
<1>1. CASE Grace!HasLive(s, TokenOf[r])
  <2>1. ReleaseAndPromote(s, [pc EXCEPT ![r] = "absorbed"]) /\ UNCHANGED <<parked, drains>>
    BY <1>1 DEF Park, Grace!Register
  <2>2. NobodyParks
    BY <1>0, <2>1, ReleaseParksNobody
  <2> QED BY <2>1, <2>2, BufferUntouched
<1>2. CASE ~Grace!HasLive(s, TokenOf[r])
  <2>1. /\ ReleaseAndPromote(s, [pc EXCEPT ![r] = "parked"])
        /\ parked' = [parked EXCEPT ![s] = Append(@, r)] /\ drains' = drains
    BY <1>2 DEF Park, Grace!Register
  <2>2. \A q \in Request \ {r} : pc'[q] = "parked" => pc[q] = "parked"
    BY <1>0, <2>1, ReleaseParksNobody
  <2>3. /\ Len(parked'[s]) = Len(parked[s]) + 1
        /\ parked'[s][Len(parked[s]) + 1] = r
        /\ \A i \in 1 .. Len(parked[s]) : parked'[s][i] = parked[s][i]
        /\ \A g \in Session \ {s} : parked'[g] = parked[g]
    BY <1>0, <2>1, ParkedTypes, AppendProperties
  <2>4. InList(r)'
    BY <1>0, <2>3, ParkedTypes DEF InList
  <2>5. ASSUME NEW q \in Request \ {r}, pc'[q] = "parked"
        PROVE  InList(q)' \/ InLoop(q)'
    <3>1. InList(q) \/ InLoop(q)
      BY <2>2, <2>5 DEF ParkedKept
    <3>2. InLoop(q) => InLoop(q)'
      BY <2>1 DEF InLoop
    <3>3. InList(q) => InList(q)'
      <4>1. CASE SessionOf[q] = s
        <5> SUFFICES ASSUME NEW i \in 1 .. Len(parked[s]), parked[s][i] = q
                     PROVE  \E j \in 1 .. Len(parked'[s]) : parked'[s][j] = q
          BY <4>1 DEF InList
        <5>1. i \in 1 .. Len(parked'[s]) /\ parked'[s][i] = q
          <6>1. Len(parked[s]) \in Nat
            BY <1>0, ParkedTypes
          <6> QED BY <2>3, <6>1
        <5> QED BY <5>1
      <4>2. CASE SessionOf[q] # s
        BY <2>3, <4>2, GuardTypes DEF InList
      <4> QED BY <4>1, <4>2
    <3> QED BY <3>1, <3>2, <3>3
  <2> QED BY <2>4, <2>5 DEF ParkedKept
<1> QED BY <1>1, <1>2

LEMMA ActivationsKeepParked ==
    ASSUME Structure, ParkedKept, NEW r \in Request,
           Start(r) \/ Step(r) \/ GatesFail(r) \/ Hang(r) \/ FinishClose(r)
    PROVE  ParkedKept'
<1>1. CASE Park(r)
  BY <1>1, ParkKept
<1>2. ASSUME ~Park(r)
      PROVE  UNCHANGED <<parked, drains>> /\ NobodyParks
  <2> DEFINE Gives(p) == ReleaseAndPromote(SessionOf[r], [pc EXCEPT ![r] = p])
  <2>0. SessionOf[r] \in Session
    BY GuardTypes
  <2>1. CASE \/ Start(r) \/ GatesAsked(r) \/ GatesFail(r) \/ DropBusy(r)
             \/ ClaimSlot(r) \/ JoinQueue(r) \/ Hang(r)
    BY <2>1, GuardTypes, GatesMoves
       DEF Start, GatesMove, GatesFail, DropBusy, ClaimSlot, JoinQueue, Hang, Goto, graceVars,
           NobodyParks
  <2>2. CASE \/ OpenRow(r) \/ OpenThrows(r) \/ MarkDispatched(r) \/ FinalHaltCheck(r)
             \/ BeginSend(r) \/ Send(r) \/ SendThrows(r) \/ GiveBack(r)
    BY <2>2, GuardTypes
       DEF OpenRow, OpenThrows, MarkDispatched, FinalHaltCheck, BeginSend, Send, SendThrows, GiveBack,
           Goto, graceVars, NobodyParks
  <2>3. CASE JoinTwin(r)
    BY <2>3, GuardTypes DEF JoinTwin, Goto, graceVars, NobodyParks
  <2>4. CASE ReturnSkipped(r)
    <3>1. UNCHANGED <<parked, drains>> /\ (Gives("skipped") \/ Goto(r, "skipped"))
      BY <2>4 DEF ReturnSkipped, graceVars
    <3>2. ASSUME Gives("skipped")
          PROVE  NobodyParks
      <4>1. "skipped" # "parked"
        OBVIOUS
      <4> QED BY <2>0, <3>2, <4>1, ReleaseParksNobody, Zenon
    <3>3. ~Gives("skipped") => NobodyParks
      BY <3>1, GuardTypes DEF Goto, NobodyParks
    <3> QED BY <3>1, <3>2, <3>3
  <2>5. CASE \/ IsOnline(r) \/ PreEnsureCheck(r) \/ EnsureOnline(r) \/ PreSendGuard(r)
             \/ ReserveInject(r)
    <3>1. /\ UNCHANGED <<parked, drains>>
          /\ Gives("skipping") \/ \E p \in {"guard", "reserve", "open", "precheck", "ensure"} : Goto(r, p)
      BY <1>2, <2>5 DEF IsOnline, PreEnsureCheck, EnsureOnline, PreSendGuard, ReserveInject, Refuse, FreeSlot,
             PastOnline, PastHaltRead, graceVars
    <3>2. ASSUME Gives("skipping")
          PROVE  NobodyParks
      <4>1. "skipping" # "parked"
        OBVIOUS
      <4> QED BY <2>0, <3>2, <4>1, ReleaseParksNobody, Zenon
    <3>3. ~Gives("skipping") => NobodyParks
      BY <3>1, GuardTypes DEF Goto, NobodyParks
    <3> QED BY <3>1, <3>2, <3>3
  <2>6. CASE RethrowOpen(r) \/ Unwind(r) \/ FinishClose(r)
    <3>1. /\ UNCHANGED <<parked, drains>>
          /\ \E p \in {"threw", "failed", "skipping", "closed", pc[r]} : Gives(p)
      BY <2>6 DEF RethrowOpen, Unwind, FreeSlot, FinishClose, graceVars
    <3>2. PICK p \in {"threw", "failed", "skipping", "closed", pc[r]} : Gives(p)
      BY <3>1
    <3>3. p # "parked" \/ p = pc[r]
      OBVIOUS
    <3>4. NobodyParks
      BY <2>0, <3>2, <3>3, ReleaseParksNobody
    <3> QED BY <3>1, <3>4
  <2> QED BY <1>2, <2>1, <2>2, <2>3, <2>4, <2>5, <2>6 DEF Step, GatesAsked
<1> QED BY <1>1, <1>2, BufferUntouched

(* A drain moves the list into a loop, ...                                 *)
LEMMA DrainKept ==
    ASSUME Structure, ParkedKept, NEW s \in Session, Drain(s)
    PROVE  ParkedKept'
<1>1. pc' = pc
  BY DEF Drain
<1>2. CASE UNCHANGED graceVars
  BY <1>1, <1>2, BufferUntouched DEF graceVars, NobodyParks
<1>3. CASE Grace!BeginDrain(s)
  <2> DEFINE new == [cur |-> None, rest |-> parked[s], stale |-> stale[s]]
  <2>1. /\ parked' = [parked EXCEPT ![s] = << >>]
        /\ drains' = [drains EXCEPT ![s] = @ \cup {new}]
    BY <1>3 DEF Grace!BeginDrain
  <2>2. /\ \A g \in Session \ {s} : parked'[g] = parked[g]
        /\ \A g \in Session : drains[g] \subseteq drains'[g]
        /\ new \in drains'[s] /\ new.rest = parked[s]
    BY <2>1, ParkedTypes
  <2> SUFFICES ASSUME NEW q \in Request, InList(q) \/ InLoop(q)
               PROVE  InList(q)' \/ InLoop(q)'
    BY <1>1 DEF ParkedKept
  <2>3. CASE InLoop(q)
    BY <2>2, <2>3, GuardTypes DEF InLoop
  <2>4. CASE InList(q) /\ SessionOf[q] = s
    <3>1. \E i \in 1 .. Len(new.rest) : new.rest[i] = q
      BY <2>2, <2>4 DEF InList
    <3> HIDE DEF new
    <3> QED BY <2>2, <2>4, <3>1 DEF InLoop
  <2>5. CASE InList(q) /\ SessionOf[q] # s
    BY <2>2, <2>5, GuardTypes DEF InList
  <2> QED BY <2>3, <2>4, <2>5
<1> QED BY <1>2, <1>3 DEF Drain

(* ... a loop goes on with all of its entries but the first, ...           *)
LEMMA DrainNextKept ==
    ASSUME Structure, ParkedKept, NEW s \in Session, NEW d \in drains[s], DrainNext(s, d)
    PROVE  ParkedKept'
<1> DEFINE r == Head(d.rest)
           next == [cur   |-> Head(d.rest),
                    rest  |-> Tail(d.rest),
                    stale |-> IF d.stale > 0 THEN d.stale - 1 ELSE 0]
<1>1. /\ d.rest # << >> /\ parked' = parked
      /\ drains' = [drains EXCEPT ![s] = (@ \ {d}) \cup {next}]
  BY DEF DrainNext, Grace!Advance
<1>2. d.rest \in Seq(Request) /\ Len(d.rest) \in Nat /\ Len(d.rest) > 0 /\ r = d.rest[1]
  BY <1>1, ParkedTypes
<1>3. /\ next.rest = Tail(d.rest) /\ Len(next.rest) = Len(d.rest) - 1
      /\ \A i \in 1 .. Len(next.rest) : next.rest[i] = d.rest[i + 1]
  BY <1>1, <1>2
<1>4. r \in Request
  BY <1>1, <1>2
<1>5. pc'[r] # "parked" /\ \A q \in Request \ {r} : pc'[q] = pc[q]
  BY <1>4, GuardTypes DEF DrainNext, Goto
<1>6. /\ next \in drains'[s]
      /\ \A e \in drains[s] \ {d} : e \in drains'[s]
      /\ \A g \in Session \ {s} : drains'[g] = drains[g]
  BY <1>1, ParkedTypes
<1> HIDE DEF next
<1> SUFFICES ASSUME NEW q \in Request \ {r}, InList(q) \/ InLoop(q)
             PROVE  InList(q)' \/ InLoop(q)'
  BY <1>5 DEF ParkedKept
<1>7. CASE InList(q)
  BY <1>1, <1>7 DEF InList
<1>8. CASE InLoop(q) /\ SessionOf[q] # s
  BY <1>6, <1>8, GuardTypes DEF InLoop
<1>9. CASE InLoop(q) /\ SessionOf[q] = s
  <2>1. PICK e \in drains[s] : \E i \in 1 .. Len(e.rest) : e.rest[i] = q
    BY <1>9 DEF InLoop
  <2>2. CASE e # d
    BY <1>6, <1>9, <2>1, <2>2 DEF InLoop
  <2>3. CASE e = d
    <3>1. PICK i \in 1 .. Len(d.rest) : d.rest[i] = q
      BY <2>1, <2>3
    <3>2. i - 1 \in 1 .. Len(next.rest) /\ next.rest[i - 1] = q
      <4>1. i # 1
        BY <1>2, <3>1
      <4>2. i \in Nat /\ i >= 2 /\ i <= Len(d.rest)
        BY <1>2, <4>1
      <4>3. i - 1 \in 1 .. Len(next.rest) /\ (i - 1) + 1 = i
        BY <1>2, <1>3, <4>2
      <4> QED BY <1>3, <3>1, <4>3
    <3> QED BY <1>6, <1>9, <3>2 DEF InLoop
  <2> QED BY <2>2, <2>3
<1> QED BY <1>7, <1>8, <1>9

(* ... and ends with none left.                                            *)
LEMMA DrainEndKept ==
    ASSUME Structure, ParkedKept, NEW s \in Session, NEW d \in drains[s], DrainEnd(s, d)
    PROVE  ParkedKept'
<1>1. d.rest = << >> /\ UNCHANGED <<pc, parked>> /\ drains' = [drains EXCEPT ![s] = @ \ {d}]
  BY DEF DrainEnd, Grace!EndDrain
<1>2. \A g \in Session : \A e \in drains[g] : (\E i \in 1 .. Len(e.rest) : TRUE) => e \in drains'[g]
  <2>1. ~ \E i \in 1 .. Len(d.rest) : TRUE
    BY <1>1
  <2> QED BY <1>1, <2>1, ParkedTypes
<1> SUFFICES ASSUME NEW q \in Request, InList(q) \/ InLoop(q)
             PROVE  InList(q)' \/ InLoop(q)'
  BY <1>1 DEF ParkedKept
<1>3. CASE InList(q)
  BY <1>1, <1>3 DEF InList
<1>4. CASE InLoop(q)
  <2>1. PICK e \in drains[SessionOf[q]] : \E i \in 1 .. Len(e.rest) : e.rest[i] = q
    BY <1>4 DEF InLoop
  <2>2. e \in drains'[SessionOf[q]]
    BY <1>2, <2>1, GuardTypes
  <2> QED BY <2>1, <2>2 DEF InLoop
<1> QED BY <1>3, <1>4

(* The sweep removes from the lists what it expires.                       *)
LEMMA GraceSweepKept ==
    ASSUME Structure, ParkedKept, GraceSweep
    PROVE  ParkedKept'
<1>1. /\ parked' = [g \in Session |-> SubSeq(parked[g], stale[g] + 1, Len(parked[g]))]
      /\ pc' = [r \in Request |-> IF r \in Grace!Swept THEN "expired" ELSE pc[r]]
      /\ drains' = drains
  BY DEF GraceSweep, Grace!Sweep
<1> SUFFICES ASSUME NEW q \in Request \ Grace!Swept, InList(q) \/ InLoop(q)
             PROVE  InList(q)' \/ InLoop(q)'
  BY <1>1 DEF ParkedKept
<1>2. CASE InLoop(q)
  BY <1>1, <1>2 DEF InLoop
<1>3. CASE InList(q)
  <2> DEFINE g == SessionOf[q]
             n == stale[g]
             l == parked[g]
  <2>0. g \in Session /\ n \in Nat /\ l \in Seq(Request) /\ Len(l) \in Nat /\ n <= Len(l)
    BY GuardTypes, ParkedTypes
  <2>1. PICK i \in 1 .. Len(l) : l[i] = q
    BY <1>3 DEF InList
  <2>2. i > n
    <3> SUFFICES ASSUME i <= n PROVE FALSE
      BY <2>0
    <3>1. i \in 1 .. n
      BY <2>0
    <3> QED BY <2>0, <2>1, <3>1 DEF Grace!Swept
  <2> HIDE DEF n, l
  <2>3. /\ Len(SubSeq(l, n + 1, Len(l))) = Len(l) - n
        /\ i - n \in 1 .. Len(l) - n
        /\ SubSeq(l, n + 1, Len(l))[i - n] = l[i]
    <3>1. i - n \in 1 .. Len(l) - n
      BY <2>0, <2>2
    <3>2. n + 1 + (i - n) - 1 = i
      BY <2>0
    <3> QED BY <2>0, <3>1, <3>2
  <2>4. parked'[g] = SubSeq(l, n + 1, Len(l))
    BY <1>1, <2>0 DEF n, l
  <2> QED BY <2>1, <2>3, <2>4 DEF InList
<1> QED BY <1>2, <1>3

LEMMA ParkedNext == Structure /\ ParkedKept /\ [Next]_vars => ParkedKept'
<1> SUFFICES ASSUME Structure, ParkedKept, [Next]_vars PROVE ParkedKept'
  OBVIOUS
<1>1. ASSUME NEW r \in Request, Start(r) \/ Step(r) \/ GatesFail(r) \/ Hang(r) \/ FinishClose(r)
      PROVE  ParkedKept'
  BY <1>1, ActivationsKeepParked
<1>2. ASSUME NEW s \in Session, EndRun(s) \/ StaleLockReap(s) \/ Connect(s) \/ Disconnect(s) \/ GraceLapse(s)
      PROVE  ParkedKept'
  <2>1. UNCHANGED <<pc, parked, drains>>
    BY <1>2 DEF EndRun, OnSessionReply, ReapTimedOutHook, ReleaseClosedRun, TakeHook, StaleLockReap,
                Connect, Disconnect, GraceLapse, Grace!Lapse, graceVars
  <2> QED BY <2>1, BufferUntouched DEF NobodyParks
<1>3. ASSUME NEW s \in Session, Drain(s) \/ DrainLoop(s)
      PROVE  ParkedKept'
  BY <1>3, DrainKept, DrainNextKept, DrainEndKept DEF DrainLoop
<1>4. CASE CapFlip \/ KillSwitchFlip \/ UNCHANGED vars
  BY <1>4, BufferUntouched DEF CapFlip, KillSwitchFlip, vars, graceVars, NobodyParks
<1> QED BY <1>1, <1>2, <1>3, <1>4, GraceSweepKept DEF Next

(* A place of the buffer is counted once.                                  *)
LEMMA PlacesOfList ==
    ASSUME Structure, NEW r \in Request
    PROVE  Cardinality(ListPlaces(r)) = IF InList(r) THEN 1 ELSE 0
<1> DEFINE s == SessionOf[r]
<1>1. \A x \in ListPlaces(r) : \E g \in Session : \E i \in 1 .. Len(parked[g]) :
         x = <<g, i>> /\ parked[g][i] = r
  BY ParkedTypes DEF ListPlaces
<1>2. \A g \in Session : \A i \in 1 .. Len(parked[g]) : parked[g][i] = r => <<g, i>> \in ListPlaces(r)
  BY ParkedTypes DEF ListPlaces
<1>3. CASE InList(r)
  <2>1. PICK i \in 1 .. Len(parked[s]) : parked[s][i] = r
    BY <1>3 DEF InList
  <2>2. <<s, i>> \in ListPlaces(r)
    BY <1>2, <2>1, GuardTypes
  <2>3. \A x \in ListPlaces(r) : x = <<s, i>>
    <3> SUFFICES ASSUME NEW g \in Session, NEW j \in 1 .. Len(parked[g]), parked[g][j] = r
                 PROVE  g = s /\ j = i
      BY <1>1
    <3>1. g = s
      BY DEF Structure, ListOK
    <3> QED BY <2>1, <3>1 DEF Structure, ListOK
  <2>4. ListPlaces(r) = {<<s, i>>}
    BY <2>2, <2>3
  <2> QED BY <1>3, <2>4, FS_Singleton
<1>4. CASE ~InList(r)
  <2>1. ListPlaces(r) = {}
    BY <1>1, <1>4 DEF InList, Structure, ListOK
  <2> QED BY <1>4, <2>1, FS_EmptySet
<1> QED BY <1>3, <1>4

LEMMA PlacesOfLoops ==
    ASSUME Structure, NEW r \in Request
    PROVE  Cardinality(LoopPlaces(r)) = IF InLoop(r) THEN 1 ELSE 0
<1> DEFINE s == SessionOf[r]
<1>1. \A x \in LoopPlaces(r) : \E g \in Session : \E d \in drains[g] : \E i \in 1 .. Len(d.rest) :
         x = <<g, d, i>> /\ d.rest[i] = r
  BY ParkedTypes DEF LoopPlaces
<1>2. \A g \in Session : \A d \in drains[g] : \A i \in 1 .. Len(d.rest) :
         d.rest[i] = r => <<g, d, i>> \in LoopPlaces(r)
  BY ParkedTypes DEF LoopPlaces
<1>3. CASE InLoop(r)
  <2>1. PICK d \in drains[s] : \E i \in 1 .. Len(d.rest) : d.rest[i] = r
    BY <1>3 DEF InLoop
  <2>2. PICK i \in 1 .. Len(d.rest) : d.rest[i] = r
    BY <2>1
  <2>3. <<s, d, i>> \in LoopPlaces(r)
    BY <1>2, <2>2, GuardTypes
  <2>4. \A x \in LoopPlaces(r) : x = <<s, d, i>>
    <3> SUFFICES ASSUME NEW g \in Session, NEW e \in drains[g], NEW j \in 1 .. Len(e.rest), e.rest[j] = r
                 PROVE  g = s /\ e = d /\ j = i
      BY <1>1
    <3>1. g = s
      BY LoopEntry
    <3> QED BY <2>2, <3>1, LoopsDistinct, GuardTypes
  <2>5. LoopPlaces(r) = {<<s, d, i>>}
    BY <2>3, <2>4
  <2> QED BY <1>3, <2>5, FS_Singleton
<1>4. CASE ~InLoop(r)
  <2>1. LoopPlaces(r) = {}
    BY <1>1, <1>4, LoopEntry DEF InLoop
  <2> QED BY <1>4, <2>1, FS_EmptySet
<1> QED BY <1>3, <1>4

LEMMA PlacesCounted == Structure /\ ParkedKept => ParkedOnce
<1> SUFFICES ASSUME Structure, ParkedKept, NEW r \in Request
             PROVE  Cardinality(ListPlaces(r)) + Cardinality(LoopPlaces(r)) = IF pc[r] = "parked" THEN 1 ELSE 0
  BY DEF ParkedOnce
<1>1. InList(r) => pc[r] = "parked"
  BY GuardTypes DEF InList, Structure, ListOK
<1>2. InLoop(r) => pc[r] = "parked" /\ ~InList(r)
  BY LoopEntry, GuardTypes DEF InLoop, InList
<1> QED BY <1>1, <1>2, PlacesOfList, PlacesOfLoops DEF ParkedKept

(* Whatever fails, hangs or ends early, and however often the agent drops, *)
(* a parked request is in the grace buffer exactly once, in the list of    *)
(* its session or ahead in a running drain: none is lost, none replayed    *)
(* twice or both replayed and expired.                                     *)
THEOREM NothingParkedIsLost == Spec => []ParkedOnce
<1>1. Init => ParkedKept
  BY DEF Init, ParkedKept
<1> QED BY <1>1, ParkedNext, PlacesCounted, AlwaysStructure, PTL DEF Spec

-----------------------------------------------------------------------------
(* The queue and the waiter contexts.  Structure says that what waits in   *)
(* the queue has a context and that a context belongs to a waiting         *)
(* request; it remains that every waiting request has its context and its  *)
(* place.  The stale-lock reaper empties a queue without telling anybody:  *)
(* where no run ends early and nothing hangs, it meets no slot to reap.    *)

HasPlace(r) == ctx[SessionOf[r]][TokenOf[r]] = r /\ IsWaiting(SessionOf[r], TokenOf[r])
WaitKept == \A r \in Request : pc[r] = "waiting" => HasPlace(r)

NobodyQueues == \A q \in Request : pc'[q] = "waiting" => pc[q] = "waiting"

LEMMA WaitTypes ==
    ASSUME Structure
    PROVE  /\ ctx \in [Session -> [Token -> Request \cup {None}]]
           /\ waiters \in [Session -> Seq(Token)]
           /\ \A s \in Session : Len(waiters[s]) \in Nat /\ DOMAIN waiters[s] = 1 .. Len(waiters[s])
           /\ slot \in [Session -> Token \cup {None}]
BY DEF Structure, Types, QueueTypeOK

LEMMA QueueUntouched ==
    ASSUME WaitKept, UNCHANGED <<waiters, ctx>>, NobodyQueues
    PROVE  WaitKept'
BY DEF WaitKept, HasPlace, IsWaiting, NobodyQueues

(* A promotion takes one waiter and leaves the others their places.        *)
LEMMA ReleaseKeepsPlaces ==
    ASSUME Structure, WaitKept, NEW r \in Request, NEW s \in Session, NEW p,
           ReleaseAndPromote(s, [pc EXCEPT ![r] = p]), p # "waiting" \/ p = pc[r]
    PROVE  WaitKept'
<1> DEFINE after == [pc EXCEPT ![r] = p]
<1>1. DOMAIN after = Request /\ \A q \in Request : after[q] = "waiting" => pc[q] = "waiting"
  BY GuardTypes
<1>2. CASE PromotesNobody(s, after)
  BY <1>1, <1>2, QueueUntouched DEF PromotesNobody, NobodyQueues
<1>3. CASE \E w \in Request : Promotes(s, w, after)
  <2>1. PICK w \in Request : Promotes(s, w, after)
    BY <1>3
  <2> DEFINE t == Head(waiters[s])
  <2>2. /\ waiters[s] # << >> /\ w = ctx[s][t]
        /\ waiters' = [waiters EXCEPT ![s] = Tail(@)]
        /\ ctx' = [ctx EXCEPT ![s][t] = None]
        /\ pc' = [after EXCEPT ![w] = "gates"]
    BY <2>1 DEF Promotes
  <2>3. t = waiters[s][1] /\ t \in Token
    BY <2>2, WaitTypes
  <2>4. \A q \in Request : pc'[q] = "waiting" => q # w /\ pc[q] = "waiting"
    BY <1>1, <2>2
  <2> SUFFICES ASSUME NEW q \in Request, q # w, HasPlace(q)
               PROVE  HasPlace(q)'
    BY <2>4 DEF WaitKept
  <2>5. SessionOf[q] \in Session /\ TokenOf[q] \in Token
    BY GuardTypes
  <2>6. CASE SessionOf[q] = s
    <3>1. TokenOf[q] # t
      BY <2>2, <2>6 DEF HasPlace
    <3>2. ctx'[s][TokenOf[q]] = q
      BY <2>2, <2>3, <2>5, <2>6, <3>1, WaitTypes DEF HasPlace
    <3>3. PICK i \in 1 .. Len(waiters[s]) : waiters[s][i] = TokenOf[q]
      BY <2>6, WaitTypes DEF HasPlace, IsWaiting
    <3>4. /\ waiters'[s] = Tail(waiters[s]) /\ i # 1
          /\ DOMAIN waiters'[s] = 1 .. (Len(waiters[s]) - 1)
          /\ \A j \in 1 .. (Len(waiters[s]) - 1) : waiters'[s][j] = waiters[s][j + 1]
      BY <2>2, <2>3, <3>1, <3>3, WaitTypes
    <3>5. i - 1 \in 1 .. (Len(waiters[s]) - 1) /\ (i - 1) + 1 = i
      BY <3>3, <3>4, WaitTypes
    <3>6. i - 1 \in DOMAIN waiters'[s] /\ waiters'[s][i - 1] = TokenOf[q]
      BY <3>3, <3>4, <3>5
    <3> QED BY <2>6, <3>2, <3>6 DEF HasPlace, IsWaiting
  <2>7. CASE SessionOf[q] # s
    BY <2>2, <2>5, <2>7, WaitTypes DEF HasPlace, IsWaiting
  <2> QED BY <2>6, <2>7
<1> QED BY <1>2, <1>3, ReleaseCases

LEMMA JoinQueueKeepsPlaces ==
    ASSUME Structure, WaitKept, NEW r \in Request, JoinQueue(r)
    PROVE  WaitKept'
<1> DEFINE s == SessionOf[r]
           t == TokenOf[r]
<1>1. /\ slot[s] # None /\ ~IsWaiting(s, t)
      /\ waiters' = [waiters EXCEPT ![s] = Append(@, t)]
      /\ ctx' = [ctx EXCEPT ![s][t] = r]
      /\ pc' = [pc EXCEPT ![r] = "waiting"]
  BY DEF JoinQueue, Wait, IsDuplicate, Goto
<1>2. s \in Session /\ t \in Token
  BY GuardTypes
<1>3. /\ waiters'[s] = Append(waiters[s], t)
      /\ DOMAIN waiters'[s] = 1 .. (Len(waiters[s]) + 1)
      /\ waiters'[s][Len(waiters[s]) + 1] = t
      /\ \A i \in 1 .. Len(waiters[s]) : waiters'[s][i] = waiters[s][i]
      /\ \A g \in Session \ {s} : waiters'[g] = waiters[g]
  BY <1>1, <1>2, WaitTypes, AppendProperties
<1>4. HasPlace(r)'
  <2>1. ctx'[s][t] = r
    BY <1>1, <1>2, WaitTypes
  <2>2. Len(waiters[s]) + 1 \in DOMAIN waiters'[s]
    BY <1>2, <1>3, WaitTypes
  <2> QED BY <1>3, <2>1, <2>2 DEF HasPlace, IsWaiting
<1>5. ASSUME NEW q \in Request \ {r}, pc'[q] = "waiting"
      PROVE  HasPlace(q)'
  <2>1. HasPlace(q) /\ SessionOf[q] \in Session /\ TokenOf[q] \in Token
    BY <1>1, <1>5, GuardTypes DEF WaitKept
  <2>2. CASE SessionOf[q] = s
    <3>1. TokenOf[q] # t
      BY <1>1, <2>1, <2>2 DEF HasPlace
    <3>2. ctx'[s][TokenOf[q]] = q
      BY <1>1, <1>2, <2>1, <2>2, <3>1, WaitTypes DEF HasPlace
    <3>3. PICK i \in 1 .. Len(waiters[s]) : waiters[s][i] = TokenOf[q]
      BY <2>1, <2>2, WaitTypes DEF HasPlace, IsWaiting
    <3>4. i \in DOMAIN waiters'[s] /\ waiters'[s][i] = TokenOf[q]
      BY <1>2, <1>3, <3>3, WaitTypes
    <3> QED BY <2>2, <3>2, <3>4 DEF HasPlace, IsWaiting
  <2>3. CASE SessionOf[q] # s
    BY <1>1, <1>2, <1>3, <2>1, <2>3, WaitTypes DEF HasPlace, IsWaiting
  <2> QED BY <2>2, <2>3
<1> QED BY <1>4, <1>5 DEF WaitKept

LEMMA JoinTwinKeepsPlaces ==
    ASSUME Structure, WaitKept, NEW r \in Request, JoinTwin(r)
    PROVE  WaitKept'
<1> DEFINE s == SessionOf[r]
           t == TokenOf[r]
<1>1. s \in Session /\ t \in Token /\ waiters' = waiters
  BY GuardTypes DEF JoinTwin, queueVars
<1>2. CASE slot[s] = t
  <2>1. ctx' = ctx /\ NobodyQueues
    BY <1>2, GuardTypes DEF JoinTwin, Goto, NobodyQueues
  <2> QED BY <1>1, <2>1, QueueUntouched
<1>3. CASE slot[s] # t
  <2>1. /\ IsWaiting(s, t)
        /\ ctx' = [ctx EXCEPT ![s][t] = r]
        /\ \A q \in Request \ {r} : pc'[q] = "waiting" => pc[q] = "waiting" /\ q # ctx[s][t]
    BY <1>3 DEF JoinTwin, IsDuplicate
  <2>2. HasPlace(r)'
    BY <1>1, <2>1, WaitTypes DEF HasPlace, IsWaiting
  <2>3. ASSUME NEW q \in Request \ {r}, pc'[q] = "waiting"
        PROVE  HasPlace(q)'
    <3>1. HasPlace(q) /\ q # ctx[s][t] /\ SessionOf[q] \in Session /\ TokenOf[q] \in Token
      BY <2>1, <2>3, GuardTypes DEF WaitKept
    <3>2. ~(SessionOf[q] = s /\ TokenOf[q] = t)
      BY <3>1 DEF HasPlace
    <3>3. ctx'[SessionOf[q]][TokenOf[q]] = ctx[SessionOf[q]][TokenOf[q]]
      BY <1>1, <2>1, <3>1, <3>2, WaitTypes
    <3> QED BY <1>1, <3>1, <3>3 DEF HasPlace, IsWaiting
  <2> QED BY <2>2, <2>3 DEF WaitKept
<1> QED BY <1>2, <1>3

LEMMA ActivationsKeepPlaces ==
    ASSUME Structure, WaitKept, NEW r \in Request,
           Start(r) \/ Step(r) \/ GatesFail(r) \/ Hang(r) \/ FinishClose(r)
    PROVE  WaitKept'
<1> DEFINE Gives(p) == ReleaseAndPromote(SessionOf[r], [pc EXCEPT ![r] = p])
           Goes(p) == Goto(r, p) /\ UNCHANGED <<waiters, ctx>>
<1>0. SessionOf[r] \in Session
  BY GuardTypes
<1>1. ASSUME NEW p, Goes(p), p # "waiting"
      PROVE  WaitKept'
  <2>1. NobodyQueues
    BY <1>1, GuardTypes DEF Goto, NobodyQueues
  <2> QED BY <1>1, <2>1, QueueUntouched
<1>2. ASSUME NEW p, Gives(p), p # "waiting" \/ p = pc[r]
      PROVE  WaitKept'
  BY <1>0, <1>2, ReleaseKeepsPlaces
<1>3. CASE Start(r) \/ GatesAsked(r) \/ GatesFail(r) \/ DropBusy(r) \/ ClaimSlot(r) \/ Hang(r)
  <2>1. \E p \in {"gates", "caps", "lifetime", "claim", "skipping", "threw", "dropped", "online", "hung"} : Goes(p)
    BY <1>3, GatesMoves DEF Start, GatesMove, GatesFail, DropBusy, ClaimSlot, Claim, Hang, queueVars
  <2> QED BY <2>1, <1>1
<1>4. CASE \/ OpenRow(r) \/ OpenThrows(r) \/ MarkDispatched(r) \/ FinalHaltCheck(r)
           \/ BeginSend(r) \/ Send(r) \/ SendThrows(r) \/ GiveBack(r)
  <2>1. \E p \in {"marking", "openFailed", "halt", "send", "haltUnwind", "halting", "sending", "sent",
               "unwind", "failing"} : Goes(p)
    BY <1>4 DEF OpenRow, OpenThrows, MarkDispatched, FinalHaltCheck, BeginSend, Send, SendThrows,
                GiveBack, queueVars
  <2> QED BY <2>1, <1>1
<1>5. CASE ReturnSkipped(r)
  <2>1. Gives("skipped") \/ Goes("skipped")
    BY <1>5 DEF ReturnSkipped, queueVars
  <2>2. "skipped" # "waiting"
    OBVIOUS
  <2> QED BY <2>1, <2>2, <1>1, <1>2
<1>6. CASE \/ IsOnline(r) \/ PreEnsureCheck(r) \/ EnsureOnline(r) \/ PreSendGuard(r)
           \/ ReserveInject(r)
  <2>1. \/ \E p \in {"skipping", "absorbed", "parked"} : Gives(p)
        \/ \E p \in {"guard", "reserve", "open", "precheck", "ensure"} : Goes(p)
    BY <1>6 DEF IsOnline, PreEnsureCheck, EnsureOnline, PreSendGuard, ReserveInject, Refuse,
                FreeSlot, Park, PastOnline, PastHaltRead, queueVars
  <2> QED BY <2>1, <1>1, <1>2
<1>7. CASE RethrowOpen(r) \/ Unwind(r) \/ FinishClose(r)
  <2>1. \E p \in {"threw", "failed", "skipping", "closed", pc[r]} : Gives(p)
    BY <1>7 DEF RethrowOpen, Unwind, FreeSlot, FinishClose
  <2> QED BY <2>1, <1>2
<1> QED BY <1>3, <1>4, <1>5, <1>6, <1>7, JoinQueueKeepsPlaces, JoinTwinKeepsPlaces DEF Step, GatesAsked

LEMMA WaitNext == Structure /\ RunsOK /\ WaitKept /\ [Next]_vars => WaitKept'
<1> SUFFICES ASSUME Structure, RunsOK, WaitKept, [Next]_vars PROVE WaitKept'
  OBVIOUS
<1>1. ASSUME NEW r \in Request, Start(r) \/ Step(r) \/ GatesFail(r) \/ Hang(r) \/ FinishClose(r)
      PROVE  WaitKept'
  BY <1>1, ActivationsKeepPlaces
<1>2. ASSUME NEW s \in Session, EndRun(s) \/ Connect(s) \/ Disconnect(s) \/ GraceLapse(s) \/ Drain(s)
      PROVE  WaitKept'
  <2>1. UNCHANGED <<pc, waiters, ctx>>
    BY <1>2 DEF EndRun, OnSessionReply, ReapTimedOutHook, ReleaseClosedRun, TakeHook, Connect, Disconnect,
                GraceLapse, Drain, queueVars
  <2> QED BY <2>1, QueueUntouched DEF NobodyQueues
<1>3. ASSUME NEW s \in Session, StaleLockReap(s)
      PROVE  WaitKept'
  BY <1>3, NoStaleLock
<1>4. ASSUME NEW s \in Session, DrainLoop(s)
      PROVE  WaitKept'
  <2>1. UNCHANGED <<waiters, ctx>>
    BY <1>4 DEF DrainLoop, DrainNext, DrainEnd, queueVars
  <2>2. NobodyQueues
    BY <1>4, OthersGuarded DEF Rests, Unparked, NobodyQueues
  <2> QED BY <2>1, <2>2, QueueUntouched
<1>5. CASE GraceSweep
  <2>1. UNCHANGED <<waiters, ctx>> /\ NobodyQueues
    BY <1>5 DEF GraceSweep, queueVars, NobodyQueues
  <2> QED BY <2>1, QueueUntouched
<1>6. CASE CapFlip \/ KillSwitchFlip \/ UNCHANGED vars
  BY <1>6, QueueUntouched DEF CapFlip, KillSwitchFlip, vars, queueVars, NobodyQueues
<1> QED BY <1>1, <1>2, <1>3, <1>4, <1>5, <1>6 DEF Next

LEMMA PlacesAgree == Structure /\ WaitKept => WaitersHaveContext
<1> SUFFICES ASSUME Structure, WaitKept PROVE WaitersHaveContext
  OBVIOUS
<1>1. WaiterKept
  BY DEF WaitKept, HasPlace, WaiterKept
<1>2. ASSUME NEW r \in Request
      PROVE  pc[r] = "waiting" <=> ctx[SessionOf[r]][TokenOf[r]] = r
  <2>1. SessionOf[r] \in Session /\ TokenOf[r] \in Token /\ r # None
    BY GuardTypes
  <2> QED BY <2>1 DEF WaitKept, HasPlace, Structure, CtxOK
<1> QED BY <1>1, <1>2 DEF WaitersHaveContext, Structure, QueueOK

(* If no run ends before its prompt is sent and no awaited call hangs, the *)
(* queue's tokens and the waiter contexts say the same: whoever waits is   *)
(* in the queue under its own token, and no promotion meets a token        *)
(* without a context.                                                      *)
THEOREM WaitersAgree == ~EarlyEvents /\ ~Hangs => (Spec => []WaitersHaveContext)
<1> SUFFICES ASSUME ~EarlyEvents, ~Hangs PROVE Spec => []WaitersHaveContext
  OBVIOUS
<1>1. Init => WaitKept
  BY DEF Init, WaitKept
<1> QED BY <1>1, WaitNext, PlacesAgree, RunsInductive, AlwaysStructure, PTL DEF Spec

-----------------------------------------------------------------------------
(* The queue is first in, first out (session-queue.ts: enqueue and         *)
(* releaseAndTakeNext).                                                    *)
(* A token joins behind everybody who waits, ...                           *)
JoinsTail(s, t) ==
    /\ slot[s] # None /\ ~IsWaiting(s, t) /\ Len(waiters[s]) < MaxWaiters
    /\ waiters' = [waiters EXCEPT ![s] = Append(@, t)]

(* ... the only place that is left is the first one, and its request goes  *)
(* back to the gates as the slot is freed, ...                             *)
HeadGoes(s) ==
    /\ waiters[s] # << >> /\ slot'[s] = None
    /\ waiters' = [waiters EXCEPT ![s] = Tail(@)]
    /\ LET w == ctx[s][Head(waiters[s])] IN
       w \in Request /\ pc'[w] = "gates" /\ from'[w] = "promotion"

(* ... and a retry of the same row may take a request's place.             *)
TwinTakesPlace(r) ==
    /\ pc'[r] = "superseded" /\ waiters' = waiters
    /\ \E q \in Request \ {r} :
          /\ SessionOf[q] = SessionOf[r] /\ TokenOf[q] = TokenOf[r]
          /\ pc[q] = "claim" /\ pc'[q] = "waiting" /\ ctx'[SessionOf[r]][TokenOf[r]] = q

InTurn ==
    /\ waiters' = waiters \/ \E s \in Session : HeadGoes(s) \/ \E t \in Token : JoinsTail(s, t)
    /\ \A r \in Request :
          pc[r] = "waiting" /\ pc'[r] # "waiting" =>
             \/ HeadGoes(SessionOf[r]) /\ ctx[SessionOf[r]][Head(waiters[SessionOf[r]])] = r
             \/ TwinTakesPlace(r)

NobodyLeaves == \A q \in Request : pc[q] = "waiting" => pc'[q] = "waiting"

LEMMA NobodyMoves ==
    ASSUME waiters' = waiters, NobodyLeaves
    PROVE  InTurn
BY DEF InTurn, NobodyLeaves

LEMMA ReleaseInTurn ==
    ASSUME Structure, NEW r \in Request, NEW s \in Session, NEW p,
           ReleaseAndPromote(s, [pc EXCEPT ![r] = p]), pc[r] # "waiting" \/ p = pc[r]
    PROVE  InTurn
<1> DEFINE after == [pc EXCEPT ![r] = p]
<1>1. DOMAIN after = Request /\ \A q \in Request : pc[q] = "waiting" => after[q] = "waiting"
  BY GuardTypes
<1>2. CASE PromotesNobody(s, after)
  BY <1>1, <1>2, NobodyMoves DEF PromotesNobody, NobodyLeaves
<1>3. CASE \E w \in Request : Promotes(s, w, after)
  <2>1. PICK w \in Request : Promotes(s, w, after)
    BY <1>3
  <2>2. /\ w = ctx[s][Head(waiters[s])] /\ SessionOf[w] = s
        /\ pc' = [after EXCEPT ![w] = "gates"] /\ pc'[w] = "gates"
    BY <1>1, <2>1 DEF Promotes
  <2>3. from'[w] = "promotion"
    BY <2>1 DEF Promotes, Structure, Types
  <2>4. slot'[s] = None
    BY ReleaseCases, WaitTypes
  <2>5. HeadGoes(s)
    BY <2>1, <2>2, <2>3, <2>4 DEF Promotes, HeadGoes
  <2>6. \A q \in Request : pc[q] = "waiting" /\ pc'[q] # "waiting" => q = w
    BY <1>1, <2>2
  <2> QED BY <2>2, <2>5, <2>6 DEF InTurn
<1> QED BY <1>2, <1>3, ReleaseCases

LEMMA JoinInTurn ==
    ASSUME Structure, NEW r \in Request, JoinQueue(r)
    PROVE  InTurn
<1>1. SessionOf[r] \in Session /\ TokenOf[r] \in Token
  BY GuardTypes
<1>2. JoinsTail(SessionOf[r], TokenOf[r])
  BY DEF JoinQueue, Wait, IsDuplicate, JoinsTail
<1>3. NobodyLeaves
  BY GuardTypes DEF JoinQueue, Goto, NobodyLeaves
<1> QED BY <1>1, <1>2, <1>3 DEF InTurn, NobodyLeaves

LEMMA TwinInTurn ==
    ASSUME Structure, WaitKept, NEW r \in Request, JoinTwin(r)
    PROVE  InTurn
<1> DEFINE s == SessionOf[r]
           t == TokenOf[r]
<1>1. s \in Session /\ t \in Token /\ waiters' = waiters /\ pc[r] = "claim"
  BY GuardTypes DEF JoinTwin, queueVars
<1>2. CASE slot[s] = t
  <2>1. NobodyLeaves
    BY <1>1, <1>2, GuardTypes DEF JoinTwin, Goto, NobodyLeaves
  <2> QED BY <1>1, <2>1, NobodyMoves
<1>3. CASE slot[s] # t
  <2>1. /\ ctx' = [ctx EXCEPT ![s][t] = r]
        /\ pc' = [q \in Request |-> IF q = r THEN "waiting"
                                    ELSE IF q = ctx[s][t] THEN "superseded" ELSE pc[q]]
    BY <1>3 DEF JoinTwin
  <2>2. ctx'[s][t] = r
    BY <1>1, <2>1, WaitTypes
  <2>3. ASSUME NEW q \in Request, pc[q] = "waiting", pc'[q] # "waiting"
        PROVE  TwinTakesPlace(q)
    <3>1. q # r /\ q = ctx[s][t] /\ pc'[q] = "superseded" /\ pc'[r] = "waiting"
      BY <1>1, <2>1, <2>3
    <3>2. SessionOf[q] = s /\ TokenOf[q] = t
      BY <1>1, <3>1, GuardTypes DEF Structure, CtxOK
    <3> QED BY <1>1, <2>2, <3>1, <3>2 DEF TwinTakesPlace
  <2> QED BY <1>1, <2>3 DEF InTurn
<1> QED BY <1>2, <1>3

LEMMA ActivationsInTurn ==
    ASSUME Structure, RunsOK, WaitKept, NEW r \in Request,
           Start(r) \/ Step(r) \/ GatesFail(r) \/ Hang(r) \/ FinishClose(r)
    PROVE  InTurn
<1> DEFINE Gives(p) == ReleaseAndPromote(SessionOf[r], [pc EXCEPT ![r] = p])
           Goes(p) == Goto(r, p) /\ waiters' = waiters
<1>0. SessionOf[r] \in Session
  BY GuardTypes
<1>1. ASSUME NEW p, Goes(p), pc[r] # "waiting"
      PROVE  InTurn
  <2>1. NobodyLeaves
    BY <1>1, GuardTypes DEF Goto, NobodyLeaves
  <2> QED BY <1>1, <2>1, NobodyMoves
<1>2. ASSUME NEW p, Gives(p), pc[r] # "waiting"
      PROVE  InTurn
  BY <1>0, <1>2, ReleaseInTurn
<1>3. CASE Start(r) \/ GatesAsked(r) \/ GatesFail(r) \/ DropBusy(r) \/ ClaimSlot(r) \/ Hang(r)
  <2>1. pc[r] # "waiting"
    BY <1>3, GatesMoves DEF Start, GatesMove, GatesFail, AtCaps, DropBusy, ClaimSlot, Hang
  <2>2. \E p \in {"gates", "caps", "lifetime", "claim", "skipping", "threw", "dropped", "online", "hung"} :
           Goes(p)
    BY <1>3, GatesMoves DEF Start, GatesMove, GatesFail, DropBusy, ClaimSlot, Claim, Hang, queueVars
  <2> QED BY <2>1, <2>2, <1>1
<1>4. CASE \/ OpenRow(r) \/ OpenThrows(r) \/ MarkDispatched(r) \/ FinalHaltCheck(r)
           \/ BeginSend(r) \/ Send(r) \/ SendThrows(r) \/ GiveBack(r)
  <2>1. pc[r] # "waiting"
    BY <1>4 DEF OpenRow, OpenThrows, MarkDispatched, FinalHaltCheck, BeginSend, Send, SendThrows, GiveBack
  <2>2. \E p \in {"marking", "openFailed", "halt", "send", "haltUnwind", "halting", "sending", "sent",
               "unwind", "failing"} : Goes(p)
    BY <1>4 DEF OpenRow, OpenThrows, MarkDispatched, FinalHaltCheck, BeginSend, Send, SendThrows,
                GiveBack, queueVars
  <2> QED BY <2>1, <2>2, <1>1
<1>5. CASE ReturnSkipped(r)
  <2>1. pc[r] # "waiting" /\ (Gives("skipped") \/ Goes("skipped"))
    BY <1>5 DEF ReturnSkipped, queueVars
  <2> QED BY <2>1, <1>1, <1>2
<1>6. CASE \/ IsOnline(r) \/ PreEnsureCheck(r) \/ EnsureOnline(r) \/ PreSendGuard(r)
           \/ ReserveInject(r)
  <2>1. pc[r] # "waiting"
    BY <1>6 DEF IsOnline, PreEnsureCheck, EnsureOnline, PreSendGuard, ReserveInject
  <2>2. \/ \E p \in {"skipping", "absorbed", "parked"} : Gives(p)
        \/ \E p \in {"guard", "reserve", "open", "precheck", "ensure"} : Goes(p)
    BY <1>6 DEF IsOnline, PreEnsureCheck, EnsureOnline, PreSendGuard, ReserveInject, Refuse,
                FreeSlot, Park, PastOnline, PastHaltRead, queueVars
  <2> QED BY <2>1, <2>2, <1>1, <1>2
<1>7. CASE RethrowOpen(r) \/ Unwind(r) \/ FinishClose(r)
  <2>1. pc[r] # "waiting"
    BY <1>7 DEF RethrowOpen, Unwind, FreeSlot, FinishClose, RunsOK, ClosingOK
  <2>2. \E p \in {"threw", "failed", "skipping", "closed", pc[r]} : Gives(p)
    BY <1>7 DEF RethrowOpen, Unwind, FreeSlot, FinishClose
  <2> QED BY <2>1, <2>2, <1>2
<1> QED BY <1>3, <1>4, <1>5, <1>6, <1>7, JoinInTurn, TwinInTurn DEF Step, GatesAsked

LEMMA TurnNext == Structure /\ RunsOK /\ WaitKept /\ [Next]_vars => InTurn
<1> SUFFICES ASSUME Structure, RunsOK, WaitKept, [Next]_vars PROVE InTurn
  OBVIOUS
<1>1. ASSUME NEW r \in Request, Start(r) \/ Step(r) \/ GatesFail(r) \/ Hang(r) \/ FinishClose(r)
      PROVE  InTurn
  BY <1>1, ActivationsInTurn
<1>2. ASSUME NEW s \in Session, EndRun(s) \/ Connect(s) \/ Disconnect(s) \/ GraceLapse(s) \/ Drain(s)
      PROVE  InTurn
  <2>1. UNCHANGED <<pc, waiters>>
    BY <1>2 DEF EndRun, OnSessionReply, ReapTimedOutHook, ReleaseClosedRun, TakeHook, Connect, Disconnect,
                GraceLapse, Drain, queueVars
  <2> QED BY <2>1, NobodyMoves DEF NobodyLeaves
<1>3. ASSUME NEW s \in Session, StaleLockReap(s)
      PROVE  InTurn
  BY <1>3, NoStaleLock
<1>4. ASSUME NEW s \in Session, DrainLoop(s)
      PROVE  InTurn
  <2>1. waiters' = waiters
    BY <1>4 DEF DrainLoop, DrainNext, DrainEnd, queueVars
  <2>2. NobodyLeaves
    BY <1>4, OthersGuarded DEF Rests, Unparked, NobodyLeaves
  <2> QED BY <2>1, <2>2, NobodyMoves
<1>5. CASE GraceSweep
  <2>1. waiters' = waiters
    BY <1>5 DEF GraceSweep, queueVars
  <2>2. NobodyLeaves
    BY <1>5, SweptParked DEF GraceSweep, NobodyLeaves
  <2> QED BY <2>1, <2>2, NobodyMoves
<1>6. CASE CapFlip \/ KillSwitchFlip \/ UNCHANGED vars
  BY <1>6, NobodyMoves DEF CapFlip, KillSwitchFlip, vars, queueVars, NobodyLeaves
<1> QED BY <1>1, <1>2, <1>3, <1>4, <1>5, <1>6 DEF Next

(* If no run ends before its prompt is sent and no awaited call hangs, the *)
(* queue of a session is first in, first out at every step: a token joins  *)
(* at the tail and while there is room, only the head's request is taken,  *)
(* and a waiting request stops waiting in no other way but to a retry of   *)
(* its own row, which takes over its place.                                *)
THEOREM QueueIsFifo == ~EarlyEvents /\ ~Hangs => (Spec => [][InTurn]_vars)
<1> SUFFICES ASSUME ~EarlyEvents, ~Hangs PROVE Spec => [][InTurn]_vars
  OBVIOUS
<1>1. Init => WaitKept
  BY DEF Init, WaitKept
<1> QED BY <1>1, WaitNext, TurnNext, RunsInductive, AlwaysStructure, PTL DEF Spec

-----------------------------------------------------------------------------
(* A sent prompt is watched to its end: its finalize hook stays armed, or  *)
(* its end is being stored.  No other request can disarm the hook of a     *)
(* session meanwhile, for there is no other in flight there.               *)
Watched(r) == hook[SessionOf[r]] = r \/ r \in closing
SentWatched == \A r \in Request : pc[r] = "sent" => Watched(r)

NobodySent == \A q \in Request : pc'[q] = "sent" => pc[q] = "sent"

LEMMA StillWatched ==
    ASSUME SentWatched, NobodySent, UNCHANGED <<hook, closing>>
    PROVE  SentWatched'
BY DEF SentWatched, Watched, NobodySent

LEMMA ReleaseSendsNobody ==
    ASSUME Structure, NEW r \in Request, NEW s \in Session, NEW p,
           ReleaseAndPromote(s, [pc EXCEPT ![r] = p]), clearSince' = clearSince, p # "sent"
    PROVE  NobodySent
<1>1. pc'[r] # "sent"
  BY ReleaseMoves DEF Promoted
<1>2. \A q \in Request \ {r} : pc'[q] = "sent" => pc[q] = "sent"
  BY ReleaseMoves DEF Promoted, Rests
<1> QED BY <1>1, <1>2 DEF NobodySent

(* The steps that arm or disarm the hook of their session.                 *)
LEMMA HookingWatched ==
    ASSUME Structure, RunsOK, SentWatched, NEW r \in Request,
           OpenRow(r) \/ FinalHaltCheck(r) \/ SendThrows(r)
    PROVE  SentWatched'
<1> DEFINE s == SessionOf[r]
<1>1. /\ pc[r] \in Holding /\ pc[r] # "sent" /\ s \in Session
      /\ closing' = closing /\ \A g \in Session \ {s} : hook'[g] = hook[g]
      /\ \E p \in {"marking", "send", "haltUnwind", "halting", "unwind", "failing"} : Goto(r, p)
  BY RunTypes, GuardTypes DEF OpenRow, FinalHaltCheck, SendThrows, Holding
<1>2. pc'[r] # "sent" /\ \A q \in Request \ {r} : pc'[q] = pc[q]
  BY <1>1, GuardTypes DEF Goto
<1> SUFFICES ASSUME NEW q \in Request \ {r}, pc[q] = "sent"
             PROVE  Watched(q)'
  BY <1>2 DEF SentWatched
<1>3. Watched(q) /\ SessionOf[q] \in Session
  BY GuardTypes DEF SentWatched
<1>4. SessionOf[q] # s \/ q \in closing
  <2> SUFFICES ASSUME SessionOf[q] = s, q \notin closing PROVE FALSE
    OBVIOUS
  <2>1. q \in InFlight(s) /\ r \in InFlight(s)
    BY <1>1, <1>3 DEF InFlight, Watched
  <2> QED BY <1>1, <2>1 DEF RunsOK, AtMostOneInFlight
<1> QED BY <1>1, <1>3, <1>4 DEF Watched

LEMMA ActivationsWatched ==
    ASSUME Structure, RunsOK, SentWatched, NEW r \in Request,
           Start(r) \/ Step(r) \/ GatesFail(r) \/ Hang(r)
    PROVE  SentWatched'
<1> DEFINE Gives(p) ==
             /\ UNCHANGED <<hook, closing, clearSince>>
             /\ ReleaseAndPromote(SessionOf[r], [pc EXCEPT ![r] = p])
           Goes(p) == Goto(r, p) /\ UNCHANGED <<hook, closing>>
<1>0. SessionOf[r] \in Session
  BY GuardTypes
<1>1. ASSUME NEW p, Goes(p), p # "sent"
      PROVE  SentWatched'
  <2>1. NobodySent
    BY <1>1, GuardTypes DEF Goto, NobodySent
  <2> QED BY <1>1, <2>1, StillWatched
<1>2. ASSUME NEW p, Gives(p), p # "sent"
      PROVE  SentWatched'
  BY <1>0, <1>2, ReleaseSendsNobody, StillWatched
<1>3. CASE \/ Start(r) \/ GatesAsked(r) \/ GatesFail(r) \/ DropBusy(r) \/ ClaimSlot(r)
           \/ Hang(r) \/ JoinQueue(r)
  <2>1. \E p \in {"gates", "caps", "lifetime", "claim", "skipping", "threw", "dropped", "online", "hung", "waiting"} : Goes(p)
    BY <1>3, GatesMoves DEF Start, GatesMove, GatesFail, DropBusy, ClaimSlot, Hang, JoinQueue
  <2> QED BY <2>1, <1>1
<1>4. CASE OpenThrows(r) \/ MarkDispatched(r) \/ BeginSend(r) \/ GiveBack(r)
  <2>1. \E p \in {"openFailed", "halt", "send", "sending", "failing", "halting"} : Goes(p)
    BY <1>4 DEF OpenThrows, MarkDispatched, BeginSend, GiveBack
  <2> QED BY <2>1, <1>1
<1>5. CASE Send(r)
  <2>1. hook[SessionOf[r]] = r
    BY <1>5 DEF Send, RunsOK, ArmedOK, Armed
  <2>2. \A q \in Request \ {r} : pc'[q] = pc[q]
    BY <1>5, GuardTypes DEF Send, Goto
  <2>3. UNCHANGED <<hook, closing>>
    BY <1>5 DEF Send
  <2> QED BY <2>1, <2>2, <2>3 DEF SentWatched, Watched
<1>6. CASE ReturnSkipped(r)
  <2>1. Gives("skipped") \/ Goes("skipped")
    BY <1>6 DEF ReturnSkipped
  <2>2. "skipped" # "sent"
    OBVIOUS
  <2> QED BY <2>1, <2>2, <1>1, <1>2
<1>7. CASE \/ IsOnline(r) \/ PreEnsureCheck(r) \/ EnsureOnline(r) \/ PreSendGuard(r)
           \/ ReserveInject(r) \/ RethrowOpen(r) \/ Unwind(r)
  <2>1. \/ \E p \in {"absorbed", "parked", "skipping", "threw", "failed"} : Gives(p)
        \/ \E p \in {"guard", "reserve", "open", "precheck", "ensure"} : Goes(p)
    BY <1>7 DEF IsOnline, PreEnsureCheck, EnsureOnline, PreSendGuard, ReserveInject, RethrowOpen, Unwind,
                Refuse, FreeSlot, Park, PastOnline, PastHaltRead
  <2> QED BY <2>1, <1>1, <1>2
<1>8. CASE JoinTwin(r)
  <2>1. NobodySent /\ UNCHANGED <<hook, closing>>
    BY <1>8, GuardTypes DEF JoinTwin, Goto, NobodySent
  <2> QED BY <2>1, StillWatched
<1> QED BY <1>3, <1>4, <1>5, <1>6, <1>7, <1>8, HookingWatched DEF Step, GatesAsked

LEMMA WatchNext ==
    ASSUME ~EarlyEvents
    PROVE  Structure /\ RunsOK /\ SentWatched /\ [Next]_vars => SentWatched'
<1> SUFFICES ASSUME Structure, RunsOK, SentWatched, [Next]_vars PROVE SentWatched'
  OBVIOUS
<1>1. ASSUME NEW r \in Request, Start(r) \/ Step(r) \/ GatesFail(r) \/ Hang(r)
      PROVE  SentWatched'
  BY <1>1, ActivationsWatched
<1>2. ASSUME NEW r \in Request, FinishClose(r)
      PROVE  SentWatched'
  <2>1. /\ pc[r] = "sent" /\ closing' = closing \ {r} /\ hook' = hook /\ clearSince' = clearSince
        /\ ReleaseAndPromote(SessionOf[r], [pc EXCEPT ![r] = "closed"])
    BY <1>2 DEF FinishClose, RunsOK, ClosingOK
  <2>2. pc'[r] # "sent" /\ NobodySent
    <3>1. SessionOf[r] \in Session
      BY GuardTypes
    <3> QED BY <2>1, <3>1, ReleaseMoves, ReleaseSendsNobody DEF Promoted
  <2> QED BY <2>1, <2>2 DEF SentWatched, Watched, NobodySent
<1>3. ASSUME NEW s \in Session, EndRun(s)
      PROVE  SentWatched'
  <2>1. /\ closing' = closing \cup {hook[s]} /\ hook' = [hook EXCEPT ![s] = None] /\ pc' = pc
    BY <1>3 DEF EndRun, OnSessionReply, ReapTimedOutHook, ReleaseClosedRun, TakeHook
  <2> QED BY <2>1, RunTypes, GuardTypes DEF SentWatched, Watched
<1>4. ASSUME NEW s \in Session, StaleLockReap(s)
      PROVE  SentWatched'
  BY <1>4, NoStaleLock
<1>5. ASSUME NEW s \in Session,
             Drain(s) \/ DrainLoop(s) \/ GraceSweep \/ GraceLapse(s) \/ Connect(s) \/ Disconnect(s)
      PROVE  SentWatched'
  <2>1. UNCHANGED <<hook, closing>>
    BY <1>5 DEF Drain, DrainLoop, DrainNext, DrainEnd, GraceSweep, GraceLapse, Connect, Disconnect
  <2>2. NobodySent
    BY <1>5, OthersGuarded DEF Rests, Unparked, NobodySent
  <2> QED BY <2>1, <2>2, StillWatched
<1>6. CASE GraceSweep
  <2>1. UNCHANGED <<hook, closing>> /\ NobodySent
    BY <1>6, GuardTypes DEF GraceSweep, NobodySent
  <2> QED BY <2>1, StillWatched
<1>7. CASE CapFlip \/ KillSwitchFlip \/ UNCHANGED vars
  BY <1>7, StillWatched DEF CapFlip, KillSwitchFlip, vars, NobodySent
<1> QED BY <1>1, <1>2, <1>3, <1>4, <1>5, <1>6, <1>7 DEF Next

(* The safety part of DispatchSettles: nothing that dispatch() has taken   *)
(* on is forgotten.  Behind every waiting request there is a run in flight *)
(* on its session, or a promoted activation that has yet to hand on; and a *)
(* sent prompt is watched, so that its slot comes back.                    *)
OnItsWay(r) ==
    LET s == SessionOf[r] IN
    /\ pc[r] = "waiting" =>
          \/ InFlight(s) # {}
          \/ \E q \in Request : SessionOf[q] = s /\ from[q] = "promotion" /\ pc[q] \in Passing
    /\ pc[r] = "sent" => Watched(r)

(* If no run ends before its prompt is sent, no gate throws and no awaited *)
(* call hangs, every request that waits has somebody to wait for and every *)
(* sent prompt has a watcher that will give its slot back.                 *)
THEOREM NothingWedged == ~EarlyEvents /\ ~Hangs /\ ~GatesThrow => (Spec => [](\A r \in Request : OnItsWay(r)))
<1> SUFFICES ASSUME ~EarlyEvents, ~Hangs, ~GatesThrow PROVE Spec => [](\A r \in Request : OnItsWay(r))
  OBVIOUS
<1>1. Init => SentWatched
  BY DEF Init, SentWatched
<1>2. ASSUME Structure, RunsOK, SentWatched, WaitersHaveContext, NoStrandedWaiter
      PROVE  \A r \in Request : OnItsWay(r)
  <2> SUFFICES ASSUME NEW r \in Request
               PROVE  OnItsWay(r)
    OBVIOUS
  <2> DEFINE s == SessionOf[r]
  <2>1. s \in Session
    BY GuardTypes
  <2>2. ASSUME pc[r] = "waiting", InFlight(s) = {}
        PROVE  \E q \in Request : SessionOf[q] = s /\ from[q] = "promotion" /\ pc[q] \in Passing
    <3>1. slot[s] = None
      BY <1>2, <2>1, <2>2 DEF RunsOK, SlotHeldByRun
    <3>2. waiters[s] # << >>
      BY <1>2, <2>1, <2>2 DEF WaitersHaveContext, WaiterKept, IsWaiting
    <3> QED BY <2>1, <3>1, <3>2, <1>2 DEF NoStrandedWaiter
  <2> QED BY <2>2, <1>2 DEF OnItsWay, SentWatched
<1>3. Structure /\ RunsOK /\ SentWatched /\ WaitersHaveContext /\ NoStrandedWaiter
        => \A r \in Request : OnItsWay(r)
  BY <1>2
<1> QED BY <1>1, <1>3, WatchNext, RunsInductive, AlwaysStructure, WaitersAgree, NobodyStranded, PTL DEF Spec

-----------------------------------------------------------------------------
(* The refinement.  Given the invariants of the runs, what a caller sees   *)
(* of a request follows from where its activation is; a sent prompt still  *)
(* runs while its hook is armed or its end is being stored.                *)

Current(q) == hook[SessionOf[q]] = q \/ q \in closing

Stage(q) ==
    IF pc[q] = "new" THEN "idle"
    ELSE IF pc[q] \in Holding \/ (pc[q] = "sent" /\ Current(q)) THEN "running"
    ELSE IF pc[q] \in {"gates", "caps", "lifetime", "claim", "waiting", "parked"} THEN "waiting"
    ELSE "done"

LEMMA StageSeen == Structure /\ RunsOK => RunState = [q \in Request |-> Stage(q)]
<1> SUFFICES ASSUME Structure, RunsOK, NEW q \in Request
             PROVE  RunState[q] = Stage(q)
  BY DEF RunState
<1>1. q \in InFlight(SessionOf[q]) <=> pc[q] \in Holding \/ Current(q)
  BY DEF InFlight, Current
<1>2. Current(q) => pc[q] \in Armed \cup {"sent"}
  BY RunTypes DEF Current, RunsOK, HookOK, ClosingOK
<1>3. q \in InFlight(SessionOf[q]) <=> pc[q] \in Holding \/ (pc[q] = "sent" /\ Current(q))
  BY <1>1, <1>2, ArmedHolds
<1>4. /\ "new" \notin Holding /\ "gates" \notin Holding /\ "caps" \notin Holding
      /\ "lifetime" \notin Holding /\ "claim" \notin Holding
      /\ "waiting" \notin Holding /\ "parked" \notin Holding
  BY DEF Holding
<1> QED BY <1>3, <1>4 DEF RunState, Stage

LEMMA StageSeenNext == (Structure /\ RunsOK => RunState = [q \in Request |-> Stage(q)])'
BY StageSeen, PTL

(* How the stages of a step make a step of the abstract server.            *)
LEMMA AbstractStep ==
    ASSUME Structure, RunsOK, Structure', RunsOK', NEW r \in Request,
           \A q \in Request \ {r} : Stage(q)' = Stage(q),
           \/ Stage(r)' = Stage(r)
           \/ Stage(r) = "idle" /\ Stage(r)' = "waiting"
           \/ Stage(r) = "running" /\ Stage(r)' \in {"done", "waiting"}
           \/ Stage(r) = "waiting" /\ Stage(r)' = "done"
           \/ /\ Stage(r) = "waiting" /\ Stage(r)' = "running"
              /\ \A q \in Request : SessionOf[q] = SessionOf[r] => Stage(q) # "running"
    PROVE  [Runs!Next]_RunState
<1>1. RunState = [q \in Request |-> Stage(q)] /\ RunState' = [q \in Request |-> Stage(q)']
  BY StageSeen, StageSeenNext
<1> DEFINE new == Stage(r)'
<1>2. RunState' = [RunState EXCEPT ![r] = new]
  BY <1>1
<1>3. RunState' = [q \in Request |-> IF q \in {r} THEN new ELSE RunState[q]]
  BY <1>1
<1>4. RunState[r] = Stage(r)
  BY <1>1
<1>5. {r} \in SUBSET Request
  OBVIOUS
<1>6. CASE Stage(r)' = Stage(r)
  BY <1>1, <1>6
<1>7. CASE Stage(r) = "idle" /\ Stage(r)' = "waiting"
  BY <1>2, <1>4, <1>7 DEF Runs!Next, Runs!Submit
<1>8. CASE Stage(r) = "running" /\ Stage(r)' \in {"done", "waiting"}
  BY <1>2, <1>4, <1>8 DEF Runs!Next, Runs!End
<1>9. CASE Stage(r) = "waiting" /\ Stage(r)' = "done"
  <2>1. Runs!GiveUp({r})
    BY <1>3, <1>4, <1>9 DEF Runs!GiveUp
  <2> QED BY <1>5, <2>1 DEF Runs!Next
<1>10. CASE /\ Stage(r) = "waiting" /\ Stage(r)' = "running"
            /\ \A q \in Request : SessionOf[q] = SessionOf[r] => Stage(q) # "running"
  <2>1. Runs!Begin({r})
    BY <1>1, <1>3, <1>4, <1>10 DEF Runs!Begin
  <2> QED BY <1>5, <2>1 DEF Runs!Next
<1> QED BY <1>6, <1>7, <1>8, <1>9, <1>10

LEMMA AbstractGiveUp ==
    ASSUME Structure, RunsOK, Structure', RunsOK',
           \A q \in Request : Stage(q)' = Stage(q) \/ (Stage(q) = "waiting" /\ Stage(q)' = "done")
    PROVE  [Runs!Next]_RunState
<1>1. RunState = [q \in Request |-> Stage(q)] /\ RunState' = [q \in Request |-> Stage(q)']
  BY StageSeen, StageSeenNext
<1> DEFINE R == {q \in Request : Stage(q) = "waiting" /\ Stage(q)' = "done"}
<1>2. \A q \in Request : Stage(q)' = IF q \in R THEN "done" ELSE Stage(q)
  OBVIOUS
<1>3. R \in SUBSET Request /\ \A q \in R : RunState[q] = "waiting"
  BY <1>1
<1> HIDE DEF R
<1>4. RunState' = [q \in Request |-> IF q \in R THEN "done" ELSE RunState[q]]
  BY <1>1, <1>2
<1>5. Runs!GiveUp(R)
  BY <1>3, <1>4 DEF Runs!GiveUp
<1> QED BY <1>3, <1>5 DEF Runs!Next

(* Who neither moves nor loses its hook is seen where it was; a promoted   *)
(* waiter is seen waiting as before.                                       *)
LEMMA StageStays ==
    ASSUME NEW q \in Request,
           pc'[q] = pc[q] \/ (pc[q] = "waiting" /\ pc'[q] = "gates"),
           pc[q] = "sent" => (Current(q)' <=> Current(q))
    PROVE  Stage(q)' = Stage(q)
BY DEF Stage, Holding

(* The steps that leave every hook alone and give nothing back.            *)
LEMMA HooklessRefines ==
    ASSUME Structure, RunsOK, Structure', RunsOK', NEW r \in Request,
           \/ Start(r) \/ GatesAsked(r) \/ GatesFail(r) \/ DropBusy(r)
           \/ ClaimSlot(r) \/ JoinQueue(r) \/ OpenThrows(r) \/ MarkDispatched(r)
           \/ BeginSend(r) \/ Send(r) \/ GiveBack(r)
    PROVE  [Runs!Next]_RunState
<1>1. /\ \A q \in Request \ {r} : pc'[q] = pc[q]
      /\ hook' = hook /\ closing' = closing
  BY GuardTypes, GatesMoves DEF Start, GatesMove, GatesFail, DropBusy, ClaimSlot, JoinQueue, OpenThrows,
     MarkDispatched, BeginSend, Send, GiveBack, Goto
<1>2. \A q \in Request \ {r} : Stage(q)' = Stage(q)
  BY <1>1, StageStays DEF Current
<1>3. CASE \/ Start(r) \/ GatesAsked(r) \/ GatesFail(r) \/ DropBusy(r)
           \/ JoinQueue(r) \/ OpenThrows(r) \/ MarkDispatched(r) \/ BeginSend(r) \/ GiveBack(r)
  <2>1. \/ Stage(r)' = Stage(r)
        \/ Stage(r) = "idle" /\ Stage(r)' = "waiting"
        \/ Stage(r) = "waiting" /\ Stage(r)' = "done"
    BY <1>3, GuardTypes, GatesMoves
       DEF Start, GatesMove, GatesFail, AtCaps, DropBusy, JoinQueue, OpenThrows, MarkDispatched,
           BeginSend, GiveBack, Goto, Stage, Holding
  <2> QED BY <1>2, <2>1, AbstractStep
<1>4. CASE ClaimSlot(r)
  <2>1. Stage(r) = "waiting" /\ Stage(r)' = "running"
    BY <1>4, GuardTypes DEF ClaimSlot, Goto, Stage, Holding
  <2>2. InFlight(SessionOf[r]) = {}
    BY <1>4, SlotFreeMeansIdle, GuardTypes DEF ClaimSlot, Claim
  <2>3. \A q \in Request : SessionOf[q] = SessionOf[r] => Stage(q) # "running"
    BY <2>2 DEF InFlight, Stage, Current
  <2> QED BY <1>2, <2>1, <2>3, AbstractStep
<1>5. CASE Send(r)
  <2>1. pc[r] = "sending" /\ pc'[r] = "sent" /\ Current(r)'
    BY <1>1, <1>5, GuardTypes DEF Send, Goto, Current, RunsOK, ArmedOK, Armed
  <2>2. Stage(r) = "running" /\ Stage(r)' = "running"
    BY <2>1 DEF Stage, Holding
  <2> QED BY <1>2, <2>2, AbstractStep
<1> QED BY <1>3, <1>4, <1>5

(* The steps that arm or disarm a hook: they touch no other run's.         *)
LEMMA HookingRefines ==
    ASSUME Structure, RunsOK, Structure', RunsOK', NEW r \in Request,
           OpenRow(r) \/ FinalHaltCheck(r) \/ SendThrows(r)
    PROVE  [Runs!Next]_RunState
<1>1. /\ pc[r] \in Holding /\ pc'[r] \in Holding /\ closing' = closing
      /\ \A q \in Request \ {r} : pc'[q] = pc[q]
      /\ \A s \in Session \ {SessionOf[r]} : hook'[s] = hook[s]
      /\ hook'[SessionOf[r]] \in {r, None, hook[SessionOf[r]]}
  BY GuardTypes, RunTypes DEF OpenRow, FinalHaltCheck, SendThrows, Goto, Holding
<1>2. hook[SessionOf[r]] \in {r, None}
  <2>1. CASE pc[r] \in Armed
    BY <2>1 DEF RunsOK, ArmedOK
  <2>2. CASE pc[r] \notin Armed
    BY <1>1, <2>2, Unarmed
  <2> QED BY <2>1, <2>2
<1>3. ASSUME NEW q \in Request \ {r}
      PROVE  Current(q)' <=> Current(q)
  <2>1. CASE SessionOf[q] = SessionOf[r]
    BY <1>1, <1>2, <2>1 DEF Current
  <2>2. CASE SessionOf[q] # SessionOf[r]
    BY <1>1, <2>2, GuardTypes DEF Current
  <2> QED BY <2>1, <2>2
<1>4. \A q \in Request \ {r} : Stage(q)' = Stage(q)
  BY <1>1, <1>3, StageStays
<1>5. Stage(r)' = Stage(r)
  BY <1>1 DEF Stage, Holding
<1> QED BY <1>4, <1>5, AbstractStep

(* Who gives the slot back ends its run, for good or to be parked.         *)
LEMMA GivenBackRefines ==
    ASSUME Structure, RunsOK, Structure', RunsOK', NEW r \in Request,
           NEW p \in {"absorbed", "parked", "skipping", "threw", "failed"},
           pc[r] \in Holding, UNCHANGED <<hook, closing, clearSince>>,
           ReleaseAndPromote(SessionOf[r], [pc EXCEPT ![r] = p])
    PROVE  [Runs!Next]_RunState
<1>1. /\ pc'[r] = p
      /\ \A q \in Request \ {r} : Rests(q) \/ Promoted(q)
  <2>1. SessionOf[r] \in Session
    BY GuardTypes
  <2>2. ~Promoted(r)
    BY DEF Promoted, Holding
  <2> QED BY <2>1, <2>2, ReleaseMoves
<1>2. \A q \in Request \ {r} : Stage(q)' = Stage(q)
  BY <1>1, StageStays DEF Rests, Promoted, Current
<1>3. Stage(r) = "running" /\ Stage(r)' \in {"done", "waiting"}
  BY <1>1 DEF Stage, Holding
<1> QED BY <1>2, <1>3, AbstractStep

LEMMA GivingRefines ==
    ASSUME Structure, RunsOK, Structure', RunsOK', NEW r \in Request,
           \/ IsOnline(r) \/ PreEnsureCheck(r) \/ EnsureOnline(r)
           \/ PreSendGuard(r) \/ ReserveInject(r) \/ RethrowOpen(r) \/ Unwind(r)
    PROVE  [Runs!Next]_RunState
<1> DEFINE Gives(p) ==
             /\ UNCHANGED <<hook, closing, clearSince>>
             /\ ReleaseAndPromote(SessionOf[r], [pc EXCEPT ![r] = p])
           Goes(p) == Goto(r, p) /\ UNCHANGED <<hook, closing>>
<1>1. pc[r] \in Holding
  BY DEF IsOnline, PreEnsureCheck, EnsureOnline, PreSendGuard, ReserveInject, RethrowOpen, Unwind, Holding
<1>2. \/ \E p \in {"absorbed", "parked", "skipping", "threw", "failed"} : Gives(p)
      \/ \E p \in {"guard", "reserve", "open", "precheck", "ensure"} : Goes(p)
  BY DEF IsOnline, PreEnsureCheck, EnsureOnline, PreSendGuard, ReserveInject, RethrowOpen, Unwind, Refuse,
         FreeSlot, Park, PastOnline, PastHaltRead
<1>3. CASE \E p \in {"guard", "reserve", "open", "precheck", "ensure"} : Goes(p)
  <2>1. /\ pc'[r] \in Holding /\ \A q \in Request \ {r} : pc'[q] = pc[q]
        /\ UNCHANGED <<hook, closing>>
    BY <1>3, GuardTypes DEF Goto, Holding
  <2>2. \A q \in Request \ {r} : Stage(q)' = Stage(q)
    BY <2>1, StageStays DEF Current
  <2>3. Stage(r)' = Stage(r)
    BY <1>1, <2>1 DEF Stage, Holding
  <2> QED BY <2>2, <2>3, AbstractStep
<1> QED BY <1>1, <1>2, <1>3, GivenBackRefines

LEMMA SkippedRefines ==
    ASSUME Structure, RunsOK, Structure', RunsOK', NEW r \in Request, ReturnSkipped(r)
    PROVE  [Runs!Next]_RunState
<1>1. /\ pc[r] = "skipping" /\ UNCHANGED <<hook, closing, clearSince>>
      /\ \/ ReleaseAndPromote(SessionOf[r], [pc EXCEPT ![r] = "skipped"])
         \/ Goto(r, "skipped")
  BY DEF ReturnSkipped
<1>2. /\ pc'[r] = "skipped"
      /\ \A q \in Request \ {r} : pc'[q] = pc[q] \/ (pc[q] = "waiting" /\ pc'[q] = "gates")
  <2>1. CASE Goto(r, "skipped")
    BY <2>1, GuardTypes DEF Goto
  <2>2. CASE ReleaseAndPromote(SessionOf[r], [pc EXCEPT ![r] = "skipped"])
    BY <1>1, <2>2, ReleaseMoves, GuardTypes DEF Rests, Promoted
  <2> QED BY <1>1, <2>1, <2>2
<1>3. \A q \in Request \ {r} : Stage(q)' = Stage(q)
  BY <1>1, <1>2, StageStays DEF Current
<1>4. Stage(r)' = Stage(r)
  BY <1>1, <1>2 DEF Stage, Holding
<1> QED BY <1>3, <1>4, AbstractStep

(* A retry that takes its twin's place gives the twin up, one that finds   *)
(* its token in flight gives itself up.                                    *)
LEMMA TwinRefines ==
    ASSUME Structure, RunsOK, Structure', RunsOK', NEW r \in Request, JoinTwin(r)
    PROVE  [Runs!Next]_RunState
<1> DEFINE twin == ctx[SessionOf[r]][TokenOf[r]]
<1>1. pc[r] = "claim" /\ UNCHANGED <<hook, closing>>
  BY DEF JoinTwin
<1>2. twin \in Request => pc[twin] = "waiting"
  BY GuardTypes DEF Structure, CtxOK
<1>3. /\ pc'[r] \in {"waiting", "absorbed"}
      /\ \A q \in Request \ {r} : pc'[q] = pc[q] \/ (pc[q] = "waiting" /\ pc'[q] = "superseded")
  <2>1. CASE slot[SessionOf[r]] = TokenOf[r]
    BY <2>1, GuardTypes DEF JoinTwin, Goto
  <2>2. CASE slot[SessionOf[r]] # TokenOf[r]
    <3>1. pc' = [q \in Request |-> IF q = r THEN "waiting" ELSE IF q = twin THEN "superseded" ELSE pc[q]]
      BY <2>2 DEF JoinTwin
    <3> HIDE DEF twin
    <3> QED BY <1>2, <3>1
  <2> QED BY <2>1, <2>2
<1>4. ASSUME NEW q \in Request
      PROVE  Stage(q)' = Stage(q) \/ (Stage(q) = "waiting" /\ Stage(q)' = "done")
  BY <1>1, <1>3 DEF Stage, Current, Holding
<1> QED BY <1>4, AbstractGiveUp

(* A run ends: its hook is taken, which nobody sees, ...                   *)
LEMMA EndRunRefines ==
    ASSUME Structure, RunsOK, Structure', RunsOK', NEW s \in Session, EndRun(s)
    PROVE  [Runs!Next]_RunState
<1>1. /\ hook[s] # None /\ pc' = pc
      /\ closing' = closing \cup {hook[s]} /\ hook' = [hook EXCEPT ![s] = None]
  BY DEF EndRun, OnSessionReply, ReapTimedOutHook, ReleaseClosedRun, Releasable, TakeHook
<1>2. hook[s] \in Request /\ SessionOf[hook[s]] = s
  BY <1>1, RunTypes DEF RunsOK, HookOK
<1>3. ASSUME NEW q \in Request
      PROVE  Current(q)' <=> Current(q)
  <2>1. SessionOf[q] \in Session
    BY RunTypes
  <2>2. CASE q = hook[s]
    BY <1>1, <1>2, <2>2 DEF Current
  <2>3. CASE q # hook[s] /\ SessionOf[q] = s
    BY <1>1, <2>3, RunTypes, None \notin Request DEF Current
  <2>4. CASE SessionOf[q] # s
    BY <1>1, <1>2, <2>1, <2>4, RunTypes DEF Current
  <2> QED BY <2>2, <2>3, <2>4
<1>4. \A q \in Request : Stage(q)' = Stage(q)
  BY <1>1, <1>3, StageStays
<1> QED BY <1>4, AbstractGiveUp

(* ... and its end is stored, which frees the session.                     *)
LEMMA FinishRefines ==
    ASSUME Structure, RunsOK, Structure', RunsOK', NEW r \in Request, FinishClose(r)
    PROVE  [Runs!Next]_RunState
<1>1. /\ r \in closing /\ pc[r] = "sent" /\ hook' = hook /\ clearSince' = clearSince
      /\ closing' = closing \ {r}
  BY DEF FinishClose, RunsOK, ClosingOK
<1>2. ReleaseAndPromote(SessionOf[r], [pc EXCEPT ![r] = "closed"])
  BY <1>1 DEF FinishClose
<1>3. /\ pc'[r] = "closed"
      /\ \A q \in Request \ {r} : Rests(q) \/ Promoted(q)
  BY <1>1, <1>2, ReleaseMoves, GuardTypes DEF Promoted
<1>4. ASSUME NEW q \in Request \ {r} PROVE Stage(q)' = Stage(q)
  <2>1. pc'[q] = pc[q] \/ (pc[q] = "waiting" /\ pc'[q] = "gates")
    BY <1>3 DEF Rests, Promoted
  <2>2. Current(q)' <=> Current(q)
    BY <1>1 DEF Current
  <2> QED BY <2>1, <2>2, StageStays
<1>5. Stage(r) = "running" /\ Stage(r)' = "done"
  BY <1>1, <1>3 DEF Stage, Current, Holding
<1> QED BY <1>4, <1>5, AbstractStep

(* The grace buffer, the sockets and the flips: at most, parked requests   *)
(* are given up.                                                           *)
LEMMA WorldRefines ==
    ASSUME Structure, RunsOK, Structure', RunsOK',
           \/ \E s \in Session : Drain(s) \/ DrainLoop(s) \/ GraceLapse(s) \/ Connect(s) \/ Disconnect(s)
           \/ GraceSweep \/ CapFlip \/ KillSwitchFlip \/ UNCHANGED vars
    PROVE  [Runs!Next]_RunState
<1>1. UNCHANGED <<hook, closing>>
  BY DEF Drain, DrainLoop, DrainNext, DrainEnd, GraceLapse, Connect, Disconnect, GraceSweep, CapFlip,
         KillSwitchFlip, vars
<1>2. ASSUME NEW q \in Request
      PROVE  pc'[q] = pc[q] \/ (pc[q] = "parked" /\ pc'[q] \in {"gates", "expired"})
  <2>1. SessionOf[q] \in Session
    BY RunTypes
  <2>2. CASE CapFlip \/ KillSwitchFlip \/ UNCHANGED vars
    BY <2>2 DEF CapFlip, KillSwitchFlip, vars
  <2>3. CASE ~(CapFlip \/ KillSwitchFlip \/ UNCHANGED vars)
    BY <2>1, <2>3, OthersGuarded DEF Rests, Unparked
  <2> QED BY <2>2, <2>3
<1>3. ASSUME NEW q \in Request
      PROVE  Stage(q)' = Stage(q) \/ (Stage(q) = "waiting" /\ Stage(q)' = "done")
  BY <1>1, <1>2 DEF Stage, Current, Holding
<1> QED BY <1>3, AbstractGiveUp

LEMMA StepRefines ==
    ASSUME ~EarlyEvents, ~Hangs, Structure, RunsOK, Structure', RunsOK', [Next]_vars
    PROVE  [Runs!Next]_RunState
<1>1. ASSUME NEW r \in Request, Start(r) \/ Step(r) \/ GatesFail(r) \/ Hang(r) \/ FinishClose(r)
      PROVE  [Runs!Next]_RunState
  <2>1. ~Hang(r)
    BY DEF Hang
  <2> QED BY <1>1, <2>1, HooklessRefines, HookingRefines, GivingRefines, SkippedRefines, TwinRefines,
             FinishRefines DEF Step, GatesAsked
<1>2. ASSUME NEW s \in Session, EndRun(s) \/ StaleLockReap(s)
      PROVE  [Runs!Next]_RunState
  BY <1>2, EndRunRefines, NoStaleLock
<1> QED BY <1>1, <1>2, WorldRefines DEF Next

(* The pipeline keeps the promise of its header: seen from its callers,    *)
(* requests wait, run alone on their session, and are done.  It holds as   *)
(* long as no run ends before its prompt is sent and no awaited call       *)
(* hangs; otherwise a slot may be freed under a run that still needs it.   *)
THEOREM PipelineRefines == ~EarlyEvents /\ ~Hangs => (Spec => ImplementsOneRun)
<1> SUFFICES ASSUME ~EarlyEvents, ~Hangs PROVE Spec => ImplementsOneRun
  OBVIOUS
<1>1. Init => Runs!Init
  <2> SUFFICES ASSUME Init PROVE Runs!Init
    OBVIOUS
  <2>1. Structure /\ RunsOK
    BY StructureInit, RunsInductive
  <2>2. RunState = [q \in Request |-> "idle"]
    BY <2>1, StageSeen DEF Init, Stage
  <2> QED BY <2>2 DEF Runs!Init
<1>2. Spec => [](Structure /\ RunsOK)
  BY AlwaysStructure, RunsInductive, PTL DEF Spec
<1>3. Structure /\ RunsOK /\ Structure' /\ RunsOK' /\ [Next]_vars => [Runs!Next]_RunState
  BY StepRefines
<1> QED BY <1>1, <1>2, <1>3, PTL DEF Spec, ImplementsOneRun, Runs!Spec
=============================================================================
