--------------------------- MODULE OnceTaskProofs ---------------------------
(***************************************************************************)
(* Theorems about OnceTask, for any number of tasks, slots and hubs and    *)
(* any number of restarts, failing statements, manual runs and kill-switch *)
(* flips: the type invariant, one dispatch per claim, and that the kill    *)
(* switch burns no task but those of the agent sender.                     *)
(***************************************************************************)
EXTENDS OnceTask, TLAPS

USE SlotAssumption, KindAssumption, LimitAssumption

-----------------------------------------------------------------------------
(* Types.                                                                  *)

(* The part of TypeOK that is about one slot.                              *)
Fits(x) ==
    /\ x \in Activation
    /\ x.task = None <=> x.at = "idle"
    /\ x.claim => x.at \notin {"idle", "claiming"}
    /\ x.status # "none" <=>
          x.at \in {"marking", "sending", "restoring", "refusing", "waiting", "over"}
    /\ x.sent => x.at \in {"waiting", "over"}

LEMMA Slots == TypeOK <=> /\ row \in [Task -> Row]
                          /\ act = [f \in Slot |-> act[f]] /\ \A f \in Slot : Fits(act[f])
                          /\ halted \in BOOLEAN /\ used \in [Event -> Nat]
BY DEF TypeOK, Fits

LEMMA SpendOK ==
    ASSUME used \in [Event -> Nat], NEW e \in Event, Spend(e)
    PROVE  used' \in [Event -> Nat]
BY DEF Spend

LEMMA InitType == Init => TypeOK
<1>1. Unused \in Activation
  BY DEF Activation, Unused, Place, Status, Active
<1>2. [Task -> [kind : Kinds, enabled : {TRUE}, claimed : {FALSE}]] \subseteq [Task -> Row]
  BY DEF Row
<1>3. Fits(Unused)
  BY <1>1 DEF Unused, Fits
<1>4. ASSUME Init PROVE used \in [Event -> Nat] /\ halted \in BOOLEAN
  BY <1>4 DEF Init
<1>5. ASSUME Init PROVE row \in [Task -> Row]
  BY <1>2, <1>5 DEF Init
<1>6. ASSUME Init PROVE act = [f \in Slot |-> Unused]
  BY <1>6 DEF Init
<1> QED BY <1>3, <1>4, <1>5, <1>6, Slots

(* A slot whose run ends, in whichever way, fits.                          *)
LEMMA EndedFits ==
    ASSUME NEW x, Fits(x), x.status # "none", NEW s \in Status \ {"none"}
    PROVE  /\ Fits(Finalized(x, s)) /\ Fits(FinalizedIfActive(x, s))
           /\ Fits([Finalized(x, s) EXCEPT !.at = "over"])
           /\ Fits([FinalizedIfActive(x, s) EXCEPT !.at = "over"])
<1>1. Fits(Finalized(x, s)) /\ Fits([Finalized(x, s) EXCEPT !.at = "over"])
  BY DEF Fits, Finalized, Activation, Place
<1>2. Fits([x EXCEPT !.at = "over"])
  BY DEF Fits, Activation, Place
<1> QED BY <1>1, <1>2 DEF FinalizedIfActive

LEMMA DroppedFits ==
    ASSUME NEW x, Fits(x)
    PROVE  Fits(Dropped(x))
BY DEF Fits, Dropped, Activation, Place, Status, Active, Unused

(* A step that changes one slot and keeps the rows of the tasks in type.   *)
LEMMA OneSlot ==
    ASSUME TypeOK, NEW f \in Slot, NEW x, Fits(x), act' = [act EXCEPT ![f] = x],
           row' \in [Task -> Row], halted' \in BOOLEAN, used' \in [Event -> Nat]
    PROVE  TypeOK'
BY DEF TypeOK, Fits

(* What claiming and firing do to a slot.                                  *)
LEMMA FireFits ==
    ASSUME TypeOK, NEW f \in Slot,
           \/ \E t \in Task : Begin(f, t) \/ RunNow(f, t)
           \/ Claim(f) \/ ClaimFails(f) \/ HaltCheck(f) \/ Gate(f) \/ GateThrows(f)
    PROVE  TypeOK'
<1> DEFINE a == act[f]
<1>1. Fits(a) /\ act[f] \in Activation
  BY DEF TypeOK, Fits
<1>2. Fits(Unused)
  BY DEF Fits, Unused, Activation, Place, Status, Active
<1>3. CASE \E t \in Task : Begin(f, t) \/ RunNow(f, t)
  <2>1. PICK t \in Task : Begin(f, t) \/ RunNow(f, t)
    BY <1>3
  <2>2. CASE Begin(f, t)
    <3>1. Fits([[a EXCEPT !.at = "claiming"] EXCEPT !.task = t])
      BY <1>1, <2>2 DEF Begin, Fits, Activation, Place
    <3>2. used' \in [Event -> Nat]
      BY <2>2 DEF Begin, TypeOK
    <3>3. act' = [act EXCEPT ![f] = [[a EXCEPT !.at = "claiming"] EXCEPT !.task = t]]
      BY <2>2 DEF Begin
    <3>4. row' \in [Task -> Row] /\ halted' \in BOOLEAN
      BY <2>2 DEF Begin, TypeOK
    <3> QED BY <3>1, <3>2, <3>3, <3>4, OneSlot
  <2>3. CASE RunNow(f, t)
    <3>1. Fits([[a EXCEPT !.at = "firing"] EXCEPT !.task = t])
      BY <1>1, <2>3 DEF RunNow, Fits, Activation, Place
    <3>2. used' \in [Event -> Nat]
      BY <2>3, SpendOK DEF RunNow, Event, TypeOK
    <3>3. act' = [act EXCEPT ![f] = [[a EXCEPT !.at = "firing"] EXCEPT !.task = t]]
      BY <2>3 DEF RunNow
    <3>4. row' \in [Task -> Row] /\ halted' \in BOOLEAN
      BY <2>3 DEF RunNow, TypeOK
    <3> QED BY <3>1, <3>2, <3>3, <3>4, OneSlot
  <2> QED BY <2>1, <2>2, <2>3
<1>4. CASE Claim(f)
  <2>1. CASE Claimable(a.task)
    <3>1. Fits([[a EXCEPT !.at = "firing"] EXCEPT !.claim = TRUE])
      BY <1>1, <1>4 DEF Claim, Fits, Activation, Place
    <3>2. a.task \in Task
      BY <1>1, <1>4 DEF Claim, Fits, Activation
    <3>3. Taken(row[a.task]) \in Row
      <4>1. row[a.task] \in Row
        BY <3>2 DEF TypeOK
      <4> QED BY <4>1 DEF Taken, Row
    <3>4. row' \in [Task -> Row]
      BY <1>4, <2>1, <3>3 DEF Claim, TypeOK
    <3>5. /\ act' = [act EXCEPT ![f] = [[a EXCEPT !.at = "firing"] EXCEPT !.claim = TRUE]]
          /\ halted' \in BOOLEAN /\ used' \in [Event -> Nat]
      BY <1>4, <2>1 DEF Claim, TypeOK
    <3> QED BY <3>1, <3>4, <3>5, OneSlot
  <2>2. CASE ~Claimable(a.task)
    BY <1>2, <1>4, <2>2, OneSlot DEF Claim, TypeOK
  <2> QED BY <2>1, <2>2
<1>5. CASE ClaimFails(f)
  <2>1. used' \in [Event -> Nat]
    BY <1>5, SpendOK DEF ClaimFails, Event, TypeOK
  <2> QED BY <1>2, <1>5, <2>1, OneSlot DEF ClaimFails, TypeOK
<1>6. CASE HaltCheck(f)
  <2>1. Fits([a EXCEPT !.at = "gating"]) /\ Fits([a EXCEPT !.at = "rearming"])
    BY <1>1, <1>6 DEF HaltCheck, Fits, Activation, Place
  <2>2. Fits(Recorded(a, "halted"))
    BY <1>1, <1>6 DEF HaltCheck, Recorded, Fits, Activation, Place, Status
  <2> QED BY <1>6, <2>1, <2>2, OneSlot DEF HaltCheck, TypeOK
<1>7. CASE Gate(f)
  <2>1. Fits(Recorded(a, "skipped"))
    BY <1>1, <1>7 DEF Gate, Recorded, Fits, Activation, Place, Status
  <2>2. \A w \in {"marking", "sending"} : Fits([[a EXCEPT !.status = "pending"] EXCEPT !.at = w])
    BY <1>1, <1>7 DEF Gate, Fits, Activation, Place, Status, Active
  <2>3. row' \in [Task -> Row] /\ halted' \in BOOLEAN /\ used' \in [Event -> Nat]
    BY <1>7 DEF Gate, TypeOK
  <2>4. \/ act' = [act EXCEPT ![f] = Recorded(a, "skipped")]
        \/ \E w \in {"marking", "sending"} :
              act' = [act EXCEPT ![f] = [[a EXCEPT !.status = "pending"] EXCEPT !.at = w]]
    BY <1>7 DEF Gate
  <2> QED BY <2>1, <2>2, <2>3, <2>4, OneSlot
<1>8. CASE GateThrows(f)
  <2>1. Fits([a EXCEPT !.at = "lost"])
    BY <1>1, <1>8 DEF GateThrows, Fits, Activation, Place
  <2>2. used' \in [Event -> Nat]
    BY <1>8, SpendOK DEF GateThrows, Event, TypeOK
  <2> QED BY <1>2, <1>8, <2>1, <2>2, OneSlot DEF GateThrows, TypeOK
<1> QED BY <1>3, <1>4, <1>5, <1>6, <1>7, <1>8

(* A rearm leaves the rows and the budget in type.                         *)
LEMMA RearmTypes ==
    ASSUME TypeOK, NEW t \in Task, RearmOnce(t) \/ RearmFails(t)
    PROVE  row' \in [Task -> Row] /\ used' \in [Event -> Nat]
<1>1. Rearmed(row[t]) \in Row
  BY DEF Rearmed, TypeOK, Row
<1> QED BY <1>1, SpendOK DEF RearmOnce, RearmFails, Event, TypeOK

(* ... and so do the senders, the kill switch's refusals among them.       *)
LEMMA SendFits ==
    ASSUME TypeOK, NEW f \in Slot,
           \/ Rearm(f) \/ Mark(f) \/ SendFails(f) \/ SendThrows(f) \/ Send(f)
           \/ SendRefused(f) \/ Restore(f) \/ Refuse(f) \/ Reply(f)
    PROVE  TypeOK'
<1> DEFINE a == act[f]
<1>1. Fits(a)
  BY DEF TypeOK, Fits
<1>2. Fits(Unused)
  BY DEF Fits, Unused, Activation, Place, Status, Active
<1>3. a.task \in Task
  BY <1>1 DEF Rearm, Mark, SendFails, SendThrows, Send, SendRefused, Restore, Refuse, Reply,
     Fits, Activation
<1>4. ASSUME NEW s \in {"failed", "skipped", "success", "halted"}, a.status # "none"
      PROVE  Fits(Ended(f, s)) /\ Fits([Finalized(a, s) EXCEPT !.at = "over"])
  <2>1. s \in Status \ {"none"}
    BY DEF Status
  <2> QED BY <1>1, <1>4, <2>1, EndedFits DEF Ended
<1>5. CASE Rearm(f)
  <2>1. Fits([Recorded(a, "halted") EXCEPT !.kept = TRUE])
    BY <1>1, <1>5 DEF Rearm, Recorded, Fits, Activation, Place, Status
  <2> QED BY <1>2, <1>3, <1>5, <2>1, RearmTypes, OneSlot DEF Rearm, TypeOK
<1>6. CASE Mark(f)
  <2>1. Fits([[a EXCEPT !.status = "in_flight"] EXCEPT !.at = "sending"])
        /\ Fits([a EXCEPT !.at = "sending"])
    BY <1>1, <1>6 DEF Mark, Fits, Activation, Place, Status, Active
  <2>2. used' \in [Event -> Nat]
    BY <1>6, SpendOK DEF Mark, Event, TypeOK
  <2>3. PICK x \in {[[a EXCEPT !.status = "in_flight"] EXCEPT !.at = "sending"],
                    [a EXCEPT !.at = "sending"]} : act' = [act EXCEPT ![f] = x]
    BY <1>6 DEF Mark
  <2>4. Fits(x) /\ row' \in [Task -> Row] /\ halted' \in BOOLEAN
    BY <1>6, <2>1 DEF Mark, TypeOK
  <2> QED BY <2>2, <2>3, <2>4, OneSlot
<1>7. CASE SendFails(f)
  <2>1. a.status # "none"
    BY <1>1, <1>7 DEF SendFails, Fits
  <2> QED BY <1>4, <1>7, <2>1, OneSlot DEF SendFails, TypeOK
<1>8. CASE SendThrows(f)
  <2>1. a.status # "none"
    BY <1>1, <1>8 DEF SendThrows, Fits
  <2>2. used' \in [Event -> Nat]
    BY <1>8, SpendOK DEF SendThrows, Event, TypeOK
  <2> QED BY <1>4, <1>8, <2>1, <2>2, OneSlot DEF SendThrows, TypeOK
<1>9. CASE Send(f)
  <2>1. a.status # "none"
    BY <1>1, <1>9 DEF Send, Fits
  <2>2. Fits(Ended(f, "success")) /\ Ended(f, "success").at = "over"
    BY <1>4, <2>1 DEF Ended, Finalized, FinalizedIfActive, Fits, Activation
  <2>3. Fits([Ended(f, "success") EXCEPT !.sent = TRUE])
    BY <2>2 DEF Fits, Activation
  <2>4. Fits([[a EXCEPT !.at = "waiting"] EXCEPT !.sent = TRUE])
    BY <1>1, <1>9 DEF Send, Fits, Activation, Place
  <2> QED BY <1>9, <2>3, <2>4, OneSlot DEF Send, TypeOK
<1>10. CASE SendRefused(f)
  <2>1. a.status # "none" /\ Fits([a EXCEPT !.at = "restoring"])
    BY <1>1, <1>10 DEF SendRefused, Fits, Activation, Place
  <2> QED BY <1>4, <1>10, <2>1, OneSlot DEF SendRefused, TypeOK
<1>11. CASE Restore(f)
  <2>1. /\ Fits([a EXCEPT !.at = "refusing"])
        /\ Fits([[a EXCEPT !.at = "refusing"] EXCEPT !.kept = TRUE])
    BY <1>1, <1>11 DEF Restore, Fits, Activation, Place
  <2> QED BY <1>3, <1>11, <2>1, RearmTypes, OneSlot DEF Restore, TypeOK
<1>12. CASE Refuse(f)
  <2>1. a.status # "none"
    BY <1>1, <1>12 DEF Refuse, Fits
  <2> QED BY <1>4, <1>12, <2>1, OneSlot DEF Refuse, TypeOK
<1>13. CASE Reply(f)
  <2>1. a.status # "none"
    BY <1>1, <1>13 DEF Reply, Fits
  <2> QED BY <1>4, <1>13, <2>1, OneSlot DEF Reply, TypeOK
<1> QED BY <1>5, <1>6, <1>7, <1>8, <1>9, <1>10, <1>11, <1>12, <1>13

LEMMA OtherFits ==
    ASSUME TypeOK, \/ \E f \in Slot : Reap(f) \/ Cancel(f)
                   \/ Engage \/ Release \/ \E h \in Hub : Crash(h)
    PROVE  TypeOK'
<1>1. \A f \in Slot : Fits(act[f])
  BY DEF TypeOK, Fits
<1>2. ASSUME NEW f \in Slot, Reap(f) \/ Cancel(f) PROVE TypeOK'
  <2>1. "failed" \in Status \ {"none"} /\ "cancelled" \in Status \ {"none"}
    BY DEF Status
  <2>2. CASE Reap(f)
    <3>1. Fits(FinalizedIfActive(act[f], "failed"))
      BY <1>1, <2>1, <2>2, EndedFits DEF Reap
    <3> QED BY <2>2, <3>1, OneSlot DEF Reap, TypeOK
  <2>3. CASE Cancel(f)
    <3>1. Fits(Finalized(act[f], "cancelled"))
      BY <1>1, <2>1, <2>3, EndedFits DEF Cancel, HasRun
    <3>2. used' \in [Event -> Nat]
      BY <2>3, SpendOK DEF Cancel, Event, TypeOK
    <3> QED BY <2>3, <3>1, <3>2, OneSlot DEF Cancel, TypeOK
  <2> QED BY <1>2, <2>2, <2>3
<1>3. CASE Engage \/ Release
  BY <1>3, SpendOK DEF Engage, Release, Event, TypeOK
<1>4. ASSUME NEW h \in Hub, Crash(h) PROVE TypeOK'
  <2>1. \A f \in Slot : Fits(IF HubOf[f] = h THEN Dropped(act[f]) ELSE act[f])
    BY <1>1, DroppedFits
  <2>2. used' \in [Event -> Nat]
    BY <1>4, SpendOK DEF Crash, Event, TypeOK
  <2>3. act' = [f \in Slot |-> act'[f]] /\ \A f \in Slot : Fits(act'[f])
    BY <1>4, <2>1 DEF Crash
  <2>4. \A f \in Slot : act'[f] \in Activation
    BY <2>3 DEF Fits
  <2> QED BY <1>4, <2>2, <2>3, <2>4 DEF Crash, TypeOK, Fits
<1> QED BY <1>2, <1>3, <1>4

LEMMA TypeStep == TypeOK /\ [Next]_vars => TypeOK'
<1>1. TypeOK /\ UNCHANGED vars => TypeOK'
  BY DEF TypeOK, vars
<1>2. TypeOK /\ Next => TypeOK'
  BY FireFits, SendFits, OtherFits DEF Next, Step
<1> QED BY <1>1, <1>2

(* Every slot holds what fits the place where its activation stands.       *)
THEOREM TypeCorrect == Spec => []TypeOK
BY InitType, TypeStep, PTL DEF Spec

-----------------------------------------------------------------------------
(* One dispatch per claim.                                                 *)

(* An activation that won a claim and may still send, or has sent.         *)
MaySend(f) ==
    /\ act[f].claim
    /\ \/ act[f].sent
       \/ act[f].at \in {"firing", "rearming", "gating", "marking", "sending", "restoring"}

(* While there is one the row is disabled and there is no second one; and  *)
(* only a claim is given back.                                             *)
ClaimInv ==
    /\ \A f \in Slot : MaySend(f) => ~row[act[f].task].enabled
    /\ \A f, g \in Slot : MaySend(f) /\ MaySend(g) /\ act[f].task = act[g].task => f = g
    /\ \A f \in Slot : act[f].at \in {"rearming", "restoring"} => act[f].claim /\ ~act[f].sent

LEMMA InitClaimInv == Init => ClaimInv
BY DEF Init, ClaimInv, MaySend, Unused

(* A step that neither claims nor rearms: no activation comes to send that *)
(* could not before.                                                       *)
LEMMA QuietClaim ==
    ASSUME ClaimInv, row' = row,
           \A f \in Slot :
              /\ MaySend(f)' => MaySend(f) /\ act'[f].task = act[f].task
              /\ act'[f].at \in {"rearming", "restoring"} => act'[f].claim /\ ~act'[f].sent
    PROVE  ClaimInv'
BY DEF ClaimInv

LEMMA ClaimStep ==
    ASSUME TypeOK, ClaimInv, NEW f \in Slot, Claim(f)
    PROVE  ClaimInv'
<1> DEFINE t == act[f].task
<1>1. t \in Task /\ ~act[f].claim /\ ~act[f].sent
  BY DEF Claim, TypeOK, Activation
<1>2. CASE Claimable(t)
  <2>1. /\ act' = [act EXCEPT ![f].at = "firing", ![f].claim = TRUE]
        /\ row' = [row EXCEPT ![t] = Taken(@)]
    BY <1>2 DEF Claim
  <2>2. ~row'[t].enabled /\ \A u \in Task : ~row[u].enabled => ~row'[u].enabled
    BY <1>1, <2>1 DEF Taken, TypeOK, Row
  <2>3. \A g \in Slot : MaySend(g) => act[g].task # t
    BY <1>2 DEF Claimable, ClaimInv
  <2>4. \A g \in Slot \ {f} : act'[g] = act[g] /\ (MaySend(g)' <=> MaySend(g))
    BY <2>1 DEF TypeOK, MaySend
  <2>5. act'[f].task = t /\ act'[f].at = "firing"
    BY <2>1 DEF TypeOK, Activation
  <2>6. \A g \in Slot : MaySend(g)' => act[g].task \in Task
    BY <1>1, <2>4 DEF TypeOK, Activation, MaySend
  <2> QED BY <1>1, <2>2, <2>3, <2>4, <2>5, <2>6 DEF ClaimInv
<1>3. CASE ~Claimable(t)
  BY <1>3, QuietClaim DEF Claim, MaySend, TypeOK, Unused, ClaimInv
<1> QED BY <1>2, <1>3

LEMMA RearmStep ==
    ASSUME TypeOK, ClaimInv, NEW f \in Slot, Rearm(f) \/ Restore(f)
    PROVE  ClaimInv'
<1> DEFINE t == act[f].task
<1>1. MaySend(f) /\ ~act[f].sent /\ t \in Task
  BY DEF ClaimInv, MaySend, Rearm, Restore, TypeOK, Activation
<1>2. \A g \in Slot : g # f => act'[g] = act[g]
  BY DEF Rearm, Restore, TypeOK
<1>3. ~act'[f].sent /\ act'[f].at \in {"idle", "over", "refusing"}
  <2>1. act[f] \in Activation
    BY DEF TypeOK
  <2>2. /\ [Recorded(act[f], "halted") EXCEPT !.kept = TRUE].at = "over"
        /\ [Recorded(act[f], "halted") EXCEPT !.kept = TRUE].sent = act[f].sent
    BY <2>1 DEF Recorded, Activation
  <2>3. CASE Rearm(f)
    <3>1. act'[f] = Unused \/ act'[f] = [Recorded(act[f], "halted") EXCEPT !.kept = TRUE]
      BY <2>3 DEF Rearm, TypeOK
    <3>2. Unused.at = "idle" /\ ~Unused.sent
      BY DEF Unused
    <3> QED BY <1>1, <2>2, <3>1, <3>2
  <2>4. CASE Restore(f)
    BY <1>1, <2>1, <2>4 DEF Restore, TypeOK, Activation
  <2> QED BY <2>3, <2>4
<1>4. \A g \in Slot : MaySend(g)' => g # f /\ MaySend(g) /\ act'[g] = act[g]
  <2>1. ~MaySend(f)'
    BY <1>3 DEF MaySend
  <2> QED BY <1>2, <2>1 DEF MaySend
<1>5. \A u \in Task : u # t => row'[u] = row[u]
  BY DEF Rearm, Restore, RearmOnce, RearmFails, TypeOK
<1>6. \A g \in Slot : MaySend(g)' => act[g].task # t /\ act[g].task \in Task
  BY <1>1, <1>4 DEF ClaimInv, TypeOK, Activation, MaySend
<1> QED BY <1>2, <1>3, <1>4, <1>5, <1>6 DEF ClaimInv

(* A slot that takes a value from which it may send only if it might       *)
(* before.                                                                 *)
Sends(x) ==
    /\ x.claim
    /\ \/ x.sent
       \/ x.at \in {"firing", "rearming", "gating", "marking", "sending", "restoring"}
Tame(a, x) ==
    /\ Sends(x) => Sends(a) /\ x.task = a.task
    /\ x.at \in {"rearming", "restoring"} => x.claim /\ ~x.sent

LEMMA TameSlot ==
    ASSUME TypeOK, ClaimInv, NEW f \in Slot, NEW x, Tame(act[f], x),
           act' = [act EXCEPT ![f] = x], row' = row
    PROVE  ClaimInv'
<1>1. act'[f] = x /\ \A g \in Slot : g # f => act'[g] = act[g]
  BY DEF TypeOK
<1>2. \A g \in Slot : Tame(act[g], act'[g])
  BY <1>1 DEF Tame, ClaimInv
<1> QED BY <1>2, QuietClaim DEF Tame, Sends, MaySend

LEMMA EndedTame ==
    ASSUME NEW x \in Activation, NEW s
    PROVE  /\ Tame(x, [Finalized(x, s) EXCEPT !.at = "over"])
           /\ Tame(x, [FinalizedIfActive(x, s) EXCEPT !.at = "over"])
           /\ Tame(x, Recorded(x, s))
           /\ [Finalized(x, s) EXCEPT !.at = "over"].claim = x.claim
           /\ [FinalizedIfActive(x, s) EXCEPT !.at = "over"].claim = x.claim
BY DEF Tame, Sends, Finalized, FinalizedIfActive, Recorded, Activation

(* The other steps of a slot.                                              *)
LEMMA WorkStep ==
    ASSUME TypeOK, ClaimInv, NEW f \in Slot,
           \/ \E t \in Task : Begin(f, t) \/ RunNow(f, t)
           \/ ClaimFails(f) \/ HaltCheck(f) \/ Gate(f) \/ GateThrows(f) \/ Mark(f)
           \/ SendFails(f) \/ SendThrows(f) \/ Send(f) \/ SendRefused(f) \/ Refuse(f)
           \/ Reply(f) \/ Reap(f) \/ Cancel(f)
    PROVE  ClaimInv'
<1> DEFINE a == act[f]
<1>1. /\ a \in Activation
      /\ a.claim => a.at \notin {"idle", "claiming"}
      /\ a.sent => a.at \in {"waiting", "over"}
      /\ a.at \in {"rearming", "restoring"} => a.claim /\ ~a.sent
  BY DEF TypeOK, ClaimInv
<1>2. \A s : Tame(a, Ended(f, s)) /\ Tame(a, [Finalized(a, s) EXCEPT !.at = "over"])
              /\ Tame(a, Recorded(a, s))
  BY <1>1, EndedTame DEF Ended
<1>3. \A s : Tame(a, Finalized(a, s)) /\ Tame(a, FinalizedIfActive(a, s))
  BY <1>1 DEF Tame, Sends, Finalized, FinalizedIfActive, Activation
<1>4. Tame(a, Unused)
  BY DEF Tame, Sends, Unused
<1>5. CASE \E t \in Task : Begin(f, t) \/ RunNow(f, t)
  <2>1. PICK t \in Task : Begin(f, t) \/ RunNow(f, t)
    BY <1>5
  <2>2. \A w \in {"claiming", "firing"} :
           a.at = "idle" => Tame(a, [[a EXCEPT !.at = w] EXCEPT !.task = t])
    BY <1>1 DEF Tame, Sends, Activation
  <2>3. /\ a.at = "idle" /\ row' = row
        /\ \E w \in {"claiming", "firing"} :
              act' = [act EXCEPT ![f] = [[a EXCEPT !.at = w] EXCEPT !.task = t]]
    <3>1. CASE Begin(f, t)
      BY <3>1 DEF Begin
    <3>2. CASE RunNow(f, t)
      BY <3>2 DEF RunNow
    <3> QED BY <2>1, <3>1, <3>2
  <2>4. PICK w \in {"claiming", "firing"} :
              act' = [act EXCEPT ![f] = [[a EXCEPT !.at = w] EXCEPT !.task = t]]
    BY <2>3
  <2>5. Tame(act[f], [[a EXCEPT !.at = w] EXCEPT !.task = t])
    BY <2>2, <2>3
  <2> QED BY <2>3, <2>4, <2>5, TameSlot
<1>6. CASE ClaimFails(f)
  BY <1>4, <1>6, TameSlot DEF ClaimFails
<1>7. CASE HaltCheck(f)
  <2>1. /\ Tame(a, [a EXCEPT !.at = "gating"])
        /\ MayRearm(f) => Tame(a, [a EXCEPT !.at = "rearming"])
    BY <1>1, <1>7 DEF HaltCheck, MayRearm, Tame, Sends, Activation
  <2> QED BY <1>2, <1>7, <2>1, TameSlot DEF HaltCheck
<1>8. CASE Gate(f)
  <2>1. \A w \in {"marking", "sending"} :
           Tame(a, [[a EXCEPT !.status = "pending"] EXCEPT !.at = w])
    BY <1>1, <1>8 DEF Gate, Tame, Sends, Activation
  <2>2. \/ act' = [act EXCEPT ![f] = Recorded(a, "skipped")]
        \/ \E w \in {"marking", "sending"} :
              act' = [act EXCEPT ![f] = [[a EXCEPT !.status = "pending"] EXCEPT !.at = w]]
    BY <1>8 DEF Gate
  <2>3. row' = row
    BY <1>8 DEF Gate
  <2> QED BY <1>2, <2>1, <2>2, <2>3, TameSlot
<1>9. CASE GateThrows(f)
  <2>1. Tame(a, [a EXCEPT !.at = "lost"])
    BY <1>1 DEF Tame, Sends, Activation
  <2> QED BY <1>4, <1>9, <2>1, TameSlot DEF GateThrows
<1>10. CASE Mark(f)
  <2>1. /\ Tame(a, [[a EXCEPT !.status = "in_flight"] EXCEPT !.at = "sending"])
        /\ Tame(a, [a EXCEPT !.at = "sending"])
    BY <1>1, <1>10 DEF Mark, Tame, Sends, Activation
  <2>2. PICK x \in {[[a EXCEPT !.status = "in_flight"] EXCEPT !.at = "sending"],
                    [a EXCEPT !.at = "sending"]} : act' = [act EXCEPT ![f] = x]
    BY <1>10 DEF Mark
  <2>3. Tame(act[f], x) /\ row' = row
    BY <1>10, <2>1 DEF Mark
  <2> QED BY <2>2, <2>3, TameSlot
<1>11. CASE SendFails(f) \/ SendThrows(f) \/ Refuse(f) \/ Reply(f)
  BY <1>2, <1>11, TameSlot DEF SendFails, SendThrows, Refuse, Reply
<1>12. CASE Send(f)
  <2>1. Tame(a, [[a EXCEPT !.at = "waiting"] EXCEPT !.sent = TRUE])
    BY <1>1, <1>12 DEF Send, Tame, Sends, Activation
  <2>2. Tame(a, [Ended(f, "success") EXCEPT !.sent = TRUE])
    BY <1>1, <1>12 DEF Send, Ended, Finalized, FinalizedIfActive, Tame, Sends, Activation
  <2> QED BY <1>12, <2>1, <2>2, TameSlot DEF Send
<1>13. CASE SendRefused(f)
  <2>1. Restores(f) => Tame(a, [a EXCEPT !.at = "restoring"])
    BY <1>1, <1>13 DEF SendRefused, Restores, MayRearm, Tame, Sends, Activation
  <2> QED BY <1>2, <1>13, <2>1, TameSlot DEF SendRefused
<1>14. CASE Reap(f) \/ Cancel(f)
  BY <1>3, <1>14, TameSlot DEF Reap, Cancel
<1> QED BY <1>5, <1>6, <1>7, <1>8, <1>9, <1>10, <1>11, <1>12, <1>13, <1>14

LEMMA ClaimInvStep == TypeOK /\ ClaimInv /\ [Next]_vars => ClaimInv'
<1> SUFFICES ASSUME TypeOK, ClaimInv, [Next]_vars PROVE ClaimInv'
  OBVIOUS
<1>1. CASE UNCHANGED <<row, act>>
  BY <1>1 DEF ClaimInv, MaySend
<1>2. ASSUME NEW h \in Hub, Crash(h) PROVE ClaimInv'
  <2>1. \A f \in Slot : Tame(act[f], Dropped(act[f]))
    BY DEF TypeOK, Activation, Tame, Sends, Dropped, Unused
  <2>2. \A f \in Slot : Tame(act[f], act'[f])
    BY <1>2, <2>1 DEF Crash, ClaimInv, Tame
  <2> QED BY <1>2, <2>2, QuietClaim DEF Crash, Tame, Sends, MaySend
<1>3. CASE Next
  BY <1>1, <1>2, <1>3, ClaimStep, RearmStep, WorkStep DEF Next, Step, Engage, Release
<1> QED BY <1>1, <1>3 DEF vars

(* One claim is dispatched once, in any number of hubs.                    *)
THEOREM OnceDispatchedOnce == Spec => []DispatchedOnce
<1>1. ClaimInv => DispatchedOnce
  BY DEF ClaimInv, MaySend, DispatchedOnce
<1> QED BY <1>1, InitType, InitClaimInv, TypeStep, ClaimInvStep, PTL DEF Spec

-----------------------------------------------------------------------------
(* The kill switch burns no task.                                          *)

(* An activation that has won its task's claim and has not been refused,   *)
(* or has been and could not give the claim back.                          *)
Holds(x) ==
    /\ x.claim
    /\ \/ x.at \notin {"refusing", "over"}
       \/ x.sent \/ x.kept
       \/ x.at = "over" /\ x.status # "halted"
(* The agent's sender gives no claim back: its tasks are left out.          *)
Spared(t) == row[t].kind # "session"
BurnInv ==
    /\ \A t \in Task : Spared(t) /\ ~row[t].enabled => \E f \in Slot : act[f].task = t /\ Holds(act[f])
    /\ \A f \in Slot : act[f].status = "halted" => act[f].at = "over"
    /\ \A f \in Slot : act[f].at = "refusing" => act[f].claim

LEMMA InitBurnInv == Init => BurnInv
<1> SUFFICES ASSUME Init PROVE BurnInv
  OBVIOUS
<1>1. \A t \in Task : row[t].enabled
  <2>1. row \in [Task -> [kind : Kinds, enabled : {TRUE}, claimed : {FALSE}]]
    BY DEF Init
  <2> QED BY <2>1
<1>2. \A f \in Slot : act[f].status = "none" /\ act[f].at = "idle"
  BY DEF Init, Unused
<1> QED BY <1>1, <1>2 DEF BurnInv

(* A value that a slot may take without a rearm.                           *)
AgentTask(x) == x.task \in Task /\ ~Spared(x.task)
Faithful(a, x) ==
    /\ Holds(a) => AgentTask(a) \/ (Holds(x) /\ x.task = a.task)
    /\ x.status = "halted" => x.at = "over"
    /\ x.at = "refusing" => x.claim

LEMMA FaithfulStep ==
    ASSUME TypeOK, BurnInv, row' = row, \A f \in Slot : Faithful(act[f], act'[f])
    PROVE  BurnInv'
BY DEF BurnInv, Faithful, AgentTask, Spared

LEMMA FaithfulSlot ==
    ASSUME TypeOK, BurnInv, NEW f \in Slot, NEW x, Faithful(act[f], x),
           act' = [act EXCEPT ![f] = x], row' = row
    PROVE  BurnInv'
<1>1. act'[f] = x /\ \A g \in Slot : g # f => act'[g] = act[g]
  BY DEF TypeOK
<1>2. \A g \in Slot : Faithful(act[g], act'[g])
  BY <1>1 DEF Faithful, BurnInv
<1> QED BY <1>2, FaithfulStep

LEMMA ClaimBurn ==
    ASSUME TypeOK, BurnInv, NEW f \in Slot, Claim(f)
    PROVE  BurnInv'
<1> DEFINE t == act[f].task
<1>1. t \in Task /\ act[f] \in Activation /\ act[f].at = "claiming" /\ ~act[f].claim
  BY DEF Claim, TypeOK, Activation
<1>2. CASE Claimable(t)
  <2>1. /\ act' = [act EXCEPT ![f] = [[act[f] EXCEPT !.at = "firing"] EXCEPT !.claim = TRUE]]
        /\ row' = [row EXCEPT ![t] = Taken(@)]
    BY <1>2 DEF Claim
  <2>2. \A u \in Task : u # t => row'[u] = row[u]
    BY <2>1 DEF TypeOK
  <2>0. \A u \in Task : Spared(u)' = Spared(u)
    BY <2>1 DEF TypeOK, Row, Taken, Spared
  <2>3. \A g \in Slot : g # f => act'[g] = act[g]
    BY <2>1 DEF TypeOK
  <2>4. /\ act'[f].task = t /\ act'[f].at = "firing" /\ act'[f].claim
        /\ act'[f].status = act[f].status
    BY <1>1, <2>1 DEF TypeOK, Activation
  <2>5. Holds(act'[f]) /\ ~Holds(act[f])
    BY <1>1, <2>4 DEF Holds
  <2>6. ASSUME NEW u \in Task, Spared(u), ~row'[u].enabled
        PROVE  \E g \in Slot : act'[g].task = u /\ Holds(act'[g])
    <3>1. CASE u = t
      BY <2>4, <2>5, <3>1
    <3>2. CASE u # t
      BY <2>2, <2>3, <2>5, <2>6, <3>2 DEF BurnInv
    <3> QED BY <3>1, <3>2
  <2>7. act'[f].status # "halted"
    BY <1>1, <2>4 DEF BurnInv
  <2> QED BY <2>0, <2>3, <2>4, <2>6, <2>7 DEF BurnInv
<1>3. CASE ~Claimable(t)
  <2>1. Faithful(act[f], Unused)
    BY <1>1 DEF Faithful, Holds, Unused
  <2> QED BY <1>3, <2>1, FaithfulSlot DEF Claim
<1> QED BY <1>2, <1>3

LEMMA RearmBurn ==
    ASSUME TypeOK, ClaimInv, BurnInv, NEW f \in Slot, Rearm(f) \/ Restore(f)
    PROVE  BurnInv'
<1> DEFINE t == act[f].task
<1>1. t \in Task /\ act[f] \in Activation /\ act[f].claim
  BY DEF Rearm, Restore, ClaimInv, TypeOK, Activation
<1>2. CASE RearmOnce(t) /\ (act' = [act EXCEPT ![f] = Unused]
                             \/ act' = [act EXCEPT ![f] = [act[f] EXCEPT !.at = "refusing"]])
  <2>1. \A g \in Slot : g # f => act'[g] = act[g]
    BY <1>2 DEF TypeOK
  <2>2. row'[t].enabled /\ \A u \in Task : u # t => row'[u] = row[u]
    BY <1>1, <1>2 DEF RearmOnce, Rearmed, TypeOK, Row
  <2>0. \A u \in Task : Spared(u)' = Spared(u)
    BY <1>1, <1>2 DEF RearmOnce, Rearmed, TypeOK, Row, Spared
  <2>3. \/ act'[f] = Unused
        \/ act'[f] = [act[f] EXCEPT !.at = "refusing"]
    BY <1>2 DEF TypeOK
  <2>4. act[f].status # "halted"
    BY DEF Rearm, Restore, BurnInv
  <2>5. act'[f].status # "halted" /\ (act'[f].at = "refusing" => act'[f].claim)
    BY <1>1, <2>3, <2>4 DEF Unused, Activation
  <2>6. ASSUME NEW u \in Task, Spared(u), ~row'[u].enabled
        PROVE  \E g \in Slot : act'[g].task = u /\ Holds(act'[g])
    <3>1. PICK g \in Slot : act[g].task = u /\ Holds(act[g])
      BY <2>2, <2>6 DEF BurnInv
    <3>2. g # f
      BY <2>2, <2>6, <3>1
    <3> QED BY <2>1, <3>1, <3>2
  <2> QED BY <2>0, <2>1, <2>5, <2>6 DEF BurnInv
<1>3. CASE RearmFails(t) /\ (\/ act' = [act EXCEPT ![f] = [Recorded(act[f], "halted") EXCEPT !.kept = TRUE]]
                             \/ act' = [act EXCEPT ![f] = [[act[f] EXCEPT !.at = "refusing"] EXCEPT !.kept = TRUE]])
  <2>1. Faithful(act[f], [Recorded(act[f], "halted") EXCEPT !.kept = TRUE])
    BY <1>1 DEF Faithful, Holds, Recorded, Activation
  <2>2. act[f].status # "halted"
    BY DEF Rearm, Restore, BurnInv
  <2>3. Faithful(act[f], [[act[f] EXCEPT !.at = "refusing"] EXCEPT !.kept = TRUE])
    BY <1>1, <2>2 DEF Faithful, Holds, Activation
  <2> QED BY <1>3, <2>1, <2>3, FaithfulSlot DEF RearmFails
<1> QED BY <1>2, <1>3 DEF Rearm, Restore

LEMMA EndedFaithful ==
    ASSUME NEW x \in Activation, x.status = "halted" => x.at = "over",
           x.at = "refusing" => x.claim, NEW s, s # "halted"
    PROVE  /\ Faithful(x, [Finalized(x, s) EXCEPT !.at = "over"])
           /\ x.at # "over" => Faithful(x, [FinalizedIfActive(x, s) EXCEPT !.at = "over"])
           /\ Faithful(x, Finalized(x, s))
           /\ Faithful(x, FinalizedIfActive(x, s))
<1>1. /\ Faithful(x, [Finalized(x, s) EXCEPT !.at = "over"])
      /\ Faithful(x, Finalized(x, s))
  BY DEF Faithful, Holds, Finalized, Activation
<1>2. x.at # "over" => Faithful(x, [x EXCEPT !.at = "over"])
  BY DEF Faithful, Holds, Activation
<1>3. Faithful(x, x)
  BY DEF Faithful
<1> QED BY <1>1, <1>2, <1>3 DEF FinalizedIfActive

(* The other steps of a slot.                                              *)
LEMMA WorkBurn ==
    ASSUME TypeOK, BurnInv, NEW f \in Slot,
           \/ \E t \in Task : Begin(f, t) \/ RunNow(f, t)
           \/ ClaimFails(f) \/ HaltCheck(f) \/ Gate(f) \/ GateThrows(f) \/ Mark(f)
           \/ SendFails(f) \/ SendThrows(f) \/ Send(f) \/ SendRefused(f) \/ Refuse(f)
           \/ Reply(f) \/ Reap(f) \/ Cancel(f)
    PROVE  BurnInv'
<1> DEFINE a == act[f]
<1>1. /\ a \in Activation
      /\ a.claim => a.at \notin {"idle", "claiming"}
      /\ a.sent => a.at \in {"waiting", "over"}
      /\ a.status # "none" <=>
            a.at \in {"marking", "sending", "restoring", "refusing", "waiting", "over"}
      /\ a.status = "halted" => a.at = "over"
      /\ a.at = "refusing" => a.claim
  BY DEF TypeOK, BurnInv
<1>2. ASSUME NEW s, s # "halted"
      PROVE  /\ a.at # "over" => Faithful(a, Ended(f, s))
             /\ Faithful(a, [Finalized(a, s) EXCEPT !.at = "over"])
             /\ Faithful(a, Finalized(a, s)) /\ Faithful(a, FinalizedIfActive(a, s))
  BY <1>1, <1>2, EndedFaithful DEF Ended
<1>3. ~a.claim => Faithful(a, Unused)
  BY DEF Faithful, Holds, Unused
<1>4. CASE \E t \in Task : Begin(f, t) \/ RunNow(f, t)
  <2>1. PICK t \in Task : Begin(f, t) \/ RunNow(f, t)
    BY <1>4
  <2>2. \A w \in {"claiming", "firing"} :
           a.at = "idle" => Faithful(a, [[a EXCEPT !.at = w] EXCEPT !.task = t])
    BY <1>1 DEF Faithful, Holds, Activation
  <2>3. /\ a.at = "idle" /\ row' = row
        /\ \E w \in {"claiming", "firing"} :
              act' = [act EXCEPT ![f] = [[a EXCEPT !.at = w] EXCEPT !.task = t]]
    <3>1. CASE Begin(f, t)
      BY <3>1 DEF Begin
    <3>2. CASE RunNow(f, t)
      BY <3>2 DEF RunNow
    <3> QED BY <2>1, <3>1, <3>2
  <2>4. PICK w \in {"claiming", "firing"} :
              act' = [act EXCEPT ![f] = [[a EXCEPT !.at = w] EXCEPT !.task = t]]
    BY <2>3
  <2>5. Faithful(act[f], [[a EXCEPT !.at = w] EXCEPT !.task = t])
    BY <2>2, <2>3
  <2> QED BY <2>3, <2>4, <2>5, FaithfulSlot
<1>5. CASE ClaimFails(f)
  BY <1>1, <1>3, <1>5, FaithfulSlot DEF ClaimFails
<1>6. CASE HaltCheck(f)
  <2>1. /\ Faithful(a, [a EXCEPT !.at = "gating"]) /\ Faithful(a, [a EXCEPT !.at = "rearming"])
        /\ ~a.claim => Faithful(a, Recorded(a, "halted"))
    BY <1>1, <1>6 DEF HaltCheck, Recorded, Faithful, Holds, Activation
  <2> QED BY <1>6, <2>1, FaithfulSlot DEF HaltCheck, MayRearm
<1>7. CASE Gate(f)
  <2>1. \A w \in {"marking", "sending"} :
           Faithful(a, [[a EXCEPT !.status = "pending"] EXCEPT !.at = w])
    BY <1>1, <1>7 DEF Gate, Faithful, Holds, Activation
  <2>2. Faithful(a, Recorded(a, "skipped"))
    BY <1>1, <1>7 DEF Gate, Recorded, Faithful, Holds, Activation
  <2>3. \/ act' = [act EXCEPT ![f] = Recorded(a, "skipped")]
        \/ \E w \in {"marking", "sending"} :
              act' = [act EXCEPT ![f] = [[a EXCEPT !.status = "pending"] EXCEPT !.at = w]]
    BY <1>7 DEF Gate
  <2>4. row' = row
    BY <1>7 DEF Gate
  <2> QED BY <2>1, <2>2, <2>3, <2>4, FaithfulSlot
<1>8. CASE GateThrows(f)
  <2>1. Faithful(a, [a EXCEPT !.at = "lost"])
    BY <1>1, <1>8 DEF GateThrows, Faithful, Holds, Activation
  <2> QED BY <1>3, <1>8, <2>1, FaithfulSlot DEF GateThrows
<1>9. CASE Mark(f)
  <2>1. /\ Faithful(a, [[a EXCEPT !.status = "in_flight"] EXCEPT !.at = "sending"])
        /\ Faithful(a, [a EXCEPT !.at = "sending"])
    BY <1>1, <1>9 DEF Mark, Faithful, Holds, Activation
  <2>2. PICK x \in {[[a EXCEPT !.status = "in_flight"] EXCEPT !.at = "sending"],
                    [a EXCEPT !.at = "sending"]} : act' = [act EXCEPT ![f] = x]
    BY <1>9 DEF Mark
  <2>3. Faithful(act[f], x) /\ row' = row
    BY <1>9, <2>1 DEF Mark
  <2> QED BY <2>2, <2>3, FaithfulSlot
<1>10. CASE SendFails(f) \/ SendThrows(f) \/ Reply(f)
  BY <1>2, <1>10, FaithfulSlot DEF SendFails, SendThrows, Reply
<1>11. CASE Send(f)
  <2>1. Faithful(a, [[a EXCEPT !.at = "waiting"] EXCEPT !.sent = TRUE])
    BY <1>1, <1>11 DEF Send, Faithful, Holds, Activation
  <2>2. Faithful(a, [Ended(f, "success") EXCEPT !.sent = TRUE])
    BY <1>1, <1>11 DEF Send, Ended, Finalized, FinalizedIfActive, Faithful, Holds, Activation
  <2> QED BY <1>11, <2>1, <2>2, FaithfulSlot DEF Send
<1>12. CASE SendRefused(f)
  <2>1. Kind(f) # "session" \/ AgentTask(a)
    <3>1. a.task \in Task
      BY <1>12 DEF SendRefused, TypeOK, Activation
    <3> QED BY <3>1 DEF Kind, AgentTask, Spared
  <2>2. Faithful(a, [a EXCEPT !.at = "restoring"])
    BY <1>1, <1>12 DEF SendRefused, Faithful, Holds, Activation
  <2>3. ~a.claim \/ AgentTask(a) => Faithful(a, Ended(f, "halted"))
    BY <1>1, <1>12 DEF SendRefused, Ended, Finalized, FinalizedIfActive, Faithful, Holds, Activation
  <2> QED BY <1>12, <2>1, <2>2, <2>3, FaithfulSlot DEF SendRefused, Restores, MayRearm
<1>13. CASE Refuse(f)
  <2>1. Faithful(a, Ended(f, "halted"))
    BY <1>1, <1>13 DEF Refuse, Ended, Finalized, FinalizedIfActive, Faithful, Holds, Activation
  <2> QED BY <1>13, <2>1, FaithfulSlot DEF Refuse
<1>14. CASE Reap(f) \/ Cancel(f)
  BY <1>2, <1>14, FaithfulSlot DEF Reap, Cancel
<1> QED BY <1>4, <1>5, <1>6, <1>7, <1>8, <1>9, <1>10, <1>11, <1>12, <1>13, <1>14

LEMMA BurnInvStep == TypeOK /\ ClaimInv /\ BurnInv /\ [Next]_vars => BurnInv'
<1> SUFFICES ASSUME TypeOK, ClaimInv, BurnInv, [Next]_vars PROVE BurnInv'
  OBVIOUS
<1>1. CASE UNCHANGED <<row, act>>
  BY <1>1 DEF BurnInv, Spared
<1>2. ASSUME NEW h \in Hub, Crash(h) PROVE BurnInv'
  <2>1. ASSUME NEW f \in Slot PROVE Faithful(act[f], Dropped(act[f]))
    <3>1. /\ act[f] \in Activation
          /\ act[f].status = "halted" => act[f].at = "over"
          /\ act[f].at = "refusing" => act[f].claim
      BY DEF TypeOK, BurnInv
    <3>2. act[f].status # "none" => Faithful(act[f], [act[f] EXCEPT !.at = "over"])
      BY <3>1 DEF Faithful, Holds, Activation
    <3>3. act[f].status = "none" => Faithful(act[f], [act[f] EXCEPT !.at = "lost"])
      BY <3>1 DEF Faithful, Holds, Activation
    <3>4. ~act[f].claim => Faithful(act[f], Unused)
      BY DEF Faithful, Holds, Unused
    <3> QED BY <3>2, <3>3, <3>4 DEF Dropped
  <2>2. \A f \in Slot : Faithful(act[f], act'[f])
    BY <1>2, <2>1 DEF Crash, BurnInv, Faithful
  <2> QED BY <1>2, <2>2, FaithfulStep DEF Crash
<1>3. CASE Next
  BY <1>1, <1>2, <1>3, ClaimBurn, RearmBurn, WorkBurn DEF Next, Step, Engage, Release
<1> QED BY <1>1, <1>3 DEF vars

(* A disabled task is disabled for a reason: HaltNeverBurns of one task.   *)
DisabledForReason(t) ==
    ~row[t].enabled =>
        \E f \in Claims(t) : \/ UnderWay(f)
                             \/ act[f].sent \/ act[f].kept \/ act[f].at = "lost"
                             \/ act[f].status # "halted"

(* The kill switch burns no one-time task but those of the agent sender    *)
(* (which never calls rearmOnceTask), whatever it interleaves with and     *)
(* whatever kinds of tasks fire beside it.                                 *)
THEOREM HaltBurnsOnlyAgents == Spec => [](\A t \in Task : row[t].kind # "session" => DisabledForReason(t))
<1>1. TypeOK /\ BurnInv => \A t \in Task : row[t].kind # "session" => DisabledForReason(t)
  BY DEF BurnInv, Spared, Holds, DisabledForReason, Claims, UnderWay
<1> QED BY <1>1, InitType, InitClaimInv, InitBurnInv, TypeStep, ClaimInvStep, BurnInvStep,
           PTL DEF Spec

(* Without the agent sender a kill switch burns no one-time task, whatever *)
(* it interleaves with; the agent sender breaks it.                        *)
THEOREM HaltBurnsNone ==
    ASSUME "session" \notin Kinds
    PROVE  Spec => []HaltNeverBurns
<1>1. TypeOK => \A t \in Task : row[t].kind # "session"
  BY DEF TypeOK, Row
<1>2. TypeOK /\ (\A t \in Task : row[t].kind # "session" => DisabledForReason(t)) => HaltNeverBurns
  BY <1>1 DEF DisabledForReason, HaltNeverBurns
<1> QED BY <1>2, HaltBurnsOnlyAgents, TypeCorrect, PTL
=============================================================================
