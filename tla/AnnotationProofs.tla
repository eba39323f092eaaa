-------------------------- MODULE AnnotationProofs --------------------------
(***************************************************************************)
(* Theorems about Annotation, for any number of activations, resends,      *)
(* retries and faults: the type invariant, that an annotation is resolved  *)
(* only by the agent's reply to the generation that holds the row, that    *)
(* only the retry route takes a resolved row back, that every end of the   *)
(* row is reported, and that a turn in flight keeps its row unless a write *)
(* that checks no generation was under way beside it.                      *)
(***************************************************************************)
EXTENDS Annotation, TLAPS

USE AttemptAssumption, BoundAssumption

-----------------------------------------------------------------------------
(* Types.                                                                  *)

Returned == Reopening \cup {"idle", "waiting", "sent", "closing"}

(* The part of TypeOK that is about one slot.                              *)
Fits(x) == x \in Activation /\ (x.swept => x.at \notin Returned)

(* The part that is about no slot.                                         *)
Others ==
    /\ batched \in BOOLEAN /\ online \in BOOLEAN
    /\ row \in Row
    /\ latest \in Attempt \cup {None}
    /\ parked \subseteq Token /\ replays \subseteq Token
    /\ owed \in Attempt \cup {None} /\ raced \subseteq Attempt
    /\ asks \in Nat /\ faults \in Nat

LEMMA Slots == TypeOK <=> /\ Others /\ act = [a \in Attempt |-> act[a]]
                          /\ \A a \in Attempt : Fits(act[a])
BY DEF TypeOK, Others, Fits, Returned

LEMMA InitType == Init => TypeOK
<1>1. Fits(Unused)
  BY DEF Fits, Unused, Activation, Place, Kind, RowStatus, Reopening, Armed, Ending, Returned
<1>2. ASSUME Init PROVE Others
  BY <1>2 DEF Init, Others, Row, RowStatus
<1>3. ASSUME Init PROVE act = [a \in Attempt |-> Unused]
  BY <1>3 DEF Init
<1> QED BY <1>1, <1>2, <1>3, Slots

(* A step that changes one slot.                                           *)
LEMMA OneSlot ==
    ASSUME TypeOK, NEW a \in Attempt, NEW x, Fits(x), act' = [act EXCEPT ![a] = x], Others'
    PROVE  TypeOK'
BY DEF TypeOK, Others, Fits, Returned

(* A slot whose activation moves on.                                       *)
LEMMA Moved ==
    ASSUME NEW x, Fits(x), NEW p \in Place, x.swept => p \notin Returned
    PROVE  Fits([x EXCEPT !.at = p])
BY DEF Fits, Activation

LEMMA IdleFits ==
    ASSUME NEW x, Fits(x)
    PROVE  Fits(Idle(x)) /\ Fits(Cancelled(x)) /\ Fits(Cancelled(Idle(x))) /\ Fits(Queued(x))
<1>1. ASSUME NEW y, Fits(y) PROVE Fits(Idle(y))
  <2>1. "idle" \in Place /\ "single" \in Kind /\ "pending" \in RowStatus
    BY DEF Place, Kind, RowStatus
  <2> QED BY <1>1, <2>1 DEF Fits, Idle, Activation
<1>2. ASSUME NEW y, Fits(y) PROVE Fits(Cancelled(y))
  BY <1>2 DEF Fits, Cancelled, Activation
<1>3. Fits(Queued(x))
  BY DEF Fits, Queued, Activation, Kind, Place, RowStatus, Reopening, Returned
<1> QED BY <1>1, <1>2, <1>3

LEMMA UnusedFits == Fits(Unused)
BY DEF Fits, Unused, Activation, Place, Kind, RowStatus, Reopening, Armed, Ending, Returned

LEMMA NewFits ==
    ASSUME NEW k \in Kind, NEW p \in Place
    PROVE  Fits(New(k, p))
BY UnusedFits DEF Fits, New, Unused, Activation

LEMMA DispatchFits ==
    ASSUME NEW x, Fits(x)
    PROVE  Fits(Dispatch(x))
<1>1. Fits(Idle(x))
  BY IdleFits
<1>2. Fits([Idle(x) EXCEPT !.at = "gates", !.swept = x.swept])
  BY <1>1 DEF Fits, Activation, Place, Returned, Reopening
<1> QED BY <1>1, <1>2 DEF Dispatch

LEMMA RefusedFits ==
    ASSUME NEW x, Fits(x)
    PROVE  Fits(Refused(x)) /\ Fits(Reopened(x))
<1>1. Fits([x EXCEPT !.at = "loading"])
  BY DEF Fits, Activation, Place, Returned, Reopening
<1> QED BY <1>1, IdleFits, DispatchFits DEF Refused, Reopened

(* A resend, a retry and the reopening of a row.                           *)
LEMMA AskType ==
    ASSUME TypeOK, NEW a \in Attempt,
           Redeliver(a) \/ Retry(a) \/ Check(a) \/ Reset(a) \/ Supersede(a) \/ Load(a)
    PROVE  TypeOK'
<1> DEFINE x == act[a]
<1>1. Fits(x) /\ act \in [Attempt -> Activation] /\ row.status \in RowStatus
  BY DEF TypeOK, Fits, Returned, Row
<1>2. CASE Redeliver(a)
  <2>1. Fits([New("single", "asked") EXCEPT !.seen = row.status])
    BY <1>1, NewFits DEF Fits, Activation, Kind, Place, Reopening
  <2>2. Fits(Dispatch(Unused))
    BY UnusedFits, DispatchFits
  <2>3. asks' \in Nat
    BY <1>2 DEF Redeliver, TypeOK
  <2>4. Others'
    BY <1>2, <2>3 DEF Redeliver, TypeOK, Others, Grace
  <2>5. \E y \in {[New("single", "asked") EXCEPT !.seen = row.status], Dispatch(Unused)} :
            act' = [act EXCEPT ![a] = y]
    BY <1>2 DEF Redeliver
  <2> QED BY <2>1, <2>2, <2>4, <2>5, OneSlot
<1>3. CASE Retry(a)
  <2>1. Fits([New("forced", "asked") EXCEPT !.seen = row.status])
    BY <1>1, NewFits DEF Fits, Activation, Kind, Place, Reopening
  <2>2. asks' \in Nat
    BY <1>3 DEF Retry, TypeOK
  <2>3. Others'
    BY <1>3, <2>2 DEF Retry, TypeOK, Others, Grace
  <2> QED BY <1>3, <2>1, <2>3, OneSlot DEF Retry
<1>4. CASE Check(a)
  <2>1. Fits([x EXCEPT !.at = "resetting"])
    BY <1>1, <1>4 DEF Check, At, Fits, Activation, Place, Returned, Reopening
  <2> QED BY <1>1, <1>4, <2>1, OneSlot, RefusedFits DEF Check, TypeOK, Others, Grace, Rest
<1>5. CASE Reset(a)
  <2>1. Fits([x EXCEPT !.at = "superseding"])
    BY <1>1, <1>5 DEF Reset, At, Fits, Activation, Place, Returned, Reopening
  <2>2. row' \in Row /\ owed' \in Attempt \cup {None}
    BY <1>5 DEF Reset, TypeOK, Row, RowStatus
  <2>3. Others'
    BY <1>5, <2>2 DEF Reset, TypeOK, Others, Grace, Rest
  <2>4. PICK y : y \in {[x EXCEPT !.at = "superseding"], Reopened(x), Refused(x)}
                 /\ act' = [act EXCEPT ![a] = y]
    BY <1>5 DEF Reset
  <2>5. Fits(y)
    BY <1>1, <2>1, <2>4, RefusedFits
  <2> QED BY <2>3, <2>4, <2>5, OneSlot
<1>6. CASE Supersede(a)
  <2>1. \A b \in Attempt : Fits(act[b])
    BY DEF TypeOK, Fits, Returned
  <2>2. \A b \in Attempt : Fits(act'[b])
    BY <1>6, <2>1, IdleFits, RefusedFits DEF Supersede
  <2>3. Others' /\ act' = [b \in Attempt |-> act'[b]]
    BY <1>6 DEF Supersede, TypeOK, Others, Grace, Rest
  <2> QED BY <2>2, <2>3 DEF TypeOK, Others, Fits, Returned
<1>7. CASE Load(a)
  BY <1>1, <1>7, OneSlot, DispatchFits, IdleFits DEF Load, TypeOK, Others, Grace, Rest
<1> QED BY <1>2, <1>3, <1>4, <1>5, <1>6, <1>7

(* The way of a dispatch to the agent.                                     *)
LEMMA SendType ==
    ASSUME TypeOK, NEW a \in Attempt,
           \/ Reject(a) \/ TakeSlot(a) \/ Queue(a) \/ Vanish(a) \/ Promote(a) \/ Park(a)
           \/ MarkParked(a) \/ Open(a) \/ FindNoChannel(a) \/ Claim(a) \/ Bind(a) \/ Send(a)
    PROVE  TypeOK'
<1> DEFINE x == act[a]
<1>1. Fits(x) /\ act \in [Attempt -> Activation] /\ x \in Activation
  BY DEF TypeOK, Fits, Returned
<1>2. Fits(Idle(x)) /\ Fits(Queued(x)) /\ Fits(Cancelled(Idle(x)))
  BY <1>1, IdleFits
<1>3. \A p \in Place \ Returned : Fits([x EXCEPT !.at = p])
  BY <1>1, Moved
<1>4. /\ {"reporting", "slot", "gates", "parking", "armed", "inserting", "message"}
            \subseteq Place \ Returned
  BY DEF Place, Returned, Reopening, Armed, Ending
<1>5. CASE Reject(a)
  <2>1. row' \in Row /\ owed' \in Attempt \cup {None}
    BY <1>5 DEF Reject, EndRow, TypeOK, Row, RowStatus, Ended
  <2> QED BY <1>2, <1>3, <1>4, <1>5, <2>1, OneSlot
        DEF Reject, Goto, Stop, TypeOK, Others, Grace, Rest
<1>6. CASE TakeSlot(a)
  BY <1>3, <1>4, <1>6, OneSlot DEF TakeSlot, Goto, TypeOK, Others, Grace, Rest
<1>7. CASE Queue(a)
  BY <1>2, <1>7, OneSlot DEF Queue, TypeOK, Others, Grace, Rest
<1>8. CASE Vanish(a)
  BY <1>2, <1>8, OneSlot DEF Vanish, Stop, TypeOK, Others, Grace, Rest
<1>9. CASE Promote(a)
  BY <1>3, <1>4, <1>9, OneSlot DEF Promote, Goto, TypeOK, Others, Grace, Rest
<1>10. TokenOf(a) \in Token
  BY DEF TokenOf, Token
<1>11. CASE Park(a)
  BY <1>3, <1>4, <1>10, <1>11, OneSlot DEF Park, Goto, TypeOK, Others, Rest
<1>12. CASE MarkParked(a)
  <2>1. row' \in Row
    BY <1>12 DEF MarkParked, TypeOK, Row
  <2> QED BY <1>2, <1>12, <2>1, OneSlot DEF MarkParked, Stop, TypeOK, Others, Grace, Rest
<1>13. CASE Open(a)
  <2>1. Fits([[x EXCEPT !.at = "armed"] EXCEPT !.run = "in_flight"])
    BY <1>3, <1>4 DEF Fits, Activation
  <2>2. Others'
    BY <1>13 DEF Open, TypeOK, Others, Grace, Rest
  <2>3. PICK y \in {[x EXCEPT !.at = "armed"], [[x EXCEPT !.at = "armed"] EXCEPT !.run = "in_flight"]} :
            act' = [act EXCEPT ![a] = y]
    BY <1>13 DEF Open, Goto
  <2>4. Fits(y)
    BY <1>3, <1>4, <2>1, <2>3
  <2> QED BY <2>2, <2>3, <2>4, OneSlot
<1>14. CASE FindNoChannel(a)
  <2>1. Fits([[x EXCEPT !.at = "parking"] EXCEPT !.run = "closed"])
    BY <1>3, <1>4 DEF Fits, Activation
  <2>2. Others'
    BY <1>14 DEF FindNoChannel, Token, TypeOK, Others, Rest
  <2>3. PICK y \in {Idle(x), [[x EXCEPT !.at = "parking"] EXCEPT !.run = "closed"]} :
            act' = [act EXCEPT ![a] = y]
    BY <1>14 DEF FindNoChannel, Stop
  <2>4. Fits(y)
    BY <1>2, <2>1, <2>3
  <2> QED BY <2>2, <2>3, <2>4, OneSlot
<1>15. CASE Claim(a)
  <2>1. row' \in Row
    BY <1>15 DEF Claim, TypeOK, Row, RowStatus
  <2>2. Others'
    BY <1>15, <2>1 DEF Claim, TypeOK, Others, Grace, Rest
  <2> QED BY <1>2, <1>3, <1>4, <1>15, <2>2, OneSlot DEF Claim, Goto
<1>16. CASE Bind(a)
  <2>1. Fits([[x EXCEPT !.at = "message"] EXCEPT !.run = "in_flight"])
    BY <1>3, <1>4 DEF Fits, Activation
  <2>2. row' \in Row
    BY <1>16 DEF Bind, TypeOK, Row
  <2>3. Others'
    BY <1>16, <2>2 DEF Bind, TypeOK, Others, Grace, Rest
  <2>4. act' = [act EXCEPT ![a] = [[x EXCEPT !.at = "message"] EXCEPT !.run = "in_flight"]]
    BY <1>16 DEF Bind
  <2> QED BY <2>1, <2>3, <2>4, OneSlot
<1>17. CASE Send(a)
  <2>1. Fits([[[x EXCEPT !.at = "sent"] EXCEPT !.agent = "asked"] EXCEPT !.swept = FALSE])
    BY <1>1 DEF Fits, Activation, Place, Armed
  <2>2. Others'
    BY <1>17 DEF Send, TypeOK, Others, Grace, Rest
  <2>3. act' = [act EXCEPT ![a] =
                  [[[x EXCEPT !.at = "sent"] EXCEPT !.agent = "asked"] EXCEPT !.swept = FALSE]]
    BY <1>17 DEF Send
  <2> QED BY <2>1, <2>2, <2>3, OneSlot
<1> QED BY <1>5, <1>6, <1>7, <1>8, <1>9, <1>11, <1>12, <1>13, <1>14, <1>15, <1>16, <1>17

(* The end of a turn.                                                      *)
LEMMA EndType ==
    ASSUME TypeOK, NEW a \in Attempt,
           \/ Release(a) \/ Fail(a) \/ Timeout(a) \/ Close(a) \/ Report(a) \/ Age(a)
           \/ \E v \in {"resolved", "unresolved"} : Answer(a, v)
    PROVE  TypeOK'
<1> DEFINE x == act[a]
<1>1. Fits(x) /\ act \in [Attempt -> Activation] /\ x \in Activation
  BY DEF TypeOK, Fits, Returned
<1>2. Fits(Idle(x)) /\ Fits(Cancelled(x)) /\ Fits(Cancelled(Idle(x)))
  BY <1>1, IdleFits
<1>3. \A p \in Place \ Returned : Fits([x EXCEPT !.at = p]) /\ Fits([Cancelled(x) EXCEPT !.at = p])
  BY <1>1, <1>2, Moved DEF Cancelled, Fits, Activation
<1>4. {"reporting", "failing"} \subseteq Place \ Returned
  BY DEF Place, Returned, Reopening, Armed, Ending
<1>5. CASE Release(a)
  BY <1>3, <1>4, <1>5, OneSlot DEF Release, Goto, TypeOK, Others, Grace, Rest
<1>6. CASE Fail(a)
  <2>1. row' \in Row /\ owed' \in Attempt \cup {None}
    BY <1>6 DEF Fail, EndRow, TypeOK, Row, RowStatus, Ended
  <2>2. Others'
    BY <1>6, <2>1 DEF Fail, TypeOK, Others, Grace, Rest
  <2> QED BY <1>2, <1>3, <1>4, <1>6, <2>2, OneSlot DEF Fail
<1>7. CASE Timeout(a)
  <2>1. Fits([[x EXCEPT !.at = "closing"] EXCEPT !.verdict = "unresolved"])
    BY <1>1, <1>7 DEF Timeout, At, Fits, Activation, Place, Ending, Returned
  <2> QED BY <1>7, <2>1, OneSlot DEF Timeout, TypeOK, Others, Grace, Rest
<1>8. CASE Close(a)
  <2>1. row' \in Row /\ owed' \in Attempt \cup {None}
    BY <1>8 DEF Close, EndRow, TypeOK, Row, RowStatus, Ended
  <2>2. Others'
    BY <1>8, <2>1 DEF Close, TypeOK, Others, Grace, Rest
  <2> QED BY <1>2, <1>3, <1>4, <1>8, <2>2, OneSlot DEF Close
<1>9. CASE Report(a)
  BY <1>2, <1>9, OneSlot DEF Report, Stop, TypeOK, Others, Grace, Rest
<1>10. CASE Age(a)
  <2>1. Fits([x EXCEPT !.run = "aged"])
    BY <1>1 DEF Fits, Activation
  <2> QED BY <1>10, <2>1, OneSlot DEF Age, TypeOK, Others, Grace, Rest
<1>11. CASE \E v \in {"resolved", "unresolved"} : Answer(a, v)
  <2>1. PICK v \in {"resolved", "unresolved"} : Answer(a, v)
    BY <1>11
  <2>2. Others' /\ act' = [b \in Attempt |-> act'[b]]
    BY <1>1, <2>1 DEF Answer, TypeOK, Others, Grace, Rest
  <2>3. ASSUME NEW y, Fits(y), y.at = "sent"
        PROVE  Fits([[y EXCEPT !.at = "closing"] EXCEPT !.verdict = v])
    BY <2>3 DEF Fits, Activation, Place, Ending, Returned
  <2>4. \A b \in Attempt : Fits(act[b]) /\ Fits([act[b] EXCEPT !.agent = v])
    BY DEF TypeOK, Fits, Activation, Returned
  <2>5. \A b \in Attempt : Fits(act'[b])
    <3>1. CASE \E c \in Attempt : At(c, "sent") /\ Accepts(c, a)
      <4>1. PICK c \in Attempt :
               /\ At(c, "sent") /\ Accepts(c, a)
               /\ act' = [b \in Attempt |->
                     LET heard == IF b = a THEN [act[b] EXCEPT !.agent = v] ELSE act[b] IN
                     IF b = c THEN [heard EXCEPT !.at = "closing", !.verdict = v] ELSE heard]
        BY <2>1, <3>1 DEF Answer
      <4>2. c = a
        BY <4>1 DEF Accepts
      <4>3. [act[a] EXCEPT !.agent = v].at = "sent"
        BY <1>1, <4>1, <4>2 DEF At, Activation
      <4>4. Fits([[[act[a] EXCEPT !.agent = v] EXCEPT !.at = "closing"] EXCEPT !.verdict = v])
        BY <2>3, <2>4, <4>3
      <4> QED BY <2>4, <4>1, <4>2, <4>4
    <3>2. CASE ~\E c \in Attempt : At(c, "sent") /\ Accepts(c, a)
      <4>1. act' = [act EXCEPT ![a].agent = v]
        BY <2>1, <3>2 DEF Answer
      <4> QED BY <1>1, <2>4, <4>1
    <3> QED BY <3>1, <3>2
  <2> QED BY <2>2, <2>5 DEF TypeOK, Others, Fits, Returned
<1> QED BY <1>5, <1>6, <1>7, <1>8, <1>9, <1>10, <1>11

(* The sweeps, the grace buffer and the faults.                            *)
LEMMA MemoryType ==
    ASSUME TypeOK,
           \/ \E a \in Attempt : Sweep(a) \/ GraceStep(a) \/ Throw(a)
           \/ Connect \/ Drop \/ Crash
    PROVE  TypeOK'
<1>1. /\ act \in [Attempt -> Activation]
      /\ \A a \in Attempt : Fits(act[a])
  BY DEF TypeOK, Fits, Returned
<1>2. ASSUME NEW a \in Attempt, Sweep(a) PROVE TypeOK'
  <2>1. \A k \in {"single", "batch"}, p \in {"loading", "gates"} :
            Fits([New(k, p) EXCEPT !.swept = TRUE])
    BY UnusedFits DEF Fits, New, Unused, Activation, Kind, Place, Returned, Reopening
  <2> QED BY <1>2, <2>1, OneSlot DEF Sweep, SweepSingle, SweepBatch, TypeOK, Others, Grace, Rest
<1>3. ASSUME NEW a \in Attempt, GraceStep(a) PROVE TypeOK'
  <2>1. PICK k \in Token : Expire(a, k) \/ Replay(a, k)
    BY <1>3 DEF GraceStep
  <2>2. \A p \in {"loading", "gates", "reporting"} : Fits(New(k, p))
    BY NewFits DEF Token, Kind, Place, Ending
  <2>3. CASE Expire(a, k)
    <3>1. row' \in Row /\ owed' \in Attempt \cup {None}
      BY <2>3 DEF Expire, EndRow, TypeOK, Row, RowStatus, Ended
    <3>2. Others'
      BY <2>3, <3>1 DEF Expire, TypeOK, Others, Rest
    <3>3. act' = [act EXCEPT ![a] = New(k, "reporting")] \/ act' = act
      BY <2>3 DEF Expire, AfterExpiry
    <3>4. CASE act' = act
      BY <3>2, <3>4 DEF TypeOK, Others
    <3> QED BY <2>2, <3>2, <3>3, <3>4, OneSlot
  <2>4. CASE Replay(a, k)
    <3>1. Others'
      BY <2>4 DEF Replay, TypeOK, Others, Rest
    <3>2. act' = act \/ \E p \in {"loading", "gates"} : act' = [act EXCEPT ![a] = New(k, p)]
      BY <2>4 DEF Replay
    <3>3. CASE act' = act
      BY <3>1, <3>3 DEF TypeOK, Others
    <3> QED BY <2>2, <3>1, <3>2, <3>3, OneSlot
  <2> QED BY <2>1, <2>3, <2>4
<1>4. ASSUME NEW a \in Attempt, Throw(a) PROVE TypeOK'
  <2>1. Fits([act[a] EXCEPT !.at = "failing"])
    BY <1>1, Moved DEF Place, Ending, Returned, Reopening
  <2>2. Fits(Refused(act[a])) /\ Fits(Idle(act[a]))
    BY <1>1, RefusedFits, IdleFits
  <2>3. Others'
    BY <1>4 DEF Throw, Fault, TypeOK, Others, Grace
  <2>4. \E y \in {Refused(act[a]), Idle(act[a]), [act[a] EXCEPT !.at = "failing"]} :
            act' = [act EXCEPT ![a] = y]
    BY <1>4 DEF Throw, Goto, Stop
  <2> QED BY <2>1, <2>2, <2>3, <2>4, OneSlot
<1>5. CASE Connect
  BY <1>5 DEF Connect, TypeOK
<1>6. CASE Drop
  <2>1. faults' \in Nat
    BY <1>6 DEF Drop, Fault, TypeOK
  <2> QED BY <1>6, <2>1 DEF Drop, Grace, TypeOK
<1>7. CASE Crash
  <2>1. Others' /\ act' = [a \in Attempt |-> act'[a]]
    BY <1>7 DEF Crash, Fault, TypeOK, Others
  <2>2. \A a \in Attempt : Fits(act'[a])
    BY <1>1, <1>7, IdleFits DEF Crash
  <2> QED BY <2>1, <2>2 DEF TypeOK, Others, Fits, Returned
<1> QED BY <1>2, <1>3, <1>4, <1>5, <1>6, <1>7

LEMMA NextType == TypeOK /\ [Next]_vars => TypeOK'
<1> SUFFICES ASSUME TypeOK, [Next]_vars PROVE TypeOK'
  OBVIOUS
<1>1. CASE UNCHANGED vars
  BY <1>1 DEF vars, TypeOK
<1>2. CASE \E a \in Attempt : Redeliver(a) \/ Retry(a) \/ Step(a)
  BY <1>2, AskType, SendType, EndType DEF Step
<1>3. CASE \E a \in Attempt :
              \/ Sweep(a) \/ GraceStep(a) \/ Release(a) \/ Throw(a) \/ Age(a)
              \/ \E v \in {"resolved", "unresolved"} : Answer(a, v)
  BY <1>3, EndType, MemoryType
<1>4. CASE Connect \/ Drop \/ Crash
  BY <1>4, MemoryType
<1> QED BY <1>1, <1>2, <1>3, <1>4 DEF Next

(* The state of every behaviour is in type.                                *)
THEOREM TypeCorrect == Spec => []TypeOK
BY InitType, NextType, PTL DEF Spec

-----------------------------------------------------------------------------
(* The invariant.                                                          *)

(* The generation of a resolved row has had its answer and is past its     *)
(* finalize; a finalize that resolves has heard its own agent.             *)
Answered ==
    /\ row.status = "resolved" =>
          /\ row.gen \in Attempt
          /\ act[row.gen].agent = "resolved"
          /\ act[row.gen].at \in {"reporting", "idle"}
    /\ \A a \in Attempt :
          At(a, "closing") /\ act[a].verdict = "resolved" => act[a].agent = "resolved"

(* From its claim to the end of its turn, an activation that no write      *)
(* without a generation has raced holds the row alone, and none is under   *)
(* way.                                                                    *)
Sole(a) == Holding(a) /\ a \notin raced
Held ==
    \A a \in Attempt : Sole(a) =>
       /\ Dispatched /\ NoneStray
       /\ row.gen = IF At(a, "inserting") THEN None ELSE a
       /\ \A b \in Attempt : Holding(b) => b = a

Inv == Answered /\ EndIsReported /\ Held

(* What the invariant reads of a slot, unchanged.                          *)
Same(b) ==
    /\ act'[b].at = act[b].at /\ act'[b].agent = act[b].agent
    /\ act'[b].verdict = act[b].verdict /\ act'[b].seen = act[b].seen

(* A step of one activation on its way to the agent that touches neither   *)
(* the status of the row nor its generation.                               *)
Plain == {"idle", "asked", "superseding", "loading", "gates", "waiting", "slot",
          "armed", "parking"}
QuietStep(a) ==
    /\ \A b \in Attempt \ {a} : Same(b)
    /\ act[a].at \in Plain /\ act'[a].at \in Plain
    /\ Free(a) \/ (~At(a, "idle") /\ act'[a].agent = act[a].agent)
    /\ row'.status = row.status /\ row'.gen = row.gen
    /\ owed' = owed /\ raced' = raced

LEMMA QuietInv ==
    ASSUME TypeOK, Inv, NEW a \in Attempt, QuietStep(a)
    PROVE  Inv'
<1>1. Answered'
  BY DEF Inv, Answered, QuietStep, Same, Plain, Free, At
<1>2. EndIsReported'
  BY DEF TypeOK, Inv, EndIsReported, QuietStep, Same, Plain, At, Ended
<1>3. Held'
  <2>1. \A b \in Attempt : Holding(b)' => Holding(b) /\ b # a
    BY DEF QuietStep, Same, Plain, Holding
  <2>2. ASSUME NoneStray PROVE NoneStray'
    BY <2>1, <2>2 DEF NoneStray, Stray, QuietStep, Same, Plain, At
  <2> QED BY <2>1, <2>2 DEF Inv, Held, Sole, Dispatched, QuietStep, Same, At
<1> QED BY <1>1, <1>2, <1>3 DEF Inv

LEMMA QuietSteps ==
    ASSUME TypeOK, NEW a \in Attempt,
           \/ Redeliver(a) \/ Retry(a) \/ Supersede(a) \/ Load(a) \/ TakeSlot(a) \/ Queue(a)
           \/ Vanish(a) \/ Promote(a) \/ Park(a) \/ MarkParked(a) \/ Open(a)
           \/ FindNoChannel(a) \/ Sweep(a) \/ \E k \in Token : Replay(a, k)
    PROVE  QuietStep(a)
<1>1. act \in [Attempt -> Activation] /\ act[a] \in Activation
  BY DEF TypeOK
<1>2. \A x \in Activation :
         /\ Idle(x).at = "idle" /\ Idle(x).agent = x.agent
         /\ Dispatch(x).at \in {"idle", "gates"} /\ Dispatch(x).agent = x.agent
         /\ Reopened(x).at \in {"idle", "gates", "loading"} /\ Reopened(x).agent = x.agent
         /\ Queued(x).at = "waiting" /\ Queued(x).agent = x.agent
  BY DEF Idle, Dispatch, Reopened, Queued, Activation
<1>3. \A k \in Kind, p \in Place : New(k, p) \in Activation /\ New(k, p).at = p
  BY UnusedFits DEF New, Unused, Fits, Activation
<1>4. CASE Redeliver(a)
  <2>1. act'[a].at \in {"asked", "idle", "gates"}
    BY <1>1, <1>2, <1>3, <1>4, UnusedFits
    DEF Redeliver, Fits, Activation, Kind, Place, Reopening
  <2> QED BY <1>1, <1>4, <2>1 DEF Redeliver, QuietStep, Rest, Same, Plain, Free, At
<1>5. CASE Retry(a)
  <2>1. act'[a].at = "asked"
    BY <1>1, <1>3, <1>5 DEF Retry, Activation, Kind, Place, Reopening
  <2> QED BY <1>1, <1>5, <2>1 DEF Retry, QuietStep, Rest, Same, Plain, Free, At
<1>6. CASE Supersede(a)
  <2>1. \A x \in Activation : /\ Cancelled(x).at = x.at /\ Cancelled(x).agent = x.agent
                              /\ Cancelled(x).verdict = x.verdict /\ Cancelled(x).seen = x.seen
    BY DEF Cancelled, Activation
  <2>2. \A b \in Attempt \ {a} : Same(b)
    BY <1>1, <1>6, <2>1 DEF Supersede, Same
  <2> QED BY <1>1, <1>2, <1>6, <2>2 DEF Supersede, QuietStep, Rest, Plain, At
<1>7. CASE Load(a)
  BY <1>1, <1>2, <1>7 DEF Load, QuietStep, Rest, Same, Plain, At
<1>8. CASE TakeSlot(a) \/ Promote(a) \/ Park(a)
  BY <1>1, <1>8 DEF TakeSlot, Promote, Park, Goto, QuietStep, Rest, Same, Plain, At, Activation
<1>9. CASE Queue(a) \/ Vanish(a)
  BY <1>1, <1>2, <1>9 DEF Queue, Vanish, Stop, QuietStep, Rest, Same, Plain, At
<1>10. CASE MarkParked(a)
  <2>1. row'.status = row.status /\ row'.gen = row.gen
    BY <1>10 DEF MarkParked, TypeOK, Row
  <2> QED BY <1>1, <1>2, <1>10, <2>1 DEF MarkParked, Stop, QuietStep, Rest, Same, Plain, At
<1>11. CASE Open(a)
  <2>1. act'[a].at = "armed" /\ act'[a].agent = act[a].agent
    BY <1>1, <1>11 DEF Open, Goto, Activation
  <2> QED BY <1>1, <1>11, <2>1 DEF Open, Goto, QuietStep, Rest, Same, Plain, At
<1>12. CASE FindNoChannel(a)
  <2>1. act'[a].at \in {"idle", "parking"} /\ act'[a].agent = act[a].agent
    BY <1>1, <1>2, <1>12 DEF FindNoChannel, Stop, Activation
  <2> QED BY <1>1, <1>12, <2>1 DEF FindNoChannel, Stop, QuietStep, Rest, Same, Plain, At
<1>13. CASE Sweep(a)
  <2>1. act'[a].at \in {"loading", "gates"}
    BY <1>1, <1>3, <1>13 DEF Sweep, SweepSingle, SweepBatch, Activation, Kind, Place
  <2> QED BY <1>1, <1>13, <2>1 DEF Sweep, SweepSingle, SweepBatch, QuietStep, Rest, Same, Plain, Free, At
<1>14. CASE \E k \in Token : Replay(a, k)
  <2>1. act'[a].at \in {"idle", "loading", "gates"}
    BY <1>1, <1>3, <1>14 DEF Replay, Free, At, Token, Kind, Place
  <2> QED BY <1>1, <1>14, <2>1 DEF Replay, QuietStep, Rest, Same, Plain, Free, At
<1> QED BY <1>4, <1>5, <1>6, <1>7, <1>8, <1>9, <1>10, <1>11, <1>12, <1>13, <1>14

(* A step that ends the row, or finds that it may not, is taken by an      *)
(* activation that holds nothing afterwards.                               *)
EndStep(a) ==
    /\ \A b \in Attempt \ {a} : Same(b)
    /\ act'[a].at \in {"reporting", "idle"} /\ act'[a].agent = act[a].agent
    /\ \/ /\ row'.status \in Ended /\ row'.gen = row.gen /\ owed' = a
          /\ act'[a].at = "reporting" /\ row.status \notin Ended
       \/ row' = row /\ owed' = owed /\ owed # a
    /\ raced' = raced

(* Only its own finalize ends a row as resolved; nobody else holds it.     *)
LEMMA EndInv ==
    ASSUME TypeOK, Inv, NEW a \in Attempt, EndStep(a),
           row'.status = "resolved" =>
              row.status = "resolved" \/ (row.gen = a /\ act[a].agent = "resolved"),
           row.status = "resolved" /\ row.gen = a => At(a, "idle") \/ At(a, "reporting"),
           row' = row \/ \A b \in Attempt \ {a} : ~Sole(b)
    PROVE  Inv'
<1>1. Answered'
  <2>1. row.status = "resolved" => row' = row
    BY DEF EndStep, Ended
  <2>2. CASE row.status = "resolved"
    BY <2>1, <2>2 DEF Inv, Answered, EndStep, Same, At
  <2>3. CASE row.status # "resolved"
    BY <2>3 DEF Inv, Answered, EndStep, Same, At
  <2> QED BY <2>2, <2>3
<1>2. EndIsReported'
  BY DEF TypeOK, Inv, EndIsReported, EndStep, Same, At
<1>3. Held'
  <2>1. ~Holding(a)' /\ \A b \in Attempt \ {a} : Holding(b)' <=> Holding(b)
    BY DEF EndStep, Same, Holding
  <2>2. CASE \A b \in Attempt \ {a} : ~Sole(b)
    BY <2>1, <2>2 DEF Held, Sole, EndStep
  <2>3. CASE row' = row
    <3>1. NoneStray => NoneStray'
      BY <2>1 DEF NoneStray, Stray, EndStep, Same, At
    <3> QED BY <2>1, <2>3, <3>1 DEF Inv, Held, Sole, Dispatched, EndStep, Same, At
  <2> QED BY <2>2, <2>3
<1> QED BY <1>1, <1>2, <1>3 DEF Inv

LEMMA Records ==
    ASSUME NEW x \in Activation
    PROVE  /\ Idle(x).at = "idle" /\ Idle(x).agent = x.agent
           /\ Cancelled(Idle(x)).at = "idle" /\ Cancelled(Idle(x)).agent = x.agent
           /\ Refused(x).at \in {"idle", "gates"} /\ Refused(x).agent = x.agent
           /\ Reopened(x).at \in {"idle", "gates", "loading"} /\ Reopened(x).agent = x.agent
BY DEF Activation, Idle, Cancelled, Refused, Reopened, Dispatch

(* A step that leaves the row, and keeps those that hold it as they are.   *)
LEMMA HeldKept ==
    ASSUME Held, row' = row, raced \subseteq raced',
           \A b \in Attempt : Holding(b)' => Holding(b) /\ Same(b),
           \A b \in Attempt : Sole(b)' /\ NoneStray => NoneStray'
    PROVE  Held'
<1> SUFFICES ASSUME NEW b \in Attempt, Sole(b)'
             PROVE  /\ Dispatched' /\ NoneStray'
                    /\ row'.gen = IF At(b, "inserting")' THEN None ELSE b
                    /\ \A c \in Attempt : Holding(c)' => c = b
  BY DEF Held
<1>1. Sole(b) /\ Same(b)
  BY DEF Sole
<1>2. Dispatched /\ NoneStray /\ row.gen = IF At(b, "inserting") THEN None ELSE b
  BY <1>1 DEF Held
<1>3. At(b, "inserting")' <=> At(b, "inserting")
  BY <1>1 DEF Same, At
<1>4. \A c \in Attempt : Holding(c) => c = b
  BY <1>1 DEF Held
<1> QED BY <1>1, <1>2, <1>3, <1>4 DEF Dispatched

(* A gate that blocks, a failed send, a finalize, a callback, a lapse.     *)
LEMMA EndSteps ==
    ASSUME TypeOK, Inv, NEW a \in Attempt,
           \/ Reject(a) \/ Fail(a) \/ Close(a) \/ Report(a) \/ \E k \in Token : Expire(a, k)
    PROVE  Inv'
<1>1. act \in [Attempt -> Activation] /\ act[a] \in Activation /\ row \in Row
  BY DEF TypeOK
<1>8. act[a].at # "reporting" => owed # a
  BY DEF Inv, EndIsReported, At
<1>9. /\ Idle(act[a]).at = "idle" /\ Idle(act[a]).agent = act[a].agent
      /\ Cancelled(Idle(act[a])).at = "idle" /\ Cancelled(Idle(act[a])).agent = act[a].agent
  BY <1>1, Records
<1>3. CASE Reject(a)
  <2>1. EndStep(a)
    <3>1. CASE Pending
      <4>1. /\ act' = [act EXCEPT ![a].at = "reporting"]
            /\ row' = [row EXCEPT !.status = "failed"] /\ owed' = a
        BY <1>3, <3>1 DEF Reject, Goto, EndRow
      <4>2. act'[a].at = "reporting" /\ act'[a].agent = act[a].agent
        BY <1>1, <4>1 DEF Activation
      <4>3. row'.status = "failed" /\ row'.gen = row.gen /\ row.status = "pending"
        BY <1>1, <3>1, <4>1 DEF Row, Pending
      <4> QED BY <1>3, <4>1, <4>2, <4>3 DEF Reject, EndStep, Rest, Same, Ended
    <3>2. CASE ~Pending
      <4>1. row' = row /\ owed' = owed /\ act' = [act EXCEPT ![a] = Idle(@)]
        BY <1>3, <3>2 DEF Reject, Stop
      <4>2. owed # a
        BY <1>3, <1>8 DEF Reject
      <4> QED BY <1>1, <1>3, <1>9, <4>1, <4>2 DEF Reject, EndStep, Rest, Same
    <3> QED BY <3>1, <3>2
  <2>2. row'.status = "resolved" => row.status = "resolved"
    BY <1>1, <1>3 DEF Reject, EndRow, Row
  <2>3. ~(row.status = "resolved" /\ row.gen = a)
    BY <1>3 DEF Reject, Inv, Answered
  <2>4. row' = row \/ \A b \in Attempt \ {a} : ~Sole(b)
    BY <1>3 DEF Reject, Inv, Held, Pending, Dispatched
  <2> QED BY <2>1, <2>2, <2>3, <2>4, EndInv
<1>4. CASE Fail(a)
  <2>1. EndStep(a)
    <3>1. CASE Dispatched
      <4>1. /\ act' = [act EXCEPT ![a] = [Cancelled(@) EXCEPT !.at = "reporting"]]
            /\ row' = [row EXCEPT !.status = "failed"] /\ owed' = a
        BY <1>4, <3>1 DEF Fail, EndRow
      <4>2. act'[a].at = "reporting" /\ act'[a].agent = act[a].agent
        BY <1>1, <4>1 DEF Activation, Cancelled
      <4>3. row'.status = "failed" /\ row'.gen = row.gen /\ row.status = "dispatched"
        BY <1>1, <3>1, <4>1 DEF Row, Dispatched
      <4> QED BY <1>4, <4>1, <4>2, <4>3 DEF Fail, EndStep, Rest, Same, Ended
    <3>2. CASE ~Dispatched
      <4>1. /\ row' = row /\ owed' = owed
            /\ \E y \in {Idle(act[a]), Cancelled(Idle(act[a]))} : act' = [act EXCEPT ![a] = y]
        BY <1>4, <3>2 DEF Fail
      <4>2. owed # a
        BY <1>4, <1>8 DEF Fail, At
      <4> QED BY <1>1, <1>4, <1>9, <4>1, <4>2 DEF Fail, EndStep, Rest, Same
    <3> QED BY <3>1, <3>2
  <2>2. row'.status = "resolved" => row.status = "resolved"
    BY <1>1, <1>4 DEF Fail, EndRow, Row
  <2>3. ~(row.status = "resolved" /\ row.gen = a)
    BY <1>4 DEF Fail, At, Inv, Answered
  <2>4. row' = row \/ \A b \in Attempt \ {a} : ~Sole(b)
    BY <1>4 DEF Fail, Inv, Held, NoneStray, Stray
  <2> QED BY <2>1, <2>2, <2>3, <2>4, EndInv
<1>5. CASE Close(a)
  <2>1. EndStep(a)
    <3>1. CASE OwnsRow(a)
      <4> DEFINE end == IF act[a].verdict = "resolved" THEN "resolved" ELSE "failed"
      <4>1. /\ act' = [act EXCEPT ![a] = [Cancelled(@) EXCEPT !.at = "reporting"]]
            /\ row' = [row EXCEPT !.status = end] /\ owed' = a
        BY <1>5, <3>1 DEF Close, EndRow
      <4>2. act'[a].at = "reporting" /\ act'[a].agent = act[a].agent
        BY <1>1, <4>1 DEF Activation, Cancelled
      <4>3. row'.status = end /\ row'.gen = row.gen /\ row.status = "dispatched"
        BY <1>1, <3>1, <4>1 DEF Row, OwnsRow, Dispatched
      <4> QED BY <1>5, <4>1, <4>2, <4>3 DEF Close, EndStep, Rest, Same, Ended
    <3>2. CASE ~OwnsRow(a)
      <4>1. row' = row /\ owed' = owed /\ act' = [act EXCEPT ![a] = Cancelled(Idle(@))]
        BY <1>5, <3>2 DEF Close
      <4>2. owed # a
        BY <1>5, <1>8 DEF Close, At
      <4> QED BY <1>1, <1>5, <1>9, <4>1, <4>2 DEF Close, EndStep, Rest, Same
    <3> QED BY <3>1, <3>2
  <2>2. row'.status = "resolved" =>
            row.status = "resolved" \/ (row.gen = a /\ act[a].agent = "resolved")
    BY <1>1, <1>5 DEF Close, EndRow, OwnsRow, Row, Inv, Answered
  <2>3. ~(row.status = "resolved" /\ row.gen = a)
    BY <1>5 DEF Close, At, Inv, Answered
  <2>4. row' = row \/ \A b \in Attempt \ {a} : ~Sole(b)
    BY <1>5 DEF Close, OwnsRow, Inv, Held, Sole, Holding, At
  <2> QED BY <2>1, <2>2, <2>3, <2>4, EndInv
<1>6. CASE Report(a)
  <2>1. act' = [act EXCEPT ![a] = Idle(@)] /\ row' = row
    BY <1>6 DEF Report, Stop
  <2>2. (\A b \in Attempt \ {a} : Same(b)) /\ act'[a].at = "idle" /\ act'[a].agent = act[a].agent
    BY <1>1, <2>1, Records DEF Same
  <2>3. Answered'
    BY <2>1, <2>2 DEF Inv, Answered, Same, At
  <2>4. EndIsReported'
    BY <1>6, <2>1, <2>2 DEF Report, TypeOK, Inv, EndIsReported, Same, At
  <2>5. Held'
    <3>1. ~Holding(a)' /\ \A b \in Attempt \ {a} : Holding(b)' <=> Holding(b)
      BY <2>2 DEF Same, Holding
    <3>2. raced' = raced
      BY <1>6 DEF Report, Rest
    <3>3. NoneStray => NoneStray'
      BY <2>2, <3>1, <3>2 DEF NoneStray, Stray, Same, At
    <3> QED BY <2>1, <2>2, <3>1, <3>2, <3>3 DEF Inv, Held, Sole, Dispatched, Same, At
  <2> QED BY <2>3, <2>4, <2>5 DEF Inv
<1>7. CASE \E k \in Token : Expire(a, k)
  <2>1. PICK k \in Token : Expire(a, k)
    BY <1>7
  <2>2. CASE Pending /\ row.offline
    <3>1. New(k, "reporting").at = "reporting"
      BY UnusedFits DEF New, Unused, Fits, Activation
    <3>2. /\ \A b \in Attempt \ {a} : Same(b)
          /\ act'[a].at = "reporting" /\ row'.status = "failed_offline" /\ owed' = a
      BY <1>1, <2>1, <2>2, <3>1 DEF Expire, EndRow, AfterExpiry, Same, Row
    <3>3. Answered'
      BY <2>2, <3>2 DEF Inv, Answered, Same, At
    <3>4. EndIsReported'
      BY <3>2 DEF EndIsReported, At, Ended
    <3>5. Held'
      BY <2>1, <2>2, <3>2 DEF Expire, Rest, Inv, Held, Sole, Holding, Same, Pending, Dispatched
    <3> QED BY <3>3, <3>4, <3>5 DEF Inv
  <2>3. CASE ~(Pending /\ row.offline)
    <3>1. row' = row /\ owed' = owed /\ act' = act /\ raced' = raced
      BY <2>1, <2>3 DEF Expire, Rest
    <3> QED BY <3>1 DEF Inv, Answered, EndIsReported, Held, Sole, Holding, NoneStray, Stray, Dispatched, At
  <2> QED BY <2>2, <2>3
<1> QED BY <1>3, <1>4, <1>5, <1>6, <1>7

(* The reopening of a row: what is reset has no turn in flight.            *)
LEMMA ReopenSteps ==
    ASSUME TypeOK, Inv, NEW a \in Attempt, Check(a) \/ Reset(a)
    PROVE  Inv'
<1>1. act \in [Attempt -> Activation] /\ act[a] \in Activation /\ row \in Row
  BY DEF TypeOK
<1>3. CASE Check(a)
  <2>1. CASE act[a].seen = "dispatched" /\ Live
    <3>1. act' = [act EXCEPT ![a] = Refused(@)]
      BY <1>3, <2>1 DEF Check
    <3>2. QuietStep(a)
      BY <1>1, <1>3, <3>1, Records DEF Check, QuietStep, Same, Plain, At, Rest
    <3> QED BY <3>2, QuietInv
  <2>2. CASE ~(act[a].seen = "dispatched" /\ Live)
    <3>1. /\ act' = [act EXCEPT ![a].at = "resetting"]
          /\ row' = row /\ owed' = owed /\ raced' = raced
      BY <1>3, <2>2 DEF Check, Rest
    <3>2. /\ \A b \in Attempt \ {a} : Same(b)
          /\ act[a].at = "asked" /\ act'[a].at = "resetting"
          /\ act'[a].agent = act[a].agent /\ act'[a].seen = act[a].seen
      BY <1>1, <1>3, <3>1 DEF Check, Same, At, Activation
    <3>3. Answered'
      BY <3>1, <3>2 DEF Inv, Answered, Same, At
    <3>4. EndIsReported'
      BY <3>1, <3>2 DEF Inv, EndIsReported, Same, At, TypeOK
    <3>5. Held'
      <4>1. \A b \in Attempt : Holding(b)' => Holding(b) /\ b # a
        BY <3>2 DEF Same, Holding
      <4>2. act[a].seen = "dispatched" => \A b \in Attempt : ~Holding(b)
        BY <2>2 DEF Live, TokenLive, BatchLive, Holding, Armed
      <4>3. act[a].seen # "dispatched" /\ NoneStray => NoneStray'
        BY <3>1, <3>2, <4>1 DEF NoneStray, Stray, Same, At
      <4>4. \A b \in Attempt : Sole(b)' /\ NoneStray => NoneStray'
        BY <4>1, <4>2, <4>3 DEF Sole
      <4> QED BY <3>1, <3>2, <4>1, <4>4, HeldKept DEF Inv
    <3> QED BY <3>3, <3>4, <3>5 DEF Inv
  <2> QED BY <2>1, <2>2
<1>4. CASE Reset(a)
  <2>1. CASE row.status = act[a].seen
    <3>1. /\ row'.status = "pending" /\ row'.gen = row.gen /\ owed' = None
          /\ \E y \in {[act[a] EXCEPT !.at = "superseding"], Reopened(act[a])} :
                act' = [act EXCEPT ![a] = y]
      BY <1>1, <1>4, <2>1 DEF Reset, Row
    <3>2. /\ \A b \in Attempt \ {a} : Same(b)
          /\ act[a].at = "resetting"
          /\ act'[a].at \in {"superseding", "idle", "gates", "loading"}
          /\ act'[a].agent = act[a].agent
      <4>1. Reopened(act[a]).at \in {"idle", "gates", "loading"} /\ Reopened(act[a]).agent = act[a].agent
        BY <1>1, Records
      <4> QED BY <1>1, <1>4, <3>1, <4>1 DEF Reset, Same, At, Activation
    <3>3. Answered'
      BY <3>1, <3>2 DEF Inv, Answered, Same, At
    <3>4. EndIsReported'
      BY <3>1 DEF EndIsReported
    <3>5. Held'
      <4>1. \A b \in Attempt : ~Sole(b)
        BY <1>4, <2>1 DEF Inv, Held, Reset, NoneStray, Stray, Dispatched, At
      <4> QED BY <1>4, <3>2, <4>1 DEF Reset, Rest, Held, Sole, Holding, Same
    <3> QED BY <3>3, <3>4, <3>5 DEF Inv
  <2>2. CASE row.status # act[a].seen
    <3>1. /\ act' = [act EXCEPT ![a] = Refused(@)]
          /\ row' = row /\ owed' = owed /\ raced' = raced
      BY <1>4, <2>2 DEF Reset, Rest
    <3>2. /\ \A b \in Attempt \ {a} : Same(b)
          /\ act[a].at = "resetting" /\ act'[a].at \in {"idle", "gates"}
          /\ act'[a].agent = act[a].agent
      BY <1>1, <1>4, <3>1, Records DEF Reset, Same, At
    <3>3. Answered'
      BY <3>1, <3>2 DEF Inv, Answered, Same, At
    <3>4. EndIsReported'
      BY <3>1, <3>2 DEF Inv, EndIsReported, Same, At, TypeOK
    <3>5. Held'
      <4>1. \A b \in Attempt : Holding(b)' => Holding(b) /\ b # a
        BY <3>2 DEF Same, Holding
      <4>2. NoneStray => NoneStray'
        BY <3>1, <3>2, <4>1 DEF NoneStray, Stray, Same, At
      <4> QED BY <3>1, <3>2, <4>1, <4>2, HeldKept DEF Inv
    <3> QED BY <3>3, <3>4, <3>5 DEF Inv
  <2> QED BY <2>1, <2>2
<1> QED BY <1>3, <1>4

(* The claim of a pending row, and of a row that is not.                   *)
LEMMA ClaimStep ==
    ASSUME TypeOK, Inv, NEW a \in Attempt, Claim(a)
    PROVE  Inv'
<1>1. act \in [Attempt -> Activation] /\ act[a] \in Activation /\ row \in Row
  BY DEF TypeOK
<1>2. CASE Pending
  <2> DEFINE p == IF IsBatch(a) THEN "inserting" ELSE "message"
             g == IF IsBatch(a) THEN None ELSE a
  <2>1. /\ act' = [act EXCEPT ![a].at = p] /\ owed' = owed
        /\ row' = [row EXCEPT !.status = "dispatched", !.gen = g]
        /\ raced' = {b \in raced : Holding(b)} \cup (IF NoneStray THEN {} ELSE {a})
    BY <1>2 DEF Claim, Goto
  <2>2. /\ \A b \in Attempt \ {a} : Same(b)
        /\ act'[a].at = p /\ act'[a].agent = act[a].agent
        /\ row'.status = "dispatched" /\ row'.gen = g
    BY <1>1, <2>1 DEF Same, Activation, Row
  <2>3. p \in {"inserting", "message"} /\ (p = "inserting" <=> g = None)
    OBVIOUS
  <2> HIDE DEF p, g
  <2>4. Answered'
    BY <2>2, <2>3 DEF Inv, Answered, Same, At
  <2>5. EndIsReported'
    BY <1>2, <2>1 DEF Inv, EndIsReported, Pending, Ended
  <2>6. Held'
    <3>1. \A b \in Attempt : ~Sole(b)
      BY <1>2 DEF Inv, Held, Pending, Dispatched
    <3>2. \A b \in Attempt \ {a} : Holding(b)' => Holding(b) /\ b \in raced'
      BY <2>1, <2>2, <3>1 DEF Sole, Holding, Same
    <3> SUFFICES ASSUME NEW b \in Attempt, Sole(b)'
                 PROVE  /\ Dispatched' /\ NoneStray'
                        /\ row'.gen = IF At(b, "inserting")' THEN None ELSE b
                        /\ \A c \in Attempt : Holding(c)' => c = b
      BY DEF Held
    <3>3. b = a /\ NoneStray
      BY <2>1, <3>2 DEF Sole
    <3>4. \A c \in Attempt \ {a} : ~Holding(c)'
      BY <3>1, <3>2, <3>3 DEF NoneStray, Stray, Sole
    <3>5. NoneStray'
      BY <2>1, <2>2, <2>3, <3>3, <3>4 DEF NoneStray, Stray, Same, At, Sole
    <3>6. row'.gen = IF act'[a].at = "inserting" THEN None ELSE a
      BY <2>2, <2>3 DEF g
    <3> QED BY <2>2, <3>3, <3>4, <3>5, <3>6 DEF Dispatched, At
  <2> QED BY <2>4, <2>5, <2>6 DEF Inv
<1>3. CASE ~Pending
  <2>1. act' = [act EXCEPT ![a] = Cancelled(Idle(@))] /\ row' = row /\ owed' = owed
    BY <1>3 DEF Claim
  <2>2. QuietStep(a)
    BY <1>1, <1>3, <2>1, Records DEF Claim, QuietStep, Same, Plain, At
  <2> QED BY <2>2, QuietInv
<1> QED BY <1>2, <1>3

(* A step that leaves the row: what it may do to an ended one.             *)
LEMMA RowKept ==
    ASSUME TypeOK, Inv, row' = row, owed' \in {owed, None},
           \A b \in Attempt :
              /\ act[b].at \in {"reporting", "idle"} /\ act[b].agent = "resolved" =>
                    act'[b].at \in {"reporting", "idle"} /\ act'[b].agent = "resolved"
              /\ act'[b].at = "closing" /\ act'[b].verdict = "resolved" =>
                    act'[b].agent = "resolved"
              /\ act[b].at = "reporting" /\ owed' = b => act'[b].at = "reporting",
           Held'
    PROVE  Inv'
<1>1. Answered'
  BY DEF Inv, Answered, At
<1>2. EndIsReported'
  BY DEF TypeOK, Inv, EndIsReported, At
<1> QED BY <1>1, <1>2 DEF Inv

(* The turn: its prompt, its end, and a run that gets old.                 *)
LEMMA TurnSteps ==
    ASSUME TypeOK, Inv, NEW a \in Attempt,
           Bind(a) \/ Send(a) \/ Release(a) \/ Timeout(a) \/ Age(a)
    PROVE  Inv'
<1>1. act \in [Attempt -> Activation] /\ act[a] \in Activation /\ row \in Row
  BY DEF TypeOK
<1>2. CASE Bind(a)
  <2>1. /\ act' = [act EXCEPT ![a].at = "message", ![a].run = "in_flight"]
        /\ row' = IF Dispatched THEN [row EXCEPT !.gen = a] ELSE row
        /\ owed' = owed /\ raced' = raced /\ act[a].at = "inserting"
    BY <1>2 DEF Bind, Rest, At
  <2>2. /\ \A b \in Attempt \ {a} : Same(b)
        /\ act'[a].at = "message" /\ act'[a].agent = act[a].agent
        /\ row'.status = row.status /\ row'.gen = IF Dispatched THEN a ELSE row.gen
    BY <1>1, <2>1 DEF Same, Activation, Row
  <2>3. Answered'
    <3>1. ASSUME row'.status = "resolved"
          PROVE  /\ row'.gen \in Attempt /\ act'[row'.gen].agent = "resolved"
                 /\ act'[row'.gen].at \in {"reporting", "idle"}
      <4>1. row'.gen = row.gen /\ row.status = "resolved"
        BY <2>2, <3>1 DEF Dispatched
      <4>2. /\ row.gen \in Attempt /\ act[row.gen].agent = "resolved"
            /\ act[row.gen].at \in {"reporting", "idle"}
        BY <4>1 DEF Inv, Answered
      <4>3. row.gen # a
        BY <2>1, <4>2
      <4> QED BY <2>2, <4>1, <4>2, <4>3 DEF Same
    <3>2. ASSUME NEW b \in Attempt, act'[b].at = "closing", act'[b].verdict = "resolved"
          PROVE  act'[b].agent = "resolved"
      <4>1. b # a
        BY <2>2, <3>2
      <4>2. act[b].at = "closing" /\ act[b].verdict = "resolved" /\ act'[b].agent = act[b].agent
        BY <2>2, <3>2, <4>1 DEF Same
      <4> QED BY <4>2 DEF Inv, Answered, At
    <3> QED BY <3>1, <3>2 DEF Answered, At
  <2>4. EndIsReported'
    BY <2>1, <2>2 DEF TypeOK, Inv, EndIsReported, Same, At
  <2>5. Held'
    <3>1. Holding(a) /\ \A b \in Attempt : Holding(b)' <=> Holding(b)
      BY <2>1, <2>2 DEF Holding, Same
    <3>2. NoneStray => NoneStray'
      BY <2>1, <2>2, <3>1 DEF NoneStray, Stray, Same, At
    <3>3. \A b \in Attempt : Sole(b) => b = a
      BY <3>1 DEF Inv, Held, Sole
    <3> QED BY <2>1, <2>2, <3>1, <3>2, <3>3 DEF Inv, Held, Sole, Dispatched, At
  <2> QED BY <2>3, <2>4, <2>5 DEF Inv
<1>3. CASE Send(a)
  <2>1. /\ \A b \in Attempt \ {a} : Same(b)
        /\ act[a].at = "message" /\ act'[a].at = "sent"
        /\ row' = row /\ owed' = owed /\ raced' = raced
    BY <1>1, <1>3 DEF Send, Rest, At, Same, Activation
  <2>2. Held'
    <3>1. Holding(a) /\ \A b \in Attempt : Holding(b)' <=> Holding(b)
      BY <2>1 DEF Holding, Same
    <3>2. NoneStray => NoneStray'
      BY <2>1, <3>1 DEF NoneStray, Stray, Same, At
    <3>3. \A b \in Attempt : Sole(b) => b = a
      BY <3>1 DEF Inv, Held, Sole
    <3> QED BY <2>1, <3>1, <3>2, <3>3 DEF Inv, Held, Sole, Dispatched, At
  <2>3. \A b \in Attempt \ {a} : act'[b].at = "closing" /\ act'[b].verdict = "resolved" =>
                                    act'[b].agent = "resolved"
    BY <2>1 DEF Same, Inv, Answered, At
  <2> QED BY <2>1, <2>2, <2>3, RowKept DEF Same
<1>4. CASE Release(a) \/ Timeout(a)
  <2>1. /\ \A b \in Attempt \ {a} : Same(b)
        /\ act[a].at = "sent" /\ act'[a].at \in {"failing", "closing"}
        /\ act'[a].at = "closing" => act'[a].verdict = "unresolved"
        /\ row' = row /\ owed' = owed /\ raced' = raced
    BY <1>1, <1>4 DEF Release, Timeout, Rest, Goto, At, Same, Activation
  <2>2. Held'
    <3>1. Holding(a) /\ ~Holding(a)' /\ \A b \in Attempt \ {a} : Holding(b)' <=> Holding(b)
      BY <2>1 DEF Holding, Same
    <3>2. \A b \in Attempt : ~Sole(b)'
      BY <2>1, <3>1 DEF Inv, Held, Sole
    <3> QED BY <3>2 DEF Held
  <2>3. \A b \in Attempt \ {a} : act'[b].at = "closing" /\ act'[b].verdict = "resolved" =>
                                    act'[b].agent = "resolved"
    BY <2>1 DEF Same, Inv, Answered, At
  <2> QED BY <2>1, <2>2, <2>3, RowKept DEF Same
<1>5. CASE Age(a)
  <2>1. (\A b \in Attempt : Same(b)) /\ row' = row /\ owed' = owed /\ raced' = raced
    BY <1>1, <1>5 DEF Age, Rest, Same, Activation
  <2>2. Held'
    <3>1. \A b \in Attempt : Holding(b)' => Holding(b)
      BY <2>1 DEF Holding, Same
    <3>2. NoneStray => NoneStray'
      BY <2>1, <3>1 DEF NoneStray, Stray, Same, At
    <3> QED BY <2>1, <3>1, <3>2, HeldKept DEF Inv
  <2>3. \A b \in Attempt : act'[b].at = "closing" /\ act'[b].verdict = "resolved" =>
                              act'[b].agent = "resolved"
    BY <2>1 DEF Same, Inv, Answered, At
  <2> QED BY <2>1, <2>2, <2>3, RowKept DEF Same
<1> QED BY <1>2, <1>3, <1>4, <1>5

(* The agent's answer is heard by the turn it echoes, or by nobody.        *)
LEMMA AnswerStep ==
    ASSUME TypeOK, Inv, NEW a \in Attempt, NEW v \in {"resolved", "unresolved"}, Answer(a, v)
    PROVE  Inv'
<1>1. act \in [Attempt -> Activation] /\ act[a] \in Activation
  BY DEF TypeOK
<1>2. act[a].agent = "asked" /\ row' = row /\ owed' = owed /\ raced' = raced
  BY DEF Answer, Rest
<1>3. \/ act' = [act EXCEPT ![a].agent = v]
      \/ /\ act[a].at = "sent"
         /\ act'[a] = [[[act[a] EXCEPT !.agent = v] EXCEPT !.at = "closing"] EXCEPT !.verdict = v]
         /\ \A b \in Attempt \ {a} : act'[b] = act[b]
  <2>1. CASE \E c \in Attempt : At(c, "sent") /\ Accepts(c, a)
    <3>1. PICK c \in Attempt :
             /\ At(c, "sent") /\ Accepts(c, a)
             /\ act' = [b \in Attempt |->
                   LET heard == IF b = a THEN [act[b] EXCEPT !.agent = v] ELSE act[b] IN
                   IF b = c THEN [heard EXCEPT !.at = "closing", !.verdict = v] ELSE heard]
      BY <2>1 DEF Answer
    <3>2. c = a /\ act[a].at = "sent"
      BY <3>1 DEF Accepts, At
    <3>3. act'[a] = [[[act[a] EXCEPT !.agent = v] EXCEPT !.at = "closing"] EXCEPT !.verdict = v]
      BY <3>1, <3>2
    <3>4. \A b \in Attempt \ {a} : act'[b] = act[b]
      BY <3>1, <3>2
    <3> QED BY <3>2, <3>3, <3>4
  <2>2. CASE ~\E c \in Attempt : At(c, "sent") /\ Accepts(c, a)
    BY <2>2 DEF Answer
  <2> QED BY <2>1, <2>2
<1>4. /\ \A b \in Attempt \ {a} : Same(b)
      /\ act'[a].agent = v /\ act'[a].seen = act[a].seen
      /\ \/ act'[a].at = act[a].at /\ act'[a].verdict = act[a].verdict
         \/ act[a].at = "sent" /\ act'[a].at = "closing" /\ act'[a].verdict = v
  <2>1. \A b \in Attempt \ {a} : Same(b)
    BY <1>1, <1>3 DEF Same
  <2>2. CASE act' = [act EXCEPT ![a].agent = v]
    <3>1. act'[a] = [act[a] EXCEPT !.agent = v]
      BY <1>1, <2>2
    <3> QED BY <1>1, <2>1, <3>1 DEF Activation
  <2>3. CASE /\ act[a].at = "sent"
             /\ act'[a] = [[[act[a] EXCEPT !.agent = v] EXCEPT !.at = "closing"] EXCEPT !.verdict = v]
    BY <1>1, <2>1, <2>3 DEF Activation
  <2> QED BY <1>3, <2>2, <2>3
<1>5. \A b \in Attempt : act'[b].at = "closing" /\ act'[b].verdict = "resolved" =>
         act'[b].agent = "resolved"
  BY <1>2, <1>4 DEF Same, Inv, Answered, At
<1>6. Held'
  <2>1. \A b \in Attempt : Holding(b)' => Holding(b)
    BY <1>4 DEF Holding, Same
  <2>2. NoneStray => NoneStray'
    BY <1>2, <1>4, <2>1 DEF NoneStray, Stray, Same, At
  <2>3. \A b \in Attempt : Holding(b)' => (At(b, "inserting")' <=> At(b, "inserting"))
    BY <1>4 DEF Holding, At, Same
  <2> QED BY <1>2, <2>1, <2>2, <2>3 DEF Inv, Held, Sole, Dispatched
<1> QED BY <1>2, <1>4, <1>5, <1>6, RowKept DEF Same

(* A statement that throws.                                                *)
LEMMA ThrowStep ==
    ASSUME TypeOK, Inv, NEW a \in Attempt, Throw(a)
    PROVE  Inv'
<1>1. act \in [Attempt -> Activation] /\ act[a] \in Activation
  BY DEF TypeOK
<1>2. /\ \A b \in Attempt \ {a} : Same(b)
      /\ row' = row /\ owed' = IF owed = a THEN None ELSE owed
      /\ raced' = IF At(a, "armed") THEN raced \cup {b \in Attempt : Holding(b)} ELSE raced
  BY <1>1 DEF Throw, Goto, Stop, Same
<1>3. /\ act'[a].agent = act[a].agent
      /\ \/ act'[a].at \in {"idle", "gates"}
         \/ act'[a].at = "failing" /\ (At(a, "armed") \/ Holding(a))
      /\ act[a].at # "idle" /\ (act[a].at = "reporting" => act'[a].at = "idle")
  <2>5. /\ Refused(act[a]).at \in {"idle", "gates"} /\ Refused(act[a]).agent = act[a].agent
        /\ Idle(act[a]).at = "idle" /\ Idle(act[a]).agent = act[a].agent
    BY <1>1, Records
  <2>1. CASE act[a].at \in Reopening /\ act' = [act EXCEPT ![a] = Refused(@)]
    BY <1>1, <2>1, <2>5 DEF Reopening
  <2>2. CASE act[a].at \in {"armed", "inserting", "message"} /\ Goto(a, "failing")
    BY <1>1, <2>2 DEF Goto, Activation, Holding, At
  <2>4. CASE act[a].at \in {"loading", "gates", "slot", "parking"} \cup Ending /\ Stop(a)
    BY <1>1, <2>4, <2>5 DEF Stop, Ending
  <2> QED BY <2>1, <2>2, <2>4 DEF Throw
<1>4. \A b \in Attempt : act'[b].at = "closing" /\ act'[b].verdict = "resolved" =>
         act'[b].agent = "resolved"
  BY <1>2, <1>3 DEF Same, Inv, Answered, At
<1>5. Held'
  <2>1. ~Holding(a)' /\ \A b \in Attempt \ {a} : Holding(b)' <=> Holding(b)
    BY <1>2, <1>3 DEF Holding, Same
  <2>2. CASE At(a, "armed")
    <3>1. \A b \in Attempt : ~Sole(b)'
      BY <1>2, <2>1, <2>2 DEF Sole
    <3> QED BY <3>1 DEF Held
  <2>3. CASE Holding(a) /\ ~At(a, "armed")
    <3>1. \A b \in Attempt : ~Sole(b)'
      BY <1>2, <2>1, <2>3 DEF Inv, Held, Sole
    <3> QED BY <3>1 DEF Held
  <2>4. CASE ~Holding(a) /\ ~At(a, "armed")
    <3>1. raced' = raced
      BY <1>2, <2>4
    <3>2. NoneStray => NoneStray'
      BY <1>2, <1>3, <2>1, <2>4, <3>1 DEF NoneStray, Stray, Same, At
    <3>3. \A b \in Attempt : Holding(b)' => Holding(b) /\ Same(b)
      BY <1>2, <2>1
    <3> QED BY <1>2, <3>1, <3>2, <3>3, HeldKept DEF Inv
  <2> QED BY <2>2, <2>3, <2>4
<1> QED BY <1>2, <1>3, <1>4, <1>5, RowKept DEF Same

(* A restart.                                                              *)
LEMMA CrashStep ==
    ASSUME TypeOK, Inv, Crash
    PROVE  Inv'
<1>1. \A b \in Attempt : act'[b].at = "idle" /\ act'[b].agent = act[b].agent
  BY Records DEF Crash, TypeOK
<1>2. row' = row /\ owed' = None
  BY DEF Crash
<1>3. Held'
  BY <1>1 DEF Held, Sole, Holding
<1> QED BY <1>1, <1>2, <1>3, RowKept

-----------------------------------------------------------------------------
LEMMA InitInv == Init => Inv
BY DEF Init, Inv, Answered, EndIsReported, Held, Sole, Holding, At, Unused

LEMMA NextInv == TypeOK /\ Inv /\ [Next]_vars => Inv'
<1> SUFFICES ASSUME TypeOK, Inv, [Next]_vars PROVE Inv'
  OBVIOUS
<1>1. CASE UNCHANGED <<row, act, owed, raced>>
  <2>1. Answered'
    BY <1>1 DEF Inv, Answered, At
  <2>2. EndIsReported'
    BY <1>1 DEF Inv, EndIsReported, At
  <2>3. Held'
    <3>1. NoneStray => NoneStray'
      BY <1>1 DEF NoneStray, Stray, Holding, At
    <3> QED BY <1>1, <3>1 DEF Inv, Held, Sole, Holding, Dispatched, At
  <2> QED BY <2>1, <2>2, <2>3 DEF Inv
<1>2. CASE UNCHANGED vars \/ Connect \/ Drop
  BY <1>1, <1>2 DEF vars, Connect, Drop
<1>3. CASE Crash
  BY <1>3, CrashStep
<1>4. ASSUME NEW a \in Attempt, Redeliver(a) \/ Retry(a) \/ Step(a) \/ Sweep(a)
      PROVE  Inv'
  <2>1. CASE \/ Redeliver(a) \/ Retry(a) \/ Supersede(a) \/ Load(a) \/ TakeSlot(a)
             \/ Queue(a) \/ Vanish(a) \/ Promote(a) \/ Park(a) \/ MarkParked(a) \/ Open(a)
             \/ FindNoChannel(a) \/ Sweep(a)
    BY <2>1, QuietSteps, QuietInv
  <2> QED BY <1>4, <2>1, EndSteps, ReopenSteps, ClaimStep, TurnSteps DEF Step
<1>5. ASSUME NEW a \in Attempt, GraceStep(a)
      PROVE  Inv'
  BY <1>5, QuietSteps, QuietInv, EndSteps DEF GraceStep
<1>6. ASSUME NEW a \in Attempt,
             \/ Release(a) \/ Throw(a) \/ Age(a)
             \/ \E v \in {"resolved", "unresolved"} : Answer(a, v)
      PROVE  Inv'
  BY <1>6, TurnSteps, ThrowStep, AnswerStep
<1> QED BY <1>2, <1>3, <1>4, <1>5, <1>6 DEF Next

LEMMA Invariance == Spec => []Inv
<1>1. Init /\ [][Next]_vars => []Inv
  BY InitType, NextType, InitInv, NextInv, PTL
<1> QED BY <1>1 DEF Spec

(* Whatever resends, retries, sweeps, late replies and restarts do, a      *)
(* resolved annotation has had its answer from the agent of its own        *)
(* generation.                                                             *)
THEOREM ResolvedByItsOwnAgent == Spec => []OwnVerdict
<1>1. Inv => OwnVerdict
  BY DEF Inv, Answered, OwnVerdict
<1> QED BY <1>1, Invariance, PTL

(* No status that ends the row is written without a callback to follow.    *)
THEOREM EveryEndIsReported == Spec => []EndIsReported
<1>1. Inv => EndIsReported
  BY DEF Inv
<1> QED BY <1>1, Invariance, PTL

(* The row belongs to the turn in flight until that turn ends it, unless a *)
(* write that checks no generation was under way beside the turn.          *)
THEOREM TheTurnKeepsItsRow == Spec => []TurnKeepsRow
<1>1. Inv => TurnKeepsRow
  <2> SUFFICES ASSUME Inv, NEW a \in Attempt, At(a, "sent"), a \notin raced PROVE OwnsRow(a)
    BY DEF TurnKeepsRow
  <2>1. Held /\ Sole(a) /\ ~At(a, "inserting")
    BY DEF Inv, Sole, Holding, At
  <2> QED BY <2>1 DEF Held, OwnsRow
<1> QED BY <1>1, Invariance, PTL

(* The agents get an annotation one at a time: from the claim of a send to *)
(* the end of its turn no other activation, single or of a batch, retried, *)
(* swept or replayed, stands between its claim and the end of its turn,    *)
(* unless a write without a generation was under way beside it.            *)
(* TurnKeepsRow does not say so of a batch member whose run has no id yet. *)
THEOREM OneTurnAtATime ==
    Spec => [](\A a, b \in Attempt : Sole(a) /\ Holding(b) => a = b)
<1>1. Inv => \A a, b \in Attempt : Sole(a) /\ Holding(b) => a = b
  BY DEF Inv, Held
<1> QED BY <1>1, Invariance, PTL

-----------------------------------------------------------------------------
(* A verdict stands.  The webhook asks about a row only in the states it   *)
(* may reopen, and what was seen travels with the activation to the reset, *)
(* a compare-and-set on it (reopen.ts); only the retry route asks about a  *)
(* resolved row.                                                           *)
Asking == {"asked", "resetting"}
Reopens == {"dispatched", "failed", "failed_offline"}
AskedFor(x) == x.at \in Asking /\ x.kind # "forced" => x.seen \in Reopens
ResendSees == \A a \in Attempt : AskedFor(act[a])

AsksAlike(b) ==
    act'[b].at \in Asking =>
       \/ act[b].at \in Asking /\ act'[b].kind = act[b].kind /\ act'[b].seen = act[b].seen
       \/ AskedFor(act'[b])

LEMMA AskingKept ==
    ASSUME ResendSees, \A b \in Attempt : AsksAlike(b)
    PROVE  ResendSees'
BY DEF ResendSees, AsksAlike, AskedFor

LEMMA AskingRecords ==
    ASSUME NEW x \in Activation
    PROVE  /\ Idle(x).at \notin Asking /\ Cancelled(Idle(x)).at \notin Asking
           /\ Dispatch(x).at \notin Asking /\ Queued(x).at \notin Asking
           /\ Refused(x).at \notin Asking /\ Reopened(x).at \notin Asking
           /\ Cancelled(x).at = x.at /\ Cancelled(x).kind = x.kind /\ Cancelled(x).seen = x.seen
           /\ \A p \in Place : [x EXCEPT !.at = p].at = p /\ [x EXCEPT !.at = p].kind = x.kind
                               /\ [x EXCEPT !.at = p].seen = x.seen
BY DEF Activation, Idle, Cancelled, Queued, Refused, Reopened, Dispatch, Asking

(* One slot takes a value that asks for nothing, or for what it asked for. *)
LEMMA OneAsks ==
    ASSUME TypeOK, ResendSees, NEW a \in Attempt, NEW x, act' = [act EXCEPT ![a] = x],
           x.at \notin Asking \/ AskedFor(x)
                 \/ (act[a].at \in Asking /\ x.kind = act[a].kind /\ x.seen = act[a].seen)
    PROVE  ResendSees'
<1>1. act'[a] = x /\ \A b \in Attempt \ {a} : act'[b] = act[b]
  BY DEF TypeOK
<1>2. \A b \in Attempt : AsksAlike(b)
  BY <1>1 DEF AsksAlike
<1> QED BY <1>2, AskingKept

LEMMA AskSteps ==
    ASSUME TypeOK, ResendSees, NEW a \in Attempt,
           Redeliver(a) \/ Retry(a) \/ Check(a) \/ Reset(a) \/ Supersede(a) \/ Load(a)
    PROVE  ResendSees'
<1>1. act \in [Attempt -> Activation] /\ act[a] \in Activation /\ Unused \in Activation
  BY UnusedFits DEF TypeOK, Fits
<1>2. CASE Redeliver(a)
  <2>1. CASE row.status \in Reopens
    <3> DEFINE x == [New("single", "asked") EXCEPT !.seen = row.status]
    <3>1. act' = [act EXCEPT ![a] = x] /\ AskedFor(x)
      BY <1>2, <2>1, <1>1 DEF Redeliver, Reopens, AskedFor, New, Activation
    <3> QED BY <3>1, OneAsks
  <2>2. CASE row.status \notin Reopens
    BY <1>1, <1>2, <2>2, AskingRecords, OneAsks DEF Redeliver, Reopens
  <2> QED BY <2>1, <2>2
<1>3. CASE Retry(a)
  <2> DEFINE x == [New("forced", "asked") EXCEPT !.seen = row.status]
  <2>1. x.kind = "forced"
    BY <1>1 DEF New, Activation
  <2> QED BY <1>3, <2>1, OneAsks DEF Retry, AskedFor
<1>4. CASE Check(a)
  <2>1. /\ act[a].at \in Asking
        /\ [act[a] EXCEPT !.at = "resetting"].kind = act[a].kind
        /\ [act[a] EXCEPT !.at = "resetting"].seen = act[a].seen
    BY <1>1, <1>4 DEF Check, At, Asking, Activation
  <2> QED BY <1>1, <1>4, <2>1, AskingRecords, OneAsks DEF Check
<1>5. CASE Reset(a)
  <2>1. [act[a] EXCEPT !.at = "superseding"].at \notin Asking
    BY <1>1 DEF Asking, Activation
  <2>2. \/ act' = [act EXCEPT ![a] = [act[a] EXCEPT !.at = "superseding"]]
        \/ act' = [act EXCEPT ![a] = Reopened(act[a])]
        \/ act' = [act EXCEPT ![a] = Refused(act[a])]
    BY <1>5 DEF Reset
  <2> QED BY <1>1, <2>1, <2>2, AskingRecords, OneAsks
<1>6. CASE Supersede(a)
  <2>1. \A b \in Attempt : act'[b] = IF b = a THEN Reopened(act[b]) ELSE Cancelled(act[b])
    BY <1>6 DEF Supersede
  <2>2. \A b \in Attempt : AsksAlike(b)
    BY <1>1, <2>1, AskingRecords DEF AsksAlike
  <2> QED BY <2>2, AskingKept
<1>7. CASE Load(a)
  BY <1>1, <1>7, AskingRecords, OneAsks DEF Load
<1> QED BY <1>2, <1>3, <1>4, <1>5, <1>6, <1>7

(* Every other step of an activation asks for nothing.                     *)
LEMMA NoAsk ==
    ASSUME TypeOK, ResendSees, NEW a \in Attempt,
           \/ Reject(a) \/ TakeSlot(a) \/ Queue(a) \/ Vanish(a) \/ Promote(a) \/ Park(a)
           \/ MarkParked(a) \/ Open(a) \/ FindNoChannel(a) \/ Claim(a) \/ Bind(a) \/ Send(a)
           \/ Release(a) \/ Fail(a) \/ Timeout(a) \/ Close(a) \/ Report(a) \/ Age(a)
           \/ Throw(a) \/ Sweep(a) \/ GraceStep(a)
           \/ \E v \in {"resolved", "unresolved"} : Answer(a, v)
    PROVE  ResendSees'
<1>1. act \in [Attempt -> Activation] /\ act[a] \in Activation
  BY DEF TypeOK
<1>2. \A p \in Place : [act[a] EXCEPT !.at = p].at = p
  BY <1>1 DEF Activation
<1>3. \A k \in Kind, p \in Place : New(k, p).at = p
  BY UnusedFits DEF New, Fits, Activation
<1>4. CASE \/ Reject(a) \/ TakeSlot(a) \/ Queue(a) \/ Vanish(a) \/ Promote(a) \/ Park(a)
           \/ MarkParked(a) \/ Release(a) \/ Report(a)
  <2>1. \/ act' = [act EXCEPT ![a] = Idle(act[a])] \/ act' = [act EXCEPT ![a] = Queued(act[a])]
        \/ \E p \in {"reporting", "slot", "gates", "parking", "failing"} :
              act' = [act EXCEPT ![a] = [act[a] EXCEPT !.at = p]]
    BY <1>4 DEF Reject, TakeSlot, Queue, Vanish, Promote, Park, MarkParked, Release, Report, Goto, Stop
  <2> QED BY <1>1, <2>1, AskingRecords, OneAsks DEF Asking, Activation
<1>5. CASE Open(a) \/ FindNoChannel(a) \/ Claim(a) \/ Bind(a) \/ Send(a)
  <2>1. /\ \A b \in Attempt \ {a} : act'[b] = act[b]
        /\ act'[a].at \in {"armed", "parking", "idle", "inserting", "message", "sent"}
    <3>1. CASE Open(a) \/ FindNoChannel(a)
      BY <1>1, <3>1, Records DEF Open, FindNoChannel, Goto, Stop, Activation
    <3>2. CASE Claim(a)
      <4>1. \/ \E p \in {"inserting", "message"} : act' = [act EXCEPT ![a].at = p]
            \/ act' = [act EXCEPT ![a] = Cancelled(Idle(@))]
        BY <3>2 DEF Claim, Goto
      <4> QED BY <1>1, <4>1, Records DEF Activation
    <3>3. CASE Bind(a) \/ Send(a)
      BY <1>1, <3>3 DEF Bind, Send, Activation
    <3> QED BY <1>5, <3>1, <3>2, <3>3
  <2>2. \A b \in Attempt : AsksAlike(b)
    BY <2>1 DEF AsksAlike, Asking
  <2> QED BY <2>2, AskingKept
<1>6. CASE Fail(a) \/ Timeout(a) \/ Close(a)
  <2>1. /\ \A b \in Attempt \ {a} : act'[b] = act[b]
        /\ act'[a].at \in {"reporting", "closing", "idle"}
    <3>1. \/ act' = [act EXCEPT ![a] = [Cancelled(@) EXCEPT !.at = "reporting"]]
          \/ act' = [act EXCEPT ![a] = IF IsBatch(a) THEN Idle(@) ELSE Cancelled(Idle(@))]
          \/ act' = [act EXCEPT ![a] = Cancelled(Idle(@))]
          \/ act' = [act EXCEPT ![a].at = "closing", ![a].verdict = "unresolved"]
      BY <1>6 DEF Fail, Timeout, Close
    <3>2. /\ [Cancelled(act[a]) EXCEPT !.at = "reporting"].at = "reporting"
          /\ [[act[a] EXCEPT !.at = "closing"] EXCEPT !.verdict = "unresolved"].at = "closing"
      BY <1>1 DEF Cancelled, Activation
    <3> QED BY <1>1, <3>1, <3>2, Records
  <2>2. \A b \in Attempt : AsksAlike(b)
    BY <2>1 DEF AsksAlike, Asking
  <2> QED BY <2>2, AskingKept
<1>7. CASE Age(a)
  <2>1. \A b \in Attempt : act'[b].at = act[b].at /\ act'[b].kind = act[b].kind /\ act'[b].seen = act[b].seen
    BY <1>1, <1>7 DEF Age, Activation
  <2>2. \A b \in Attempt : AsksAlike(b)
    BY <2>1 DEF AsksAlike
  <2> QED BY <2>2, AskingKept
<1>8. CASE Throw(a)
  <2>1. \/ act' = [act EXCEPT ![a] = Idle(act[a])] \/ act' = [act EXCEPT ![a] = Refused(act[a])]
        \/ act' = [act EXCEPT ![a] = [act[a] EXCEPT !.at = "failing"]]
    BY <1>8 DEF Throw, Goto, Stop
  <2> QED BY <1>1, <2>1, AskingRecords, OneAsks DEF Asking, Activation
<1>9. CASE Sweep(a) \/ GraceStep(a)
  <2>1. /\ \A b \in Attempt \ {a} : act'[b] = act[b]
        /\ act'[a] = act[a] \/ act'[a].at \in {"loading", "gates", "reporting"}
    <3>1. CASE SweepSingle(a)
      BY <1>1, <1>3, <3>1 DEF SweepSingle, Activation, Kind, Place
    <3>2. CASE SweepBatch(a)
      BY <1>1, <1>3, <3>2 DEF SweepBatch, Activation, Kind, Place
    <3>3. ASSUME NEW k \in Token, Expire(a, k) \/ Replay(a, k)
          PROVE  /\ \A b \in Attempt \ {a} : act'[b] = act[b]
                 /\ act'[a] = act[a] \/ act'[a].at \in {"loading", "gates", "reporting"}
      <4>1. k \in Kind
        BY DEF Token, Kind
      <4>2. /\ New(k, "reporting").at = "reporting" /\ New(k, "gates").at = "gates"
            /\ New(k, "loading").at = "loading"
        BY <1>3, <4>1 DEF Place, Ending, Kind
      <4> QED BY <1>1, <3>3, <4>2 DEF Expire, Replay, AfterExpiry
    <3> QED BY <1>9, <3>1, <3>2, <3>3 DEF Sweep, GraceStep
  <2>2. \A b \in Attempt : AsksAlike(b)
    BY <2>1 DEF AsksAlike, Asking
  <2> QED BY <2>2, AskingKept
<1>10. CASE \E v \in {"resolved", "unresolved"} : Answer(a, v)
  <2>1. PICK v \in {"resolved", "unresolved"} : Answer(a, v)
    BY <1>10
  <2>2. \A b \in Attempt : /\ act'[b].kind = act[b].kind /\ act'[b].seen = act[b].seen
                           /\ act'[b].at = act[b].at \/ act'[b].at = "closing"
    <3>1. CASE act' = [act EXCEPT ![a].agent = v]
      BY <1>1, <3>1 DEF Activation
    <3>2. CASE ~(act' = [act EXCEPT ![a].agent = v])
      <4>1. PICK c \in Attempt :
               act' = [b \in Attempt |->
                   LET heard == IF b = a THEN [act[b] EXCEPT !.agent = v] ELSE act[b] IN
                   IF b = c THEN [heard EXCEPT !.at = "closing", !.verdict = v] ELSE heard]
        BY <2>1, <3>2 DEF Answer
      <4> QED BY <1>1, <4>1 DEF Activation
    <3> QED BY <3>1, <3>2
  <2>3. \A b \in Attempt : AsksAlike(b)
    BY <2>2 DEF AsksAlike, Asking
  <2> QED BY <2>3, AskingKept
<1> QED BY <1>4, <1>5, <1>6, <1>7, <1>8, <1>9, <1>10

LEMMA NextSees == TypeOK /\ ResendSees /\ [Next]_vars => ResendSees'
<1> SUFFICES ASSUME TypeOK, ResendSees, [Next]_vars PROVE ResendSees'
  OBVIOUS
<1>1. CASE UNCHANGED vars \/ Connect \/ Drop
  <2>1. act' = act
    BY <1>1 DEF vars, Connect, Drop
  <2> QED BY <2>1 DEF ResendSees
<1>2. CASE Crash
  <2>1. \A b \in Attempt : act'[b].at \notin Asking
    BY <1>2, AskingRecords DEF Crash, TypeOK
  <2> QED BY <2>1 DEF ResendSees, AskedFor
<1>3. ASSUME NEW a \in Attempt,
             \/ Redeliver(a) \/ Retry(a) \/ Step(a) \/ Sweep(a) \/ GraceStep(a)
             \/ Release(a) \/ Throw(a) \/ Age(a)
             \/ \E v \in {"resolved", "unresolved"} : Answer(a, v)
      PROVE  ResendSees'
  BY <1>3, AskSteps, NoAsk DEF Step
<1> QED BY <1>1, <1>2, <1>3 DEF Next

(* A resolved row is not written but by a retry that saw it resolved, and  *)
(* that one puts it back to pending and leaves its generation alone.       *)
VerdictKept ==
    row.status = "resolved" /\ row' # row =>
       /\ row'.status = "pending" /\ row'.gen = row.gen
       /\ \E a \in Attempt : At(a, "resetting") /\ act[a].kind = "forced" /\ act[a].seen = "resolved"

LEMMA VerdictStep == TypeOK /\ ResendSees /\ [Next]_vars => VerdictKept
<1> SUFFICES ASSUME TypeOK, ResendSees, [Next]_vars, row.status = "resolved", row' # row
             PROVE  VerdictKept
  BY DEF VerdictKept
<1>1. ~Pending /\ ~Dispatched
  BY DEF Pending, Dispatched
<1>2. ASSUME NEW a \in Attempt,
             \/ Redeliver(a) \/ Retry(a) \/ Check(a) \/ Supersede(a) \/ Load(a) \/ TakeSlot(a)
             \/ Queue(a) \/ Vanish(a) \/ Promote(a) \/ Park(a) \/ Open(a) \/ FindNoChannel(a)
      PROVE  FALSE
  BY <1>2 DEF Redeliver, Retry, Check, Supersede, Load, TakeSlot, Queue, Vanish, Promote, Park, Open,
     FindNoChannel
<1>3. ASSUME NEW a \in Attempt,
             \/ Send(a) \/ Release(a) \/ Timeout(a) \/ Report(a) \/ Age(a) \/ Throw(a)
             \/ SweepSingle(a) \/ SweepBatch(a) \/ \E v \in {"resolved", "unresolved"} : Answer(a, v)
             \/ \E k \in Token : Replay(a, k)
      PROVE  FALSE
  BY <1>3 DEF Send, Release, Timeout, Report, Age, Throw, SweepSingle, SweepBatch, Answer, Replay
<1>4. ASSUME NEW a \in Attempt,
             \/ Reject(a) \/ MarkParked(a) \/ Claim(a) \/ Bind(a) \/ Fail(a) \/ Close(a)
             \/ \E k \in Token : Expire(a, k)
      PROVE  FALSE
  BY <1>1, <1>4 DEF Reject, MarkParked, Claim, Bind, Fail, Close, OwnsRow, Expire
<1>5. ~Connect /\ ~Drop /\ ~Crash /\ ~UNCHANGED vars
  BY DEF Connect, Drop, Crash, vars
<1>6. PICK a \in Attempt : Reset(a)
  BY <1>2, <1>3, <1>4, <1>5 DEF Next, Step, Sweep, GraceStep
<1>7. /\ At(a, "resetting") /\ act[a].seen = "resolved"
      /\ row' = [row EXCEPT !.status = "pending", !.offline = FALSE]
  BY <1>6 DEF Reset
<1>8. act[a].kind = "forced"
  BY <1>7 DEF ResendSees, AskedFor, Asking, Reopens, At
<1>9. row'.status = "pending" /\ row'.gen = row.gen
  BY <1>7 DEF TypeOK, Row
<1> QED BY <1>7, <1>8, <1>9 DEF VerdictKept

(* A verdict stands, against any number of resends, replays, sweeps, late  *)
(* replies and failed sends of other activations: only the retry route     *)
(* takes a resolved annotation back.                                       *)
THEOREM VerdictStands == Spec => [][VerdictKept]_vars
<1>1. Init => ResendSees
  BY DEF Init, ResendSees, AskedFor, Asking, Unused
<1> QED BY <1>1, InitType, NextType, NextSees, VerdictStep, PTL DEF Spec
=============================================================================
