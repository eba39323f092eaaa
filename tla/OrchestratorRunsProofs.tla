----------------------- MODULE OrchestratorRunsProofs -----------------------
(***************************************************************************)
(* Theorems about OrchestratorRuns, for any supervisors, run rows, jobs,   *)
(* caps and faults: the type invariant, at most one open run, the bound on *)
(* the overrun of a cap, that a stop outside a sweep holds, and that the   *)
(* hub never drops the orchestrator on its own.                            *)
(***************************************************************************)
EXTENDS OrchestratorRuns, FiniteSetTheorems, TLAPS

USE NoneAssumption, BoundAssumption, StopAssumption

-----------------------------------------------------------------------------
(* Types.                                                                  *)

(* The part of TypeOK that is about one job.                               *)
Fits(x) ==
    /\ x \in Activity
    /\ x.at = "insert" => x.target # None
    /\ x.at \in {"presend", "unwind"} => x.new # None
    /\ x.at \in {"finish", "end"} => x.cur # None

(* The part that is about none.                                            *)
Surroundings ==
    /\ row \in [Run -> Row]
    /\ lastStopped \in BOOLEAN /\ session \in BOOLEAN /\ final \in BOOLEAN
    /\ online \subseteq Supervisor /\ closing \subseteq online /\ late \subseteq Supervisor
    /\ others \in [Supervisor -> Nat]
    /\ faults \in 0..MaxFaults

LEMMA Parts == TypeOK <=> /\ Surroundings /\ job = [j \in Job |-> job[j]]
                          /\ \A j \in Job : Fits(job[j])
BY DEF TypeOK, Surroundings, Fits, At

LEMMA IdleFits == Fits(Idle)
BY DEF Fits, Idle, Activity, Kind, Place, Sweeping, Launching, Reopening

LEMMA UnusedIsRow == Unused \in Row
BY DEF Unused, Row, Reason

LEMMA InitType == Init => TypeOK
<1> SUFFICES ASSUME Init PROVE TypeOK
  OBVIOUS
<1>1. Surroundings
  <2>1. row \in [Run -> Row]
    BY UnusedIsRow DEF Init
  <2>2. faults \in 0..MaxFaults /\ others \in [Supervisor -> Nat]
    BY DEF Init
  <2> QED BY <2>1, <2>2 DEF Init, Surroundings
<1>2. job = [j \in Job |-> job[j]] /\ \A j \in Job : job[j] = Idle
  BY DEF Init
<1>3. \A j \in Job : Fits(job[j])
  BY <1>2, IdleFits
<1> QED BY <1>1, <1>2, <1>3, Parts

(* A step that changes one job.                                            *)
LEMMA OneJob ==
    ASSUME TypeOK, NEW j \in Job, NEW x, Fits(x), job' = [job EXCEPT ![j] = x],
           Surroundings'
    PROVE  TypeOK'
BY DEF TypeOK, Surroundings, Fits, At

LEMMA NoJob ==
    ASSUME TypeOK, UNCHANGED job, Surroundings'
    PROVE  TypeOK'
BY DEF TypeOK, Surroundings, At

LEMMA Same ==
    ASSUME TypeOK, UNCHANGED <<Rows, Env>>
    PROVE  Surroundings'
BY DEF TypeOK, Surroundings, Rows, Env

LEMMA Moved ==
    ASSUME NEW x, Fits(x), NEW p \in Place \ {"insert", "presend", "unwind", "finish", "end"}
    PROVE  Fits([x EXCEPT !.at = p])
BY DEF Fits, Activity

LEMMA ContinuedFits ==
    ASSUME NEW x, Fits(x)
    PROVE  Fits(Continued(x))
<1>1. x.sup \in Supervisor \cup {None} /\ x.hello \in BOOLEAN
      /\ x.todo \ {x.cur} \in SUBSET Run
  BY DEF Fits, Activity
<1>2. ASSUME NEW p \in {"guard", "auto"}
      PROVE  Fits([Idle EXCEPT !.at = p, !.sup = x.sup, !.hello = x.hello,
                               !.todo = x.todo \ {x.cur}])
  BY <1>1 DEF Fits, Idle, Activity, Kind, Place, Sweeping, Launching, Reopening
<1> QED BY <1>2, IdleFits DEF Continued

LEMMA RefusedFits ==
    ASSUME NEW x, Fits(x)
    PROVE  Fits(Refused(x))
<1>1. Fits([x EXCEPT !.at = "reopen", !.target = None, !.new = None])
  BY DEF Fits, Activity, Place, Reopening
<1> QED BY <1>1, IdleFits DEF Refused

(* End() keeps the types, opens nothing and leaves open rows as they are.  *)
LEMMA Ending ==
    ASSUME TypeOK, NEW R \in SUBSET Run, NEW why \in Reason, End(R, why)
    PROVE  /\ row' \in [Run -> Row] /\ lastStopped' \in BOOLEAN
           /\ \A r \in Run : row'[r] # row[r] => row'[r].reason = why
           /\ \A r \in Run : row'[r].state = "open" => row'[r] = row[r]
<1>1. row' = Ended(R, why) /\ lastStopped' \in BOOLEAN
  BY DEF End, TypeOK
<1>2. ASSUME NEW r \in Run, r \in R
      PROVE  row'[r] = [row[r] EXCEPT !.state = "ended", !.reason = why, !.reopened = FALSE]
  BY <1>1, <1>2 DEF Ended
<1>3. ASSUME NEW r \in Run, r \notin R PROVE row'[r] = row[r]
  BY <1>1, <1>3 DEF Ended
<1>4. ASSUME NEW x \in Row, NEW y, y = [x EXCEPT !.state = "ended", !.reason = why, !.reopened = FALSE]
      PROVE  y \in Row /\ y.reason = why /\ y.state = "ended"
  BY <1>4 DEF Row
<1>5. \A r \in Run : row[r] \in Row
  BY DEF TypeOK
<1>6. ASSUME NEW r \in Run, r \in R
      PROVE  row'[r] \in Row /\ row'[r].reason = why /\ row'[r].state = "ended"
  <2>1. row[r] \in Row
    BY <1>5
  <2>2. row'[r] = [row[r] EXCEPT !.state = "ended", !.reason = why, !.reopened = FALSE]
    BY <1>2, <1>6
  <2> QED BY <1>4, <2>1, <2>2, Zenon
<1>7. row' = [r \in Run |-> row'[r]] /\ \A r \in Run : row'[r] \in Row
  BY <1>1, <1>3, <1>5, <1>6 DEF Ended
<1> QED BY <1>1, <1>3, <1>6, <1>7

(* The close of a socket ends its supervisor's open rows, or none if the   *)
(* statement fails.                                                        *)
LEMMA Finalizes ==
    ASSUME TypeOK, NEW s \in Supervisor, FinalizeOpenRuns(s)
    PROVE  /\ \E R \in SUBSET OpenOn(s) : End(R, "over")
           /\ faults' \in 0..MaxFaults
<1>1. Ended({}, "over") = row
  BY DEF Ended, TypeOK
<1>2. CASE End(OpenOn(s), "over") /\ UNCHANGED faults
  BY <1>2 DEF TypeOK
<1>3. CASE faults < MaxFaults /\ faults' = faults + 1 /\ UNCHANGED Rows
  <2>1. End({}, "over")
    BY <1>1, <1>3 DEF End, Rows
  <2> QED BY <1>3, <2>1 DEF TypeOK
<1> QED BY <1>2, <1>3 DEF FinalizeOpenRuns

LEMMA EndingType ==
    ASSUME TypeOK, NEW R \in SUBSET Run, NEW why \in Reason, End(R, why), UNCHANGED Env
    PROVE  Surroundings'
BY Ending DEF TypeOK, Surroundings, Env

LEMMA JobOnly ==
    ASSUME TypeOK, NEW j \in Job, NEW x, Fits(x), job' = [job EXCEPT ![j] = x],
           UNCHANGED <<Rows, Env>>
    PROVE  TypeOK'
BY Same, OneJob

LEMMA JobFits ==
    ASSUME TypeOK, NEW j \in Job
    PROVE  Fits(job[j])
BY Parts

(* How a step may write a job: Goto, Continue and Refuse.                  *)
LEMMA Written ==
    ASSUME TypeOK, NEW j \in Job
    PROVE  /\ \A p : Goto(j, p) <=> job' = [job EXCEPT ![j] = [job[j] EXCEPT !.at = p]]
           /\ Continue(j) <=> job' = [job EXCEPT ![j] = Continued(job[j])]
           /\ Refuse(j) <=> job' = [job EXCEPT ![j] = Refused(job[j])]
BY DEF TypeOK, Goto, Continue, Refuse

LEMMA StartFits ==
    ASSUME NEW k \in Kind, NEW p \in {"stale", "launch"}, NEW s \in Supervisor
    PROVE  /\ Fits([Idle EXCEPT !.kind = k, !.at = p])
           /\ Fits([Idle EXCEPT !.at = p, !.sup = s])
           /\ Fits([Idle EXCEPT !.at = p, !.sup = s, !.hello = TRUE])
BY DEF Fits, Idle, Activity, Kind, Place, Sweeping, Launching, Reopening

LEMMA TypeSweep ==
    ASSUME TypeOK, NEW j \in Job,
           \/ \E s \in Supervisor : Hello(j, s) \/ StartSweep(j, s)
           \/ SweepStale(j) \/ ListOrphans(j) \/ LookAtOrphan(j) \/ FinishStopped(j)
           \/ EndOrphan(j)
    PROVE  TypeOK'
<1> DEFINE y == job[j]
<1>0. Fits(y)
  BY JobFits
<1>1. ASSUME NEW s \in Supervisor, Hello(j, s) PROVE TypeOK'
  <2>1. Fits([Idle EXCEPT !.at = "stale", !.sup = s, !.hello = TRUE])
    BY StartFits DEF Kind
  <2>2. Surroundings'
    BY <1>1 DEF Hello, TypeOK, Surroundings, Rows
  <2> QED BY <1>1, <2>1, <2>2, OneJob DEF Hello
<1>2. ASSUME NEW s \in Supervisor, StartSweep(j, s) PROVE TypeOK'
  <2>1. Fits([Idle EXCEPT !.at = "stale", !.sup = s])
    BY StartFits DEF Kind
  <2> QED BY <1>2, <2>1, JobOnly DEF StartSweep
<1>3. CASE SweepStale(j)
  <2>1. PICK R \in SUBSET OpenOn(y.sup) : End(R, "over")
    BY <1>3 DEF SweepStale
  <2>2. Surroundings'
    BY <1>3, <2>1, EndingType DEF SweepStale, OpenOn, Reason
  <2>3. Fits([y EXCEPT !.at = "list"])
    BY <1>0, Moved DEF Place, Sweeping
  <2>4. job' = [job EXCEPT ![j] = [y EXCEPT !.at = "list"]]
    BY <1>3, Written DEF SweepStale
  <2> QED BY <2>2, <2>3, <2>4, OneJob
<1>4. CASE ListOrphans(j)
  <2>1. OpenOn(y.sup) \in SUBSET Run
    BY DEF OpenOn
  <2>2. Fits([y EXCEPT !.todo = OpenOn(y.sup)])
    BY <1>0, <2>1 DEF Fits, Activity
  <2>3. Fits(Continued([y EXCEPT !.todo = OpenOn(y.sup)]))
    BY <2>2, ContinuedFits
  <2> QED BY <1>4, <2>3, JobOnly DEF ListOrphans
<1>5. CASE LookAtOrphan(j)
  <2>1. PICK r \in y.todo :
            LET x == [y EXCEPT !.cur = r] IN
            \/ job' = [job EXCEPT ![j] = [x EXCEPT !.at = "finish"]]
            \/ job' = [job EXCEPT ![j] = [x EXCEPT !.at = "end"]]
            \/ job' = [job EXCEPT ![j] = Continued(x)]
    BY <1>5 DEF LookAtOrphan
  <2> DEFINE x == [y EXCEPT !.cur = r]
  <2>2. r \in Run
    BY <1>0 DEF Fits, Activity
  <2>3. Fits(x) /\ Fits([x EXCEPT !.at = "finish"]) /\ Fits([x EXCEPT !.at = "end"])
    BY <1>0, <2>2 DEF Fits, Activity, Place, Sweeping
  <2>4. Fits(Continued(x))
    BY <2>3, ContinuedFits
  <2> HIDE DEF x
  <2>5. UNCHANGED <<Rows, Env>>
    BY <1>5 DEF LookAtOrphan
  <2>6. \/ job' = [job EXCEPT ![j] = [x EXCEPT !.at = "finish"]]
        \/ job' = [job EXCEPT ![j] = [x EXCEPT !.at = "end"]]
        \/ job' = [job EXCEPT ![j] = Continued(x)]
    BY <2>1 DEF x
  <2> QED BY <2>3, <2>4, <2>5, <2>6, JobOnly
<1>6. CASE FinishStopped(j)
  <2>1. y.cur \in Run
    BY <1>0, <1>6 DEF Fits, Activity, FinishStopped, At
  <2>2. Surroundings'
    BY <1>6, <2>1, EndingType DEF FinishStopped, Reason
  <2> QED BY <1>0, <1>6, <2>2, ContinuedFits, Written, OneJob DEF FinishStopped
<1>7. CASE EndOrphan(j)
  <2>1. y.cur \in Run
    BY <1>0, <1>7 DEF Fits, Activity, EndOrphan, At
  <2>2. Surroundings'
    BY <1>7, <2>1, EndingType DEF EndOrphan, Reason
  <2>3. Fits([y EXCEPT !.at = "launch"])
    BY <1>0, Moved DEF Place, Launching
  <2> QED BY <1>7, <2>2, <2>3, Written, OneJob DEF EndOrphan
<1> QED BY <1>1, <1>2, <1>3, <1>4, <1>5, <1>6, <1>7

(* A row with one update of it; Insert, Send and Reopen write such a row.  *)
LEMMA OneRow ==
    ASSUME TypeOK, NEW r \in Run, NEW x \in Row, row' = [row EXCEPT ![r] = x]
    PROVE  row' \in [Run -> Row]
BY DEF TypeOK

LEMMA RowTypes ==
    ASSUME NEW x \in Row
    PROVE  /\ \A b \in BOOLEAN : [x EXCEPT !.sent = b] \in Row
           /\ [x EXCEPT !.state = "open", !.reason = "none", !.reopened = TRUE] \in Row
BY DEF Row, Reason

LEMMA TypeLaunch ==
    ASSUME TypeOK, NEW j \in Job,
           \/ \E k \in {"machine", "human"} : Ask(j, k)
           \/ AutoLaunch(j) \/ CheckLaunch(j) \/ ResolveTarget(j)
           \/ Insert(j) \/ Send(j) \/ Unwind(j) \/ Reopen(j) \/ Throw(j)
    PROVE  TypeOK'
<1> DEFINE y == job[j]
<1>0. Fits(y)
  BY JobFits
<1>1. ASSUME NEW k \in {"machine", "human"}, Ask(j, k) PROVE TypeOK'
  <2>1. Fits([Idle EXCEPT !.kind = k, !.at = "launch"])
    BY DEF Fits, Idle, Activity, Kind, Place, Launching
  <2> QED BY <1>1, <2>1, JobOnly DEF Ask
<1>2. CASE AutoLaunch(j)
  <2>1. CASE Goto(j, "idle")
    <3>1. Fits([y EXCEPT !.at = "idle"])
      BY <1>0, Moved DEF Place
    <3> QED BY <1>2, <2>1, <3>1, Written, JobOnly DEF AutoLaunch
  <2>2. CASE job' = [job EXCEPT ![j].kind = "auto", ![j].at = "launch"]
    <3>1. Fits([y EXCEPT !.kind = "auto", !.at = "launch"])
      BY <1>0 DEF Fits, Activity, Kind, Place, Launching
    <3>2. job' = [job EXCEPT ![j] = [y EXCEPT !.kind = "auto", !.at = "launch"]]
      BY <2>2 DEF TypeOK
    <3> QED BY <1>2, <3>1, <3>2, JobOnly DEF AutoLaunch
  <2> QED BY <1>2, <2>1, <2>2 DEF AutoLaunch
<1>3. CASE CheckLaunch(j)
  <2>1. Fits(Refused(y)) /\ Fits(Continued(y)) /\ Fits([y EXCEPT !.at = "target"])
    BY <1>0, RefusedFits, ContinuedFits, Moved DEF Place, Launching
  <2>2. \/ job' = [job EXCEPT ![j] = Refused(y)]
        \/ job' = [job EXCEPT ![j] = Continued(y)]
        \/ job' = [job EXCEPT ![j] = [y EXCEPT !.at = "target"]]
    BY <1>3, Written DEF CheckLaunch, GiveUp
  <2> QED BY <1>3, <2>1, <2>2, JobOnly DEF CheckLaunch
<1>4. CASE ResolveTarget(j)
  <2>1. CASE Refuse(j)
    BY <1>0, <1>4, <2>1, RefusedFits, Written, JobOnly DEF ResolveTarget
  <2>2. CASE \E s \in Targets(j) : job' = [job EXCEPT ![j].target = s, ![j].at = "insert"]
    <3>1. PICK s \in Targets(j) : job' = [job EXCEPT ![j].target = s, ![j].at = "insert"]
      BY <2>2
    <3>2. s \in Supervisor
      BY DEF Targets, TypeOK
    <3>3. Fits([y EXCEPT !.target = s, !.at = "insert"])
      BY <1>0, <3>2 DEF Fits, Activity, Place, Launching
    <3>4. job' = [job EXCEPT ![j] = [y EXCEPT !.target = s, !.at = "insert"]]
      BY <3>1 DEF TypeOK
    <3> QED BY <1>4, <3>3, <3>4, JobOnly DEF ResolveTarget
  <2> QED BY <1>4, <2>1, <2>2 DEF ResolveTarget
<1>5. CASE Insert(j)
  <2>1. Fits(Refused(y)) /\ Fits(Continued(y))
    BY <1>0, RefusedFits, ContinuedFits
  <2>2. y.target \in Supervisor
    BY <1>0, <1>5 DEF Fits, Activity, Insert, At
  <2>3. CASE (Continue(j) \/ Refuse(j)) /\ UNCHANGED <<Rows, final>>
    <3>1. Surroundings'
      BY <1>5, <2>3 DEF Insert, TypeOK, Surroundings, Rows
    <3> QED BY <2>1, <2>3, <3>1, Written, OneJob
  <2>4. CASE \E r \in Run :
                /\ row[r] = Unused
                /\ row' = [row EXCEPT ![r].state = "open", ![r].sup = job[j].target]
                /\ job' = [job EXCEPT ![j].new = r, ![j].at = "presend"]
                /\ final' \in BOOLEAN /\ UNCHANGED lastStopped
    <3>1. PICK r \in Run :
                /\ row' = [row EXCEPT ![r].state = "open", ![r].sup = y.target]
                /\ job' = [job EXCEPT ![j].new = r, ![j].at = "presend"]
                /\ final' \in BOOLEAN /\ UNCHANGED lastStopped
      BY <2>4
    <3>2. [row[r] EXCEPT !.state = "open", !.sup = y.target] \in Row
      <4>1. row[r] \in Row
        BY DEF TypeOK
      <4> QED BY <2>2, <4>1 DEF Row
    <3>3. row' = [row EXCEPT ![r] = [row[r] EXCEPT !.state = "open", !.sup = y.target]]
      BY <3>1 DEF TypeOK
    <3>4. row' \in [Run -> Row]
      BY <3>2, <3>3, OneRow
    <3>5. Surroundings'
      BY <1>5, <3>1, <3>4 DEF Insert, TypeOK, Surroundings
    <3>6. Fits([y EXCEPT !.new = r, !.at = "presend"])
      BY <1>0 DEF Fits, Activity, Place, Launching
    <3>7. job' = [job EXCEPT ![j] = [y EXCEPT !.new = r, !.at = "presend"]]
      BY <3>1 DEF TypeOK
    <3> QED BY <3>5, <3>6, <3>7, OneJob
  <2>5. final' \in BOOLEAN
    BY <1>5 DEF Insert, TypeOK
  <2> QED BY <1>5, <2>3, <2>4, <2>5 DEF Insert
<1>6. CASE Send(j)
  <2>1. Fits(Continued(y)) /\ Fits([y EXCEPT !.at = "unwind"]) /\ y.new \in Run
    BY <1>0, <1>6, ContinuedFits DEF Fits, Activity, Place, Launching, Send, At
  <2>2. row' \in [Run -> Row]
    <3>1. CASE UNCHANGED row
      BY <3>1 DEF TypeOK
    <3>2. CASE row' = [row EXCEPT ![y.new].sent = (@ \/ y.target \in online)]
      <4>1. [row[y.new] EXCEPT !.sent = (@ \/ y.target \in online)] \in Row
        <5>1. row[y.new] \in Row
          BY <2>1 DEF TypeOK
        <5>2. (row[y.new].sent \/ y.target \in online) \in BOOLEAN
          OBVIOUS
        <5> QED BY <5>1, <5>2, RowTypes, Zenon
      <4>2. row' = [row EXCEPT ![y.new] = [row[y.new] EXCEPT !.sent = (@ \/ y.target \in online)]]
        BY <2>1, <3>2 DEF TypeOK
      <4> QED BY <2>1, <4>1, <4>2, OneRow
    <3> QED BY <1>6, <3>1, <3>2 DEF Send
  <2>3. Surroundings'
    BY <1>6, <2>2 DEF Send, Env, TypeOK, Surroundings
  <2> QED BY <1>6, <2>1, <2>3, Written, OneJob DEF Send
<1>7. CASE Unwind(j)
  <2>1. y.new \in Run
    BY <1>0, <1>7 DEF Fits, Activity, Unwind, At
  <2>2. Surroundings'
    BY <1>7, <2>1, EndingType DEF Unwind, Reason
  <2> QED BY <1>0, <1>7, <2>2, RefusedFits, Written, OneJob DEF Unwind
<1>8. CASE Reopen(j)
  <2>1. row' \in [Run -> Row] /\ lastStopped' \in BOOLEAN
    <3>1. CASE UNCHANGED Rows
      BY <3>1 DEF TypeOK, Rows
    <3>2. CASE /\ y.cur # None
               /\ row' = [row EXCEPT ![y.cur].state = "open", ![y.cur].reason = "none",
                                     ![y.cur].reopened = TRUE]
      <4>1. y.cur \in Run
        BY <1>0, <3>2 DEF Fits, Activity
      <4>2. [row[y.cur] EXCEPT !.state = "open", !.reason = "none", !.reopened = TRUE] \in Row
        <5>1. row[y.cur] \in Row
          BY <4>1 DEF TypeOK
        <5> QED BY <5>1, RowTypes
      <4>3. row' = [row EXCEPT ![y.cur] = [row[y.cur] EXCEPT !.state = "open", !.reason = "none", !.reopened = TRUE]]
        BY <3>2, <4>1 DEF TypeOK
      <4>4. lastStopped' \in BOOLEAN
        BY <1>8 DEF Reopen, TypeOK, Rows
      <4> QED BY <4>1, <4>2, <4>3, <4>4, OneRow
    <3> QED BY <1>8, <3>1, <3>2 DEF Reopen
  <2>2. Surroundings'
    BY <1>8, <2>1 DEF Reopen, Env, TypeOK, Surroundings
  <2> QED BY <1>0, <1>8, <2>2, ContinuedFits, Written, OneJob DEF Reopen
<1>9. CASE Throw(j)
  <2>1. Surroundings'
    BY <1>9 DEF Throw, Rows, TypeOK, Surroundings
  <2>2. /\ Fits(Refused(y)) /\ Fits(Continued(y)) /\ Fits([y EXCEPT !.at = "reopenLast"])
        /\ Fits([y EXCEPT !.at = "idle"]) /\ Fits(Continued([y EXCEPT !.todo = {}]))
    <3>1. Fits([y EXCEPT !.todo = {}])
      BY <1>0 DEF Fits, Activity
    <3> QED BY <1>0, <3>1, RefusedFits, ContinuedFits, Moved DEF Place, Reopening
  <2>3. \/ job' = [job EXCEPT ![j] = Refused(y)] \/ job' = [job EXCEPT ![j] = Continued(y)]
        \/ job' = [job EXCEPT ![j] = [y EXCEPT !.at = "reopenLast"]]
        \/ job' = [job EXCEPT ![j] = [y EXCEPT !.at = "idle"]]
        \/ job' = [job EXCEPT ![j] = Continued([y EXCEPT !.todo = {}])]
    BY <1>9, Written DEF Throw
  <2> QED BY <2>1, <2>2, <2>3, OneJob
<1> QED BY <1>1, <1>2, <1>3, <1>4, <1>5, <1>6, <1>7, <1>8, <1>9

LEMMA TypeOthers ==
    ASSUME TypeOK,
           \/ \E r \in Run : Stop(r) \/ Report(r)
           \/ \E s \in Supervisor : Inventory(s) \/ CloseSocket(s) \/ LateClose(s)
                                    \/ Unregister(s) \/ OtherStarts(s) \/ OtherEnds(s)
           \/ Crash
    PROVE  TypeOK'
<1>1. CASE \/ \E r \in Run : Stop(r) \/ Report(r)
           \/ \E s \in Supervisor : Inventory(s) \/ CloseSocket(s) \/ LateClose(s)
  <2>1. PICK R \in SUBSET Run, why \in Reason : End(R, why)
    BY <1>1, Finalizes DEF Stop, Report, Inventory, CloseSocket, LateClose, OpenOn, Reason
  <2>2. row' \in [Run -> Row] /\ lastStopped' \in BOOLEAN
    BY <2>1, Ending
  <2>3. final' \in BOOLEAN /\ UNCHANGED <<session, others, job>>
    BY <1>1 DEF Stop, Report, Inventory, CloseSocket, LateClose, Env, Quiet, TypeOK
  <2>4. UNCHANGED online /\ closing' \subseteq online /\ late' \subseteq Supervisor
    BY <1>1 DEF Stop, Report, Inventory, CloseSocket, LateClose, Env, TypeOK
  <2>5. faults' \in 0..MaxFaults
    BY <1>1, Finalizes DEF Stop, Report, Inventory, CloseSocket, LateClose, Env, TypeOK
  <2> QED BY <2>2, <2>3, <2>4, <2>5, NoJob DEF TypeOK, Surroundings
<1>2. CASE \E s \in Supervisor : OtherStarts(s) \/ OtherEnds(s)
  <2>1. others' \in [Supervisor -> Nat]
    BY <1>2 DEF OtherStarts, OtherEnds, TypeOK
  <2>2. UNCHANGED <<Rows, session, online, closing, late, job, final, faults>>
    BY <1>2 DEF OtherStarts, OtherEnds
  <2> QED BY <2>1, <2>2, NoJob DEF Rows, TypeOK, Surroundings
<1>3. CASE Crash
  <2>1. Surroundings'
    BY <1>3 DEF Crash, Rows, TypeOK, Surroundings
  <2>2. job' = [i \in Job |-> Idle]
    BY <1>3 DEF Crash
  <2>3. \A i \in Job : job'[i] = Idle
    BY <2>2
  <2>4. job' = [i \in Job |-> job'[i]]
    BY <2>2
  <2> QED BY <2>1, <2>3, <2>4, IdleFits DEF TypeOK, Surroundings, Fits, At
<1>4. CASE \E s \in Supervisor : Unregister(s)
  BY <1>4, NoJob DEF Unregister, Rows, TypeOK, Surroundings
<1> QED BY <1>1, <1>2, <1>3, <1>4

LEMMA TypeStep == TypeOK /\ [Next]_vars => TypeOK'
<1> SUFFICES ASSUME TypeOK, [Next]_vars PROVE TypeOK'
  OBVIOUS
<1>1. ASSUME NEW j \in Job, Step(j) PROVE TypeOK'
  BY <1>1, TypeSweep, TypeLaunch DEF Step
<1>2. CASE UNCHANGED vars
  BY <1>2, Same, NoJob DEF vars, Rows, Env
<1> QED BY <1>1, <1>2, TypeOthers DEF Next

(* Every reachable state has the types of TypeOK; a launch that inserts    *)
(* has a target, and one that has inserted has its row.                    *)
THEOREM TypeCorrect == Spec => []TypeOK
BY InitType, TypeStep, PTL DEF Spec

-----------------------------------------------------------------------------
(* Open rows.  Only Insert and Reopen open one.                            *)

(* No row opens, and an open one stays on its supervisor.                  *)
Calm ==
    /\ \A r \in Run : Open(r)' => /\ Open(r) /\ row'[r].sup = row[r].sup
                                  /\ row'[r].reopened = row[r].reopened

LEMMA CalmEnd ==
    ASSUME TypeOK, NEW R \in SUBSET Run, NEW why \in Reason, End(R, why)
    PROVE  Calm
BY Ending DEF Calm, Open

LEMMA CalmSame ==
    ASSUME UNCHANGED row
    PROVE  Calm
BY DEF Calm, Open

LEMMA CalmJob ==
    ASSUME TypeOK, NEW j \in Job, Step(j), ~Insert(j), ~Reopen(j)
    PROVE  Calm
<1>1. Fits(job[j])
  BY JobFits
<1>2. CASE SweepStale(j)
  BY <1>2, CalmEnd DEF SweepStale, OpenOn, Reason
<1>3. CASE FinishStopped(j) \/ EndOrphan(j) \/ Unwind(j)
  <2>1. PICK r \in Run, why \in Reason : End({r}, why)
    BY <1>1, <1>3 DEF FinishStopped, EndOrphan, Unwind, At, Fits, Activity, Reason
  <2> QED BY <2>1, CalmEnd
<1>4. CASE Send(j)
  <2>1. CASE row' = [row EXCEPT ![job[j].new].sent = (@ \/ job[j].target \in online)]
    BY <2>1 DEF Calm, Open, TypeOK, Row
  <2> QED BY <1>4, <2>1, CalmSame DEF Send
<1>5. CASE \/ \E s \in Supervisor : Hello(j, s) \/ StartSweep(j, s)
           \/ \E k \in {"machine", "human"} : Ask(j, k)
           \/ ListOrphans(j) \/ LookAtOrphan(j) \/ AutoLaunch(j) \/ CheckLaunch(j)
           \/ ResolveTarget(j) \/ Throw(j)
  BY <1>5, CalmSame DEF Hello, StartSweep, Ask, ListOrphans, LookAtOrphan, AutoLaunch,
     CheckLaunch, ResolveTarget, Throw, Rows
<1> QED BY <1>2, <1>3, <1>4, <1>5 DEF Step

LEMMA CalmSteps ==
    ASSUME TypeOK, [Next]_vars, ~ \E j \in Job : Insert(j) \/ Reopen(j)
    PROVE  Calm
<1>1. ASSUME NEW j \in Job, Step(j) PROVE Calm
  BY <1>1, CalmJob
<1>2. CASE \/ \E r \in Run : Stop(r) \/ Report(r)
           \/ \E s \in Supervisor : Inventory(s) \/ CloseSocket(s) \/ LateClose(s)
  <2>1. PICK R \in SUBSET Run, why \in Reason : End(R, why)
    BY <1>2, Finalizes DEF Stop, Report, Inventory, CloseSocket, LateClose, OpenOn, Reason
  <2> QED BY <2>1, CalmEnd
<1>3. CASE \/ \E s \in Supervisor : Unregister(s) \/ OtherStarts(s) \/ OtherEnds(s)
           \/ Crash \/ UNCHANGED vars
  BY <1>3, CalmSame DEF Unregister, OtherStarts, OtherEnds, Crash, Rows, vars
<1> QED BY <1>1, <1>2, <1>3 DEF Next

(* What Insert and Reopen open, and when.                                  *)
LEMMA InsertOpens ==
    ASSUME TypeOK, NEW j \in Job, Insert(j)
    PROVE  \/ UNCHANGED row
           \/ \E r \in Run :
                 /\ \A q \in Run : ~Open(q)
                 /\ HasRoom(job[j].target) /\ job[j].target \in Supervisor
                 /\ \A q \in Run \ {r} : row'[q] = row[q]
                 /\ row'[r].sup = job[j].target
<1>1. job[j].target \in Supervisor
  BY JobFits DEF Insert, At, Fits, Activity
<1>2. CASE UNCHANGED row
  BY <1>2
<1>3. ASSUME NEW r \in Run, \A q \in Run : ~Open(q), HasRoom(job[j].target),
             row' = [row EXCEPT ![r].state = "open", ![r].sup = job[j].target]
      PROVE  /\ \A q \in Run \ {r} : row'[q] = row[q]
             /\ row'[r].sup = job[j].target
  BY <1>3 DEF TypeOK, Row
<1> QED BY <1>1, <1>2, <1>3 DEF Insert, Rows

LEMMA ReopenOpens ==
    ASSUME TypeOK, NEW j \in Job, Reopen(j)
    PROVE  \/ UNCHANGED row
           \/ \E r \in Run :
                 /\ \A q \in Run \ {r} : ~Open(q) /\ row'[q] = row[q]
                 /\ row'[r].sup = row[r].sup /\ row'[r].reopened
<1>1. job[j].cur \in Run \cup {None}
  BY DEF TypeOK, Activity
<1>2. CASE UNCHANGED row
  BY <1>2
<1>3. ASSUME NEW r \in Run, Reopenable(r),
             row' = [row EXCEPT ![r].state = "open", ![r].reason = "none", ![r].reopened = TRUE]
      PROVE  /\ \A q \in Run \ {r} : ~Open(q) /\ row'[q] = row[q]
             /\ row'[r].sup = row[r].sup /\ row'[r].reopened
  BY <1>3 DEF Reopenable, TypeOK, Row
<1> QED BY <1>1, <1>2, <1>3 DEF Reopen, Rows

LEMMA OneStep == TypeOK /\ OneOpenRun /\ [Next]_vars => OneOpenRun'
<1> SUFFICES ASSUME TypeOK, OneOpenRun, [Next]_vars PROVE OneOpenRun'
  OBVIOUS
<1>1. CASE Calm
  BY <1>1 DEF Calm, OneOpenRun
<1>2. ASSUME NEW j \in Job, Insert(j) PROVE OneOpenRun'
  BY <1>2, InsertOpens DEF OneOpenRun, Open
<1>3. ASSUME NEW j \in Job, Reopen(j) PROVE OneOpenRun'
  BY <1>3, ReopenOpens DEF OneOpenRun, Open
<1> QED BY <1>1, <1>2, <1>3, CalmSteps

(* The orchestrator has at most one open run, however many sweeps and      *)
(* launches overlap; no index of the database would refuse a second one.   *)
THEOREM OneRunOpen == Spec => []OneOpenRun
<1>1. Init => OneOpenRun
  BY DEF Init, OneOpenRun, Open, Unused
<1> QED BY <1>1, OneStep, TypeCorrect, PTL DEF Spec

-----------------------------------------------------------------------------
(* The cap.                                                                *)

(* The strengthening of CapKept: the other sessions alone never exceed a   *)
(* supervisor's cap, and leave a place for a run that was not reopened.    *)
RoomLeft ==
    \A s \in Supervisor :
       /\ others[s] <= Cap
       /\ \A r \in OpenOn(s) : row[r].reopened \/ others[s] < Cap

LEMMA LoadOf ==
    ASSUME OneOpenRun, TypeOK, NEW s \in Supervisor
    PROVE  \/ OpenOn(s) = {} /\ Load(s) = others[s]
           \/ \E r \in OpenOn(s) : Load(s) = others[s] + 1
<1>1. others[s] \in Nat
  BY DEF TypeOK
<1>2. CASE OpenOn(s) = {}
  BY <1>1, <1>2, FS_EmptySet DEF Load
<1>3. ASSUME NEW r \in OpenOn(s) PROVE OpenOn(s) = {r}
  BY <1>3 DEF OneOpenRun, OpenOn
<1>4. ASSUME NEW r \in OpenOn(s) PROVE Load(s) = others[s] + 1
  <2>1. Cardinality({r}) = 1
    BY FS_Singleton
  <2> QED BY <1>3, <2>1 DEF Load
<1> QED BY <1>2, <1>4

LEMMA RoomStep == TypeOK /\ OneOpenRun /\ RoomLeft /\ [Next]_vars => RoomLeft'
<1> SUFFICES ASSUME TypeOK, OneOpenRun, RoomLeft, [Next]_vars PROVE RoomLeft'
  OBVIOUS
<1>0. \A s \in Supervisor : others[s] \in Nat /\ Cap \in Nat
  BY DEF TypeOK
<1>1. ASSUME NEW j \in Job, Insert(j) PROVE RoomLeft'
  <2>1. UNCHANGED others
    BY <1>1 DEF Insert
  <2>2. CASE UNCHANGED row
    BY <2>1, <2>2 DEF RoomLeft, OpenOn, Open
  <2>3. ASSUME NEW r \in Run, \A q \in Run : ~Open(q), HasRoom(job[j].target),
               job[j].target \in Supervisor, row'[r].sup = job[j].target,
               \A q \in Run \ {r} : row'[q] = row[q]
        PROVE  RoomLeft'
    <3> DEFINE s == job[j].target
    <3>1. others[s] < Cap
      <4>1. OpenOn(s) = {}
        BY <2>3 DEF OpenOn
      <4> QED BY <1>0, <2>3, <4>1, LoadOf DEF HasRoom
    <3>2. ASSUME NEW t \in Supervisor, NEW q \in OpenOn(t)' PROVE others[t] < Cap
      BY <2>3, <3>1 DEF OpenOn, Open
    <3> QED BY <2>1, <3>2 DEF RoomLeft
  <2> QED BY <1>1, <2>2, <2>3, InsertOpens
<1>2. ASSUME NEW j \in Job, Reopen(j) PROVE RoomLeft'
  <2>1. UNCHANGED others
    BY <1>2 DEF Reopen, Env
  <2>2. CASE UNCHANGED row
    BY <2>1, <2>2 DEF RoomLeft, OpenOn, Open
  <2>3. ASSUME NEW r \in Run, row'[r].reopened,
               \A q \in Run \ {r} : ~Open(q) /\ row'[q] = row[q]
        PROVE  RoomLeft'
    <3>1. ASSUME NEW t \in Supervisor, NEW q \in OpenOn(t)' PROVE row'[q].reopened
      BY <2>3 DEF OpenOn, Open
    <3> QED BY <2>1, <3>1 DEF RoomLeft
  <2> QED BY <1>2, <2>2, <2>3, ReopenOpens
<1>3. ASSUME NEW s \in Supervisor, OtherStarts(s) PROVE RoomLeft'
  <2>1. UNCHANGED row /\ Load(s) < Cap
    BY <1>3 DEF OtherStarts, Rows, HasRoom
  <2>2. others' = [others EXCEPT ![s] = @ + 1]
    BY <1>3 DEF OtherStarts
  <2>3. others[s] < Cap /\ \A r \in OpenOn(s) : others[s] + 1 < Cap
    BY <1>0, <2>1, LoadOf
  <2>4. \A t \in Supervisor : others'[t] = IF t = s THEN others[s] + 1 ELSE others[t]
    BY <2>2 DEF TypeOK
  <2> QED BY <1>0, <2>1, <2>3, <2>4 DEF RoomLeft, OpenOn, Open
<1>4. ASSUME Calm, \A s \in Supervisor : others'[s] <= others[s] /\ others'[s] \in Nat
      PROVE  RoomLeft'
  <2>1. ASSUME NEW s \in Supervisor, NEW r \in OpenOn(s)'
        PROVE  r \in OpenOn(s) /\ row'[r].reopened = row[r].reopened
    BY <1>4, <2>1 DEF Calm, OpenOn, Open
  <2> QED BY <1>0, <1>4, <2>1 DEF RoomLeft
<1>5. ASSUME ~ \E s \in Supervisor : OtherStarts(s)
      PROVE  \A s \in Supervisor : others'[s] <= others[s] /\ others'[s] \in Nat
  <2>1. CASE UNCHANGED others
    BY <1>0, <2>1
  <2>2. ASSUME NEW s \in Supervisor, OtherEnds(s)
        PROVE  \A t \in Supervisor : others'[t] <= others[t] /\ others'[t] \in Nat
    BY <1>0, <2>2 DEF OtherEnds, TypeOK
  <2>3. ASSUME NEW j \in Job, Step(j) PROVE UNCHANGED others
    BY <2>3 DEF Step, Hello, StartSweep, Ask, SweepStale, ListOrphans, LookAtOrphan,
       FinishStopped, EndOrphan, AutoLaunch, CheckLaunch, ResolveTarget, Insert, Send,
       Unwind, Reopen, Throw, Env
  <2> QED BY <1>5, <2>1, <2>2, <2>3
       DEF Next, Stop, Report, Inventory, CloseSocket, Unregister, LateClose, Crash, Env, vars
<1> QED BY <1>1, <1>2, <1>3, <1>4, <1>5, CalmSteps

(* A supervisor's open runs exceed its cap by at most one, for any cap and *)
(* any number of runs, and only by an orphan that was reopened without a   *)
(* look at the cap while another session took its place.                   *)
THEOREM CapNeverOverrun == Spec => []CapKept
<1>1. Init => RoomLeft
  BY DEF Init, RoomLeft, OpenOn, Open, Unused
<1>2. TypeOK /\ OneOpenRun /\ RoomLeft => CapKept
  <2> SUFFICES ASSUME TypeOK, OneOpenRun, RoomLeft, NEW s \in Supervisor
               PROVE  \/ Load(s) <= Cap
                      \/ Load(s) = Cap + 1 /\ \E r \in OpenOn(s) : row[r].reopened
    BY DEF CapKept
  <2>1. others[s] \in Nat /\ Cap \in Nat
    BY DEF TypeOK
  <2> QED BY <2>1, LoadOf DEF RoomLeft
<1> QED BY <1>1, <1>2, RoomStep, OneRunOpen, TypeCorrect, PTL DEF Spec

-----------------------------------------------------------------------------
(* What a job knows: it holds only runs that exist, its own new run is not *)
(* its orphan, and only sweeps are elsewhere than at a launch.             *)
Refs(x) == x.todo \cup ({x.cur, x.new} \ {None})
Exists(r) == row[r].state # "unused"
Sound(x) ==
    /\ x.new # None => x.new # x.cur /\ x.at \in {"presend", "unwind"}
    /\ x.kind # "sweep" => x.at \in Launching

RowsKnown == \A r \in Run : IF Exists(r) THEN session ELSE ~row[r].sent
Known ==
    /\ RowsKnown
    /\ \A j \in Job : Sound(job[j]) /\ \A r \in Refs(job[j]) : Exists(r)

LEMMA KnownInit == Init => Known
BY NoneAssumption DEF Init, Known, RowsKnown, Exists, Unused, Idle, Sound, Refs

LEMMA KnownIdle == Sound(Idle) /\ Refs(Idle) = {}
BY DEF Sound, Refs, Idle

LEMMA KnownNext ==
    ASSUME NEW x, Sound(x), Fits(x)
    PROVE  /\ Sound(Continued(x)) /\ Refs(Continued(x)) \subseteq Refs(x)
           /\ Sound(Refused(x)) /\ Refs(Refused(x)) \subseteq Refs(x)
<1>1. Sound(Continued(x)) /\ Refs(Continued(x)) \subseteq Refs(x)
  <2> DEFINE c(p) == [Idle EXCEPT !.at = p, !.sup = x.sup, !.hello = x.hello,
                                  !.todo = x.todo \ {x.cur}]
  <2>1. ASSUME NEW p PROVE c(p).kind = "sweep" /\ c(p).todo = x.todo \ {x.cur}
                           /\ c(p).cur = None /\ c(p).new = None
    BY DEF Idle
  <2>2. ASSUME NEW p PROVE Sound(c(p)) /\ Refs(c(p)) \subseteq Refs(x)
    <3> HIDE DEF c
    <3> QED BY <2>1 DEF Sound, Refs
  <2>3. Continued(x) = Idle \/ Continued(x) = c("guard") \/ Continued(x) = c("auto")
    BY DEF Continued
  <2>4. /\ Sound(c("guard")) /\ Refs(c("guard")) \subseteq Refs(x)
        /\ Sound(c("auto")) /\ Refs(c("auto")) \subseteq Refs(x)
    BY <2>2
  <2> HIDE DEF c
  <2> QED BY <2>3, <2>4, KnownIdle
<1>2. Sound(Refused(x)) /\ Refs(Refused(x)) \subseteq Refs(x)
  <2>1. CASE x.kind = "sweep"
    <3>1. Refused(x) = [kind |-> "sweep", at |-> "reopen", sup |-> x.sup, hello |-> x.hello,
                        todo |-> x.todo, cur |-> x.cur, target |-> None, new |-> None]
      BY <2>1 DEF Refused, Fits, Activity
    <3> QED BY <3>1 DEF Sound, Refs
  <2>2. CASE x.kind # "sweep"
    BY <2>2, KnownIdle DEF Refused
  <2> QED BY <2>1, <2>2
<1> QED BY <1>1, <1>2

LEMMA RefsRun ==
    ASSUME NEW x, Fits(x)
    PROVE  Refs(x) \subseteq Run
BY DEF Fits, Activity, Refs

(* The runs that exist go on to, and the rows stay known.                  *)
Kept == RowsKnown' /\ \A r \in Run : Exists(r) => Exists(r)'

LEMMA KnownJob ==
    ASSUME TypeOK, Known, Kept, NEW j \in Job, NEW x, Fits(x), Sound(x),
           job' = [job EXCEPT ![j] = x], \A r \in Refs(x) : Exists(r)'
    PROVE  Known'
<1>1. \A i \in Job : job'[i] = IF i = j THEN x ELSE job[i]
  BY DEF TypeOK
<1>2. \A i \in Job : Refs(job[i]) \subseteq Run
  BY RefsRun, JobFits
<1>3. ASSUME NEW i \in Job, i # j
      PROVE  Sound(job'[i]) /\ \A r \in Refs(job'[i]) : Exists(r)'
  <2>1. job'[i] = job[i]
    BY <1>1, <1>3
  <2>2. Sound(job[i]) /\ \A r \in Refs(job[i]) : Exists(r)
    BY DEF Known
  <2> QED BY <1>2, <2>1, <2>2 DEF Kept
<1>4. job'[j] = x
  BY <1>1
<1>5. ASSUME NEW i \in Job
      PROVE  Sound(job'[i]) /\ \A r \in Refs(job'[i]) : Exists(r)'
  BY <1>3, <1>4
<1> QED BY <1>5 DEF Known, Kept, Sound, Refs

LEMMA KnownNoJob ==
    ASSUME TypeOK, Known, Kept, UNCHANGED job
    PROVE  Known'
<1>1. \A i \in Job : Refs(job[i]) \subseteq Run
  BY RefsRun, JobFits
<1> QED BY <1>1 DEF Known, Kept, Sound, Refs

LEMMA KeptSame ==
    ASSUME Known, UNCHANGED <<row, session>>
    PROVE  Kept
BY DEF Known, Kept, RowsKnown, Exists

LEMMA KeptEnd ==
    ASSUME TypeOK, Known, NEW R \in SUBSET Run, NEW why, End(R, why), UNCHANGED session,
           \A r \in R : Exists(r)
    PROVE  Kept
<1>1. ASSUME NEW r \in Run
      PROVE  row'[r].sent = row[r].sent /\ (Exists(r)' <=> Exists(r))
  <2>1. row' = Ended(R, why) /\ row[r] \in Row
    BY DEF End, TypeOK
  <2>2. CASE r \in R
    <3>1. row'[r] = [row[r] EXCEPT !.state = "ended", !.reason = why, !.reopened = FALSE]
      BY <2>1, <2>2 DEF Ended
    <3> QED BY <2>1, <2>2, <3>1 DEF Row, Exists
  <2>3. CASE r \notin R
    BY <2>1, <2>3 DEF Ended, Exists
  <2> QED BY <2>2, <2>3
<1> QED BY <1>1 DEF Known, RowsKnown, Kept

LEMMA KnownSweep ==
    ASSUME TypeOK, Known, NEW j \in Job,
           \/ \E s \in Supervisor : Hello(j, s) \/ StartSweep(j, s)
           \/ SweepStale(j) \/ ListOrphans(j) \/ LookAtOrphan(j) \/ FinishStopped(j)
           \/ EndOrphan(j)
    PROVE  Known'
<1> DEFINE y == job[j]
<1>0. Fits(y) /\ Sound(y) /\ \A r \in Refs(y) : r \in Run /\ Exists(r)
  BY JobFits, RefsRun DEF Known
<1>9. UNCHANGED session
  BY DEF Hello, StartSweep, SweepStale, ListOrphans, LookAtOrphan, FinishStopped, EndOrphan, Env
<1>1. ASSUME NEW s \in Supervisor, Hello(j, s) \/ StartSweep(j, s) PROVE Known'
  <2>1. PICK x \in {[Idle EXCEPT !.at = "stale", !.sup = s, !.hello = TRUE],
                    [Idle EXCEPT !.at = "stale", !.sup = s]} : job' = [job EXCEPT ![j] = x]
    BY <1>1 DEF Hello, StartSweep
  <2>2. Fits(x) /\ Sound(x) /\ Refs(x) = {}
    <3>1. Fits(x)
      BY StartFits DEF Kind
    <3>2. x.new = None /\ x.cur = None /\ x.todo = {} /\ x.kind = "sweep"
      BY DEF Idle
    <3> QED BY <3>1, <3>2 DEF Sound, Refs
  <2>3. Kept
    BY <1>1, <1>9, KeptSame DEF Hello, StartSweep, Rows
  <2> QED BY <2>1, <2>2, <2>3, KnownJob
<1>2. CASE SweepStale(j)
  <2>1. PICK R \in SUBSET OpenOn(y.sup) : End(R, "over")
    BY <1>2 DEF SweepStale
  <2>2. Kept
    BY <1>9, <2>1, KeptEnd DEF OpenOn, Open, Exists
  <2>3. Fits([y EXCEPT !.at = "list"]) /\ Sound([y EXCEPT !.at = "list"])
        /\ Refs([y EXCEPT !.at = "list"]) = Refs(y)
    BY <1>0, <1>2, Moved DEF Place, Sweeping, Launching, Fits, Activity, Sound, Refs, SweepStale, At
  <2> QED BY <1>0, <1>2, <2>2, <2>3, Written, KnownJob DEF SweepStale, Kept
<1>3. CASE ListOrphans(j)
  <2> DEFINE x == [y EXCEPT !.todo = OpenOn(y.sup)]
  <2>1. Fits(x) /\ Sound(x) /\ \A r \in Refs(x) : r \in Run /\ Exists(r)
    <3>1. \A r \in OpenOn(y.sup) : r \in Run /\ Exists(r)
      BY DEF OpenOn, Open, Exists
    <3>2. Fits(x)
      BY <1>0, <3>1 DEF Fits, Activity
    <3>3. x.todo = OpenOn(y.sup) /\ x.cur = y.cur /\ x.new = y.new
          /\ x.kind = y.kind /\ x.at = y.at
      BY <1>0 DEF Fits, Activity
    <3>4. Sound(x)
      BY <1>0, <3>3 DEF Sound
    <3>5. \A r \in Refs(x) : r \in Run /\ Exists(r)
      BY <1>0, <3>1, <3>3, RefsRun DEF Refs
    <3> QED BY <3>2, <3>4, <3>5
  <2>2. Fits(Continued(x)) /\ Sound(Continued(x)) /\ Refs(Continued(x)) \subseteq Refs(x)
    BY <2>1, KnownNext, ContinuedFits
  <2>3. Kept
    BY <1>3, <1>9, KeptSame DEF ListOrphans, Rows
  <2>4. job' = [job EXCEPT ![j] = Continued(x)]
    BY <1>3 DEF ListOrphans
  <2> HIDE DEF x
  <2> QED BY <2>1, <2>2, <2>3, <2>4, KnownJob DEF Kept
<1>4. CASE LookAtOrphan(j)
  <2>1. PICK r \in y.todo :
            LET x == [y EXCEPT !.cur = r] IN
            \/ job' = [job EXCEPT ![j] = [x EXCEPT !.at = "finish"]]
            \/ job' = [job EXCEPT ![j] = [x EXCEPT !.at = "end"]]
            \/ job' = [job EXCEPT ![j] = Continued(x)]
    BY <1>4 DEF LookAtOrphan
  <2> DEFINE x == [y EXCEPT !.cur = r]
  <2>2. r \in Run /\ Exists(r) /\ y.kind = "sweep" /\ y.new = None
    BY <1>0, <1>4 DEF Fits, Activity, Refs, Sound, Launching, LookAtOrphan, At
  <2>3. ASSUME NEW p \in {"finish", "end", "guard"}
        PROVE  LET z == [x EXCEPT !.at = p] IN
               Fits(z) /\ Sound(z) /\ \A q \in Refs(z) : Exists(q)
    BY <1>0, <2>2 DEF Fits, Activity, Place, Sweeping, Sound, Refs
  <2>4. x = [x EXCEPT !.at = "guard"]
    BY <1>0, <1>4 DEF Fits, Activity, LookAtOrphan, At
  <2>5. Fits(Continued(x)) /\ Sound(Continued(x)) /\ Refs(Continued(x)) \subseteq Refs(x)
    BY <2>3, <2>4, KnownNext, ContinuedFits
  <2>6. UNCHANGED row
    BY <1>4 DEF LookAtOrphan, Rows
  <2>7. PICK z \in {[x EXCEPT !.at = "finish"], [x EXCEPT !.at = "end"], Continued(x)} :
            job' = [job EXCEPT ![j] = z]
    BY <2>1
  <2>8. Fits(z) /\ Sound(z) /\ \A q \in Refs(z) : Exists(q)
    <3> HIDE DEF x
    <3> QED BY <2>3, <2>4, <2>5
  <2>9. \A q \in Refs(z) : Exists(q)'
    BY <2>6, <2>8 DEF Exists
  <2> QED BY <1>9, <2>6, <2>7, <2>8, <2>9, KeptSame, KnownJob
<1>5. CASE FinishStopped(j)
  <2>1. y.cur \in Run /\ Exists(y.cur)
    BY <1>0, <1>5 DEF Fits, Activity, FinishStopped, At, Refs
  <2>2. Kept
    BY <1>5, <1>9, <2>1, KeptEnd DEF FinishStopped
  <2> QED BY <1>0, <1>5, <2>2, ContinuedFits, KnownNext, Written, KnownJob DEF FinishStopped, Kept
<1>6. CASE EndOrphan(j)
  <2>1. y.cur \in Run /\ Exists(y.cur)
    BY <1>0, <1>6 DEF Fits, Activity, EndOrphan, At, Refs
  <2>2. Kept
    BY <1>6, <1>9, <2>1, KeptEnd DEF EndOrphan
  <2> DEFINE x == [y EXCEPT !.at = "launch"]
  <2>3. Fits(x) /\ Sound(x) /\ Refs(x) = Refs(y)
    BY <1>0, <1>6, Moved DEF Place, Launching, Fits, Activity, Sound, Refs, EndOrphan, At
  <2> QED BY <1>0, <1>6, <2>2, <2>3, Written, KnownJob DEF EndOrphan, Kept
<1> QED BY <1>1, <1>2, <1>3, <1>4, <1>5, <1>6

LEMMA KnownLaunch ==
    ASSUME TypeOK, Known, NEW j \in Job,
           \/ \E k \in {"machine", "human"} : Ask(j, k)
           \/ AutoLaunch(j) \/ CheckLaunch(j) \/ ResolveTarget(j) \/ Unwind(j) \/ Throw(j)
    PROVE  Known'
<1> DEFINE y == job[j]
<1>0. Fits(y) /\ Sound(y) /\ \A r \in Refs(y) : r \in Run /\ Exists(r)
  BY JobFits, RefsRun DEF Known
<1>9. UNCHANGED session
  BY DEF Ask, AutoLaunch, CheckLaunch, ResolveTarget, Unwind, Throw, Env
<1>8. Kept
  <2>1. CASE Unwind(j)
    BY <1>0, <1>9, <2>1, KeptEnd DEF Unwind, At, Fits, Activity, Refs
  <2>2. CASE UNCHANGED row
    BY <1>9, <2>2, KeptSame
  <2> QED BY <2>1, <2>2 DEF Ask, AutoLaunch, CheckLaunch, ResolveTarget, Throw, Rows
<1>7. ASSUME NEW x, Fits(x), Sound(x), Refs(x) \subseteq Refs(y), job' = [job EXCEPT ![j] = x]
      PROVE  Known'
  BY <1>0, <1>7, <1>8, KnownJob DEF Kept
<1>6. /\ Fits(Refused(y)) /\ Sound(Refused(y)) /\ Refs(Refused(y)) \subseteq Refs(y)
      /\ Fits(Continued(y)) /\ Sound(Continued(y)) /\ Refs(Continued(y)) \subseteq Refs(y)
  BY <1>0, KnownNext, ContinuedFits, RefusedFits
<1>1. ASSUME NEW k \in {"machine", "human"}, Ask(j, k) PROVE Known'
  <2> DEFINE x == [Idle EXCEPT !.kind = k, !.at = "launch"]
  <2>1. Fits(x) /\ Sound(x) /\ Refs(x) = {}
    <3>1. Fits(x)
      BY DEF Fits, Idle, Activity, Kind, Place, Launching
    <3> QED BY <3>1 DEF Idle, Sound, Refs, Launching
  <2> QED BY <1>1, <1>7, <2>1 DEF Ask
<1>2. CASE AutoLaunch(j)
  <2>1. y.kind = "sweep" /\ y.new = None
    BY <1>0, <1>2 DEF AutoLaunch, At, Sound, Launching, Fits, Activity
  <2>2. CASE Goto(j, "idle")
    <3> DEFINE x == [y EXCEPT !.at = "idle"]
    <3>1. Fits(x) /\ Sound(x) /\ Refs(x) = Refs(y)
      BY <1>0, <2>1, Moved DEF Place, Sound, Refs, Fits, Activity
    <3> QED BY <1>7, <2>2, <3>1, Written
  <2>3. CASE job' = [job EXCEPT ![j].kind = "auto", ![j].at = "launch"]
    <3> DEFINE x == [y EXCEPT !.kind = "auto", !.at = "launch"]
    <3>1. Fits(x) /\ Sound(x) /\ Refs(x) = Refs(y)
      BY <1>0, <2>1 DEF Kind, Place, Launching, Sound, Refs, Fits, Activity
    <3>2. job' = [job EXCEPT ![j] = x]
      BY <2>3 DEF TypeOK
    <3> QED BY <1>7, <3>1, <3>2
  <2> QED BY <1>2, <2>2, <2>3 DEF AutoLaunch
<1>3. CASE CheckLaunch(j)
  <2> DEFINE x == [y EXCEPT !.at = "target"]
  <2>1. Fits(x) /\ Sound(x) /\ Refs(x) = Refs(y)
    BY <1>0, <1>3, Moved DEF Place, Launching, Sound, Refs, Fits, Activity, CheckLaunch, At
  <2>2. \/ job' = [job EXCEPT ![j] = Refused(y)]
        \/ job' = [job EXCEPT ![j] = Continued(y)]
        \/ job' = [job EXCEPT ![j] = x]
    BY <1>3, Written DEF CheckLaunch, GiveUp
  <2> HIDE DEF x
  <2> QED BY <1>6, <1>7, <2>1, <2>2
<1>4. CASE ResolveTarget(j)
  <2>1. CASE Refuse(j)
    BY <1>6, <1>7, <2>1, Written
  <2>2. ASSUME NEW s \in Targets(j), job' = [job EXCEPT ![j].target = s, ![j].at = "insert"]
        PROVE  Known'
    <3> DEFINE x == [y EXCEPT !.target = s, !.at = "insert"]
    <3>1. s \in Supervisor
      BY DEF Targets, TypeOK
    <3>2. Fits(x) /\ Sound(x) /\ Refs(x) = Refs(y)
      BY <1>0, <1>4, <3>1 DEF Place, Launching, Sound, Refs, Fits, Activity, ResolveTarget, At
    <3>3. job' = [job EXCEPT ![j] = x]
      BY <2>2 DEF TypeOK
    <3> QED BY <1>7, <3>2, <3>3
  <2> QED BY <1>4, <2>1, <2>2 DEF ResolveTarget
<1>5. CASE Unwind(j)
  BY <1>5, <1>6, <1>7, Written DEF Unwind
<1>10. CASE Throw(j)
  <2> DEFINE x == [y EXCEPT !.todo = {}]
  <2>1. Fits(x) /\ Sound(x) /\ Refs(x) \subseteq Refs(y)
    BY <1>0 DEF Sound, Refs, Fits, Activity
  <2>2. Fits(Continued(x)) /\ Sound(Continued(x)) /\ Refs(Continued(x)) \subseteq Refs(x)
    BY <2>1, KnownNext, ContinuedFits
  <2>3. ASSUME NEW p \in {"idle", "reopenLast"}, y.at \notin Launching
        PROVE  LET z == [y EXCEPT !.at = p] IN
               Fits(z) /\ Sound(z) /\ Refs(z) = Refs(y)
    BY <1>0, <2>3, Moved DEF Place, Launching, Reopening, Sound, Refs, Fits, Activity
  <2>4. \/ job' = [job EXCEPT ![j] = Refused(y)] \/ job' = [job EXCEPT ![j] = Continued(y)]
        \/ y.at \notin Launching /\ job' = [job EXCEPT ![j] = [y EXCEPT !.at = "reopenLast"]]
        \/ y.at \notin Launching /\ job' = [job EXCEPT ![j] = [y EXCEPT !.at = "idle"]]
        \/ job' = [job EXCEPT ![j] = Continued(x)]
    BY <1>10, Written DEF Throw, At, Launching
  <2> HIDE DEF x
  <2> QED BY <1>6, <1>7, <2>1, <2>2, <2>3, <2>4
<1> QED BY <1>1, <1>2, <1>3, <1>4, <1>5, <1>10

LEMMA KnownRows ==
    ASSUME TypeOK, Known, NEW j \in Job, Insert(j) \/ Send(j) \/ Reopen(j)
    PROVE  Known'
<1> DEFINE y == job[j]
<1>0. Fits(y) /\ Sound(y) /\ \A r \in Refs(y) : r \in Run /\ Exists(r)
  BY JobFits, RefsRun DEF Known
<1>6. /\ Fits(Refused(y)) /\ Sound(Refused(y)) /\ Refs(Refused(y)) \subseteq Refs(y)
      /\ Fits(Continued(y)) /\ Sound(Continued(y)) /\ Refs(Continued(y)) \subseteq Refs(y)
  BY <1>0, KnownNext, ContinuedFits, RefusedFits
<1>7. ASSUME NEW x, Fits(x), Sound(x), Refs(x) \subseteq Refs(y), job' = [job EXCEPT ![j] = x],
             Kept
      PROVE  Known'
  BY <1>0, <1>7, KnownJob DEF Kept
<1>1. CASE Insert(j)
  <2>1. session' = TRUE
    BY <1>1 DEF Insert
  <2>2. ASSUME UNCHANGED row PROVE Kept
    BY <2>1, <2>2 DEF Known, Kept, RowsKnown, Exists
  <2>3. CASE (Continue(j) \/ Refuse(j)) /\ UNCHANGED row
    BY <1>6, <1>7, <2>2, <2>3, Written
  <2>4. ASSUME NEW r \in Run, row[r] = Unused,
               row' = [row EXCEPT ![r].state = "open", ![r].sup = y.target],
               job' = [job EXCEPT ![j].new = r, ![j].at = "presend"]
        PROVE  Known'
    <3>1. Exists(r)' /\ ~Exists(r) /\ \A q \in Run \ {r} : row'[q] = row[q]
      BY <2>4 DEF TypeOK, Row, Exists, Unused
    <3>2. Kept
      BY <2>1, <3>1 DEF Known, Kept, RowsKnown, Exists
    <3> DEFINE x == [y EXCEPT !.new = r, !.at = "presend"]
    <3>3. Fits(x) /\ Sound(x) /\ Refs(x) \subseteq Refs(y) \cup {r}
      BY <1>0, <1>1, <3>1 DEF Fits, Activity, Place, Launching, Sound, Refs, Insert, At
    <3>4. job' = [job EXCEPT ![j] = x]
      BY <2>4 DEF TypeOK
    <3>5. \A q \in Refs(x) : Exists(q)'
      BY <1>0, <3>1, <3>2, <3>3 DEF Kept
    <3> QED BY <3>2, <3>3, <3>4, <3>5, KnownJob
  <2> QED BY <1>1, <2>3, <2>4 DEF Insert, Rows
<1>2. CASE Send(j)
  <2>1. UNCHANGED session
    BY <1>2 DEF Send, Env
  <2>2. CASE UNCHANGED row /\ Goto(j, "unwind")
    <3> DEFINE x == [y EXCEPT !.at = "unwind"]
    <3>1. Fits(x) /\ Sound(x) /\ Refs(x) \subseteq Refs(y)
      BY <1>0, <1>2 DEF Fits, Activity, Place, Launching, Sound, Refs, Send, At
    <3> QED BY <1>7, <2>1, <2>2, <3>1, Written, KeptSame
  <2>3. CASE /\ row' = [row EXCEPT ![y.new].sent = (@ \/ y.target \in online)]
             /\ Continue(j)
    <3>1. y.new \in Run /\ Exists(y.new)
      BY <1>0, <1>2 DEF Fits, Activity, Refs, Send, At
    <3>2. \A q \in Run : (Exists(q)' <=> Exists(q)) /\ (q # y.new => row'[q] = row[q])
      BY <2>3 DEF TypeOK, Row, Exists
    <3>3. Kept
      BY <2>1, <3>1, <3>2 DEF Known, Kept, RowsKnown
    <3> QED BY <1>6, <1>7, <2>3, <3>3, Written
  <2> QED BY <1>2, <2>2, <2>3 DEF Send
<1>3. CASE Reopen(j)
  <2>1. UNCHANGED session /\ Continue(j)
    BY <1>3 DEF Reopen, Env
  <2>2. CASE UNCHANGED row
    BY <1>6, <1>7, <2>1, <2>2, KeptSame, Written
  <2>3. CASE /\ y.cur # None
             /\ row' = [row EXCEPT ![y.cur].state = "open", ![y.cur].reason = "none",
                                   ![y.cur].reopened = TRUE]
    <3>1. PICK r \in Run : r = y.cur /\ Exists(r)
      BY <1>0, <2>3 DEF Fits, Activity, Refs
    <3>2. Exists(r)' /\ \A q \in Run \ {r} : row'[q] = row[q]
      BY <2>3, <3>1 DEF TypeOK, Row, Exists
    <3>3. Kept
      BY <2>1, <3>1, <3>2 DEF Known, Kept, RowsKnown, Exists
    <3> QED BY <1>6, <1>7, <2>1, <3>3, Written
  <2> QED BY <1>3, <2>2, <2>3 DEF Reopen, Rows
<1> QED BY <1>1, <1>2, <1>3

LEMMA KnownOthers ==
    ASSUME TypeOK, Known,
           \/ \E r \in Run : Stop(r) \/ Report(r)
           \/ \E s \in Supervisor : Inventory(s) \/ CloseSocket(s) \/ LateClose(s)
                                    \/ Unregister(s) \/ OtherStarts(s) \/ OtherEnds(s)
           \/ Crash
    PROVE  Known'
<1>1. CASE \/ \E r \in Run : Stop(r) \/ Report(r)
           \/ \E s \in Supervisor : Inventory(s) \/ CloseSocket(s) \/ LateClose(s)
  <2>1. PICK R \in SUBSET Run, why \in Reason : End(R, why) /\ \A r \in R : Open(r) \/ row[r].sent
    <3>1. ASSUME NEW r \in Run, Stop(r) \/ Report(r)
          PROVE  \E R \in SUBSET Run, why \in Reason : End(R, why) /\ \A q \in R : Open(q) \/ row[q].sent
      <4>1. {r} \in SUBSET Run /\ \A q \in {r} : Open(q) \/ row[q].sent
        BY <3>1 DEF Stop, Report
      <4> QED BY <3>1, <4>1 DEF Stop, Report, Reason
    <3>2. ASSUME NEW s \in Supervisor, Inventory(s) \/ CloseSocket(s) \/ LateClose(s)
          PROVE  \E R \in SUBSET Run, why \in Reason : End(R, why) /\ \A q \in R : Open(q) \/ row[q].sent
      <4>1. OpenOn(s) \in SUBSET Run /\ \A q \in OpenOn(s) : Open(q)
        BY DEF OpenOn
      <4> QED BY <3>2, <4>1, Finalizes DEF Inventory, CloseSocket, LateClose, Reason
    <3> QED BY <1>1, <3>1, <3>2
  <2>2. \A r \in R : Exists(r)
    BY <2>1 DEF Open, Exists, Known, RowsKnown
  <2>3. UNCHANGED <<session, job>>
    BY <1>1 DEF Stop, Report, Inventory, CloseSocket, LateClose, Env
  <2>4. Kept
    BY <2>1, <2>2, <2>3, KeptEnd
  <2> QED BY <2>3, <2>4, KnownNoJob
<1>2. CASE \E s \in Supervisor : Unregister(s) \/ OtherStarts(s) \/ OtherEnds(s)
  BY <1>2, KeptSame, KnownNoJob DEF Unregister, OtherStarts, OtherEnds, Rows
<1>3. CASE Crash
  <2>1. Kept /\ job' = [i \in Job |-> Idle]
    BY <1>3, KeptSame DEF Crash, Rows
  <2>2. \A i \in Job : job'[i] = Idle
    BY <2>1
  <2>3. \A i \in Job : Sound(job'[i]) /\ Refs(job'[i]) = {}
    BY <2>2, KnownIdle
  <2> QED BY <2>1, <2>3 DEF Known, Kept, Sound, Refs
<1> QED BY <1>1, <1>2, <1>3

LEMMA KnownStep == TypeOK /\ Known /\ [Next]_vars => Known'
<1> SUFFICES ASSUME TypeOK, Known, [Next]_vars PROVE Known'
  OBVIOUS
<1>1. ASSUME NEW j \in Job, Step(j) PROVE Known'
  BY <1>1, KnownSweep, KnownLaunch, KnownRows DEF Step
<1>2. CASE UNCHANGED vars
  BY <1>2, KeptSame, KnownNoJob DEF vars
<1> QED BY <1>1, <1>2, KnownOthers DEF Next

LEMMA AlwaysKnown == Spec => []Known
BY KnownInit, KnownStep, TypeCorrect, PTL DEF Spec

-----------------------------------------------------------------------------
(* Stops.                                                                  *)

(* The part of Quiet that is about one job.                                *)
Resting(x) == x.kind \in {"sweep", "auto"} => x.at \in {"idle", "stale", "list", "auto"}

(* The strengthening of StopHolds: the session that keeps the auto-launch  *)
(* away exists, and no sweep carries a run beyond the stop.                *)
Stopped == final => (\A r \in Run : ~Open(r)) /\ session /\ Quiet

LEMMA QuietJob ==
    ASSUME TypeOK, Quiet, NEW j \in Job, NEW x, Resting(x), job' = [job EXCEPT ![j] = x]
    PROVE  Quiet'
BY DEF TypeOK, Quiet, Resting

LEMMA RestingNext ==
    ASSUME NEW x, x.todo = {}
    PROVE  Resting(Continued(x))
<1>1. Resting(Idle)
  BY DEF Resting, Idle
<1>2. Continued(x) = Idle
      \/ Continued(x) = [Idle EXCEPT !.at = "auto", !.sup = x.sup, !.hello = x.hello, !.todo = {} \ {x.cur}]
  BY DEF Continued
<1>3. Resting([Idle EXCEPT !.at = "auto", !.sup = x.sup, !.hello = x.hello, !.todo = {} \ {x.cur}])
  BY DEF Resting, Idle
<1> QED BY <1>1, <1>2, <1>3

(* A job of another caller: it ends idle whatever becomes of its launch.   *)
LEMMA RestingCaller ==
    ASSUME NEW x, x.kind \notin {"sweep", "auto"}
    PROVE  Resting(Continued(x)) /\ Resting(Refused(x))
BY DEF Resting, Continued, Refused, Idle

LEMMA QuietStep ==
    ASSUME TypeOK, Known, Quiet, session, \A r \in Run : ~Open(r), NEW j \in Job, Step(j),
           final'
    PROVE  Quiet' /\ session' /\ \A r \in Run : ~Open(r)'
<1> DEFINE y == job[j]
<1>0. Fits(y) /\ Sound(y) /\ Resting(y)
  BY JobFits DEF Known, Quiet, Resting
<1>1. \/ y.kind = "sweep" /\ y.at \in {"idle", "stale", "list", "auto"}
      \/ y.kind \in {"machine", "human"} /\ y.at \in Launching
  BY <1>0 DEF Fits, Activity, Kind, Sound, Resting, Launching
<1>2. ASSUME NEW x, Resting(x), job' = [job EXCEPT ![j] = x] PROVE Quiet'
  BY <1>2, QuietJob
<1>3. ~ (LookAtOrphan(j) \/ FinishStopped(j) \/ EndOrphan(j) \/ Reopen(j))
  BY <1>1 DEF LookAtOrphan, FinishStopped, EndOrphan, Reopen, At, Launching, Reopening
<1>4. y.kind \in {"machine", "human"} => Resting(Continued(y)) /\ Resting(Refused(y))
  BY RestingCaller
<1>5. ASSUME y.kind \in {"machine", "human"}, NEW p PROVE Resting([y EXCEPT !.at = p])
  BY <1>0, <1>5 DEF Fits, Activity, Resting
<1>6. CASE Insert(j)
  <2>1. y.kind \in {"machine", "human"}
    BY <1>1, <1>6 DEF Insert, At
  <2>2. Refuse(j) /\ UNCHANGED row /\ session'
    BY <1>6, <2>1 DEF Insert, Rows
  <2> QED BY <1>2, <1>4, <2>1, <2>2, Written DEF Open
<1>7. ASSUME ~Insert(j) PROVE session' /\ \A r \in Run : ~Open(r)'
  <2>1. Calm
    BY <1>3, <1>7, CalmJob
  <2>2. session'
    BY <1>7 DEF Step, Hello, StartSweep, Ask, SweepStale, ListOrphans, LookAtOrphan,
       FinishStopped, EndOrphan, AutoLaunch, CheckLaunch, ResolveTarget, Send, Unwind,
       Reopen, Throw, Env
  <2> QED BY <2>1, <2>2 DEF Calm
<1>8. ASSUME NEW s \in Supervisor, Hello(j, s) \/ StartSweep(j, s) PROVE Quiet'
  <2>1. PICK x \in {[Idle EXCEPT !.at = "stale", !.sup = s, !.hello = TRUE],
                    [Idle EXCEPT !.at = "stale", !.sup = s]} : job' = [job EXCEPT ![j] = x]
    BY <1>8 DEF Hello, StartSweep
  <2>2. Resting(x)
    BY <2>1 DEF Resting, Idle
  <2> QED BY <1>2, <2>1, <2>2
<1>9. ASSUME NEW k \in {"machine", "human"}, Ask(j, k) PROVE Quiet'
  <2>1. Resting([Idle EXCEPT !.kind = k, !.at = "launch"])
    BY DEF Resting, Idle
  <2> QED BY <1>2, <1>9, <2>1 DEF Ask
<1>10. ASSUME SweepStale(j) PROVE Quiet'
  <2>1. Resting([y EXCEPT !.at = "list"])
    BY <1>0 DEF Resting, Fits, Activity
  <2> QED BY <1>2, <1>10, <2>1, Written DEF SweepStale
<1>11. ASSUME ListOrphans(j) PROVE Quiet'
  <2>1. OpenOn(y.sup) = {}
    BY DEF OpenOn
  <2>2. [y EXCEPT !.todo = OpenOn(y.sup)].todo = {}
    BY <1>0, <2>1 DEF Fits, Activity
  <2>3. Resting(Continued([y EXCEPT !.todo = OpenOn(y.sup)]))
    BY <2>2, RestingNext
  <2> QED BY <1>2, <1>11, <2>3 DEF ListOrphans
<1>12. ASSUME AutoLaunch(j) PROVE Quiet'
  <2>1. Resting([y EXCEPT !.at = "idle"])
    BY <1>0 DEF Resting, Fits, Activity
  <2>2. Goto(j, "idle")
    BY <1>12 DEF AutoLaunch, MayLaunch
  <2> QED BY <1>2, <2>1, <2>2, Written
<1>13. ASSUME CheckLaunch(j) \/ ResolveTarget(j) \/ Send(j) \/ Unwind(j) PROVE Quiet'
  <2>1. y.kind \in {"machine", "human"}
    BY <1>1, <1>13 DEF CheckLaunch, ResolveTarget, Send, Unwind, At
  <2>2. ASSUME NEW s, job' = [job EXCEPT ![j].target = s, ![j].at = "insert"]
        PROVE  Quiet'
    <3>1. job' = [job EXCEPT ![j] = [y EXCEPT !.target = s, !.at = "insert"]]
      BY <2>2 DEF TypeOK
    <3>2. Resting([y EXCEPT !.target = s, !.at = "insert"])
      BY <1>0, <2>1 DEF Resting, Fits, Activity
    <3> QED BY <1>2, <3>1, <3>2
  <2>3. \/ Refuse(j) \/ Continue(j) \/ \E p : Goto(j, p)
        \/ \E s : job' = [job EXCEPT ![j].target = s, ![j].at = "insert"]
    BY <1>13 DEF CheckLaunch, GiveUp, ResolveTarget, Send, Unwind
  <2> QED BY <1>2, <1>4, <1>5, <2>1, <2>2, <2>3, Written
<1>14. ASSUME Throw(j) PROVE Quiet'
  <2>1. CASE y.at \in Launching
    <3>1. Refuse(j)
      BY <1>14, <2>1 DEF Throw, At, Launching, Sweeping
    <3> QED BY <1>1, <1>2, <1>4, <2>1, <3>1, Written DEF Launching
  <2>2. CASE y.kind = "sweep" /\ y.at \in {"stale", "list", "auto"}
    <3>1. Resting(Continued([y EXCEPT !.todo = {}])) /\ Resting([y EXCEPT !.at = "idle"])
      <4>1. [y EXCEPT !.todo = {}].todo = {}
        BY <1>0 DEF Fits, Activity
      <4>2. Resting(Continued([y EXCEPT !.todo = {}]))
        BY <4>1, RestingNext
      <4> QED BY <1>0, <4>2 DEF Resting, Fits, Activity
    <3>2. Goto(j, "idle") \/ job' = [job EXCEPT ![j] = Continued([y EXCEPT !.todo = {}])]
      BY <1>14, <2>2 DEF Throw, At, Launching, Sweeping
    <3> QED BY <1>2, <3>1, <3>2, Written
  <2> QED BY <1>1, <1>14, <2>1, <2>2 DEF Throw, At
<1> QED BY <1>3, <1>6, <1>7, <1>8, <1>9, <1>10, <1>11, <1>12, <1>13, <1>14 DEF Step

LEMMA StopStep ==
    ~AllStopsFinal => (TypeOK /\ Known /\ OneOpenRun /\ Stopped /\ [Next]_vars => Stopped')
<1> SUFFICES ASSUME ~AllStopsFinal, TypeOK, Known, OneOpenRun, Stopped, [Next]_vars, final'
             PROVE  Quiet' /\ session' /\ \A r \in Run : ~Open(r)'
  BY DEF Stopped
<1>1. ASSUME NEW r \in Run, Stop(r) PROVE Quiet' /\ session' /\ \A q \in Run : ~Open(q)'
  <2>1. UNCHANGED <<job, session>> /\ Quiet
    BY <1>1 DEF Stop
  <2>2. session
    BY <1>1 DEF Stop, Open, Known, RowsKnown, Exists
  <2>3. \A q \in Run : Open(q)' => q = r
    BY <1>1, CalmEnd DEF Stop, Reason, Calm, OneOpenRun
  <2>4. ~Open(r)'
    <3>1. row' = Ended({r}, "stopped") /\ row[r] \in Row
      BY <1>1 DEF Stop, End, TypeOK
    <3>2. row'[r] = [row[r] EXCEPT !.state = "ended", !.reason = "stopped", !.reopened = FALSE]
      BY <3>1 DEF Ended
    <3> QED BY <3>1, <3>2 DEF Row, Open
  <2> QED BY <2>1, <2>2, <2>3, <2>4 DEF Quiet
<1>2. ASSUME ~ \E r \in Run : Stop(r) PROVE final
  <2>1. ASSUME NEW j \in Job, Step(j) PROVE final
    <3>1. CASE Insert(j)
      BY <3>1 DEF Insert
    <3>2. CASE ~Insert(j)
      BY <2>1, <3>2 DEF Step, Hello, StartSweep, Ask, SweepStale, ListOrphans, LookAtOrphan,
         FinishStopped, EndOrphan, AutoLaunch, CheckLaunch, ResolveTarget, Send, Unwind,
         Reopen, Throw, Env
    <3> QED BY <3>1, <3>2
  <2>2. ASSUME ~ \E j \in Job : Step(j) PROVE final
    BY <1>2, <2>2 DEF Next, Env, Report, Inventory, CloseSocket, Unregister, LateClose, OtherStarts,
       OtherEnds, Crash, vars
  <2> QED BY <2>1, <2>2
<1>3. ASSUME NEW j \in Job, Step(j), final
      PROVE  Quiet' /\ session' /\ \A r \in Run : ~Open(r)'
  BY <1>3, QuietStep DEF Stopped
<1>4. ASSUME ~ \E j \in Job : Step(j), ~ \E r \in Run : Stop(r), final
      PROVE  Quiet' /\ session' /\ \A r \in Run : ~Open(r)'
  <2>1. Calm
    BY <1>4, CalmSteps DEF Step
  <2>2. session' = session
    BY <1>4 DEF Next, Env, Report, Inventory, CloseSocket, Unregister, LateClose, OtherStarts,
       OtherEnds, Crash, vars
  <2>3. UNCHANGED job \/ \A j \in Job : job'[j] = Idle
    BY <1>4 DEF Next, Env, Report, Inventory, CloseSocket, Unregister, LateClose, OtherStarts,
       OtherEnds, Crash, vars
  <2>4. Quiet'
    BY <1>4, <2>3 DEF Stopped, Quiet, Idle
  <2> QED BY <1>4, <2>1, <2>2, <2>4 DEF Stopped, Calm
<1> QED BY <1>1, <1>2, <1>3, <1>4

(* A stop that lands while no sweep carries a run and no automatic launch  *)
(* is under way holds until somebody asks for the orchestrator: no hello,  *)
(* browser connect, restart or auto-launch starts it again.                *)
THEOREM StopIsFinal == ~AllStopsFinal => (Spec => []StopHolds)
<1> SUFFICES ASSUME ~AllStopsFinal PROVE Spec => []StopHolds
  OBVIOUS
<1>1. Init => Stopped
  BY DEF Init, Stopped
<1>2. Stopped => StopHolds
  BY DEF Stopped, StopHolds
<1>3. TypeOK /\ Known /\ OneOpenRun /\ Stopped /\ [Next]_vars => Stopped'
  BY StopStep
<1> QED BY <1>1, <1>2, <1>3, OneRunOpen, AlwaysKnown, TypeCorrect, PTL DEF Spec

-----------------------------------------------------------------------------
(* Nothing is dropped.                                                     *)

(* Carried, for a job as it was or will be.                                *)
Carries(x) ==
    /\ x.kind = "sweep" /\ x.cur # None
    /\ x.at \in (Launching \ {"presend"}) \cup Reopening
    /\ row[x.cur].reason = "reboot"

LEMMA CarryJob ==
    ASSUME TypeOK, Covered, UNCHANGED row, NEW j \in Job, NEW x,
           job' = [job EXCEPT ![j] = x], Carries(job[j]) => Carries(x)
    PROVE  Covered'
<1>1. \A i \in Job : job'[i] = IF i = j THEN x ELSE job[i]
  BY DEF TypeOK
<1>2. ASSUME NEW r \in Run, Open(r) PROVE Covered'
  BY <1>2 DEF Covered, Open
<1>3. ASSUME NEW i \in Job, Carried(i) PROVE Carried(i)'
  BY <1>1, <1>3 DEF Carried, Carries
<1> QED BY <1>2, <1>3 DEF Covered

LEMMA CarryNoJob ==
    ASSUME Covered, UNCHANGED <<row, job>>
    PROVE  Covered'
BY DEF Covered, Open, Carried

LEMMA CarryRefused ==
    ASSUME NEW x, Fits(x), Carries(x)
    PROVE  Carries(Refused(x))
<1>1. Refused(x) = [x EXCEPT !.at = "reopen", !.target = None, !.new = None]
  BY DEF Refused, Carries
<1> QED BY <1>1 DEF Carries, Fits, Activity, Reopening

(* An end from outside that is none changes no row.                        *)
LEMMA NoneEnded ==
    ASSUME TypeOK, ~EndedOutside, NEW R \in SUBSET Run, NEW why \in {"stopped", "over"},
           End(R, why)
    PROVE  UNCHANGED row
<1>1. \A r \in Run : row'[r] = row[r]
  BY Ending DEF EndedOutside, Reason
<1>2. row' \in [Run -> Row] /\ row \in [Run -> Row]
  BY Ending DEF TypeOK, Reason
<1> QED BY <1>1, <1>2

LEMMA CarrySweep ==
    ASSUME TypeOK, Known, Covered, NEW j \in Job, ~EndedOutside,
           \/ \E s \in Supervisor : Hello(j, s) \/ StartSweep(j, s)
           \/ \E k \in {"machine", "human"} : Ask(j, k)
           \/ SweepStale(j) \/ ListOrphans(j) \/ LookAtOrphan(j) \/ FinishStopped(j)
           \/ EndOrphan(j) \/ AutoLaunch(j)
    PROVE  Covered'
<1> DEFINE y == job[j]
<1>0. Fits(y) /\ Sound(y)
  BY JobFits DEF Known
<1>1. CASE EndOrphan(j)
  <2>1. PICK r \in Run : r = y.cur /\ y.kind = "sweep"
    BY <1>0, <1>1 DEF EndOrphan, At, Fits, Activity, Sound, Launching
  <2>2. job' = [job EXCEPT ![j] = [y EXCEPT !.at = "launch"]] /\ row' = Ended({r}, "reboot")
    BY <1>1, <2>1, Written DEF EndOrphan, End
  <2>3. row'[r].reason = "reboot"
    <3>1. row'[r] = [row[r] EXCEPT !.state = "ended", !.reason = "reboot", !.reopened = FALSE]
      BY <2>2 DEF Ended
    <3> QED BY <3>1 DEF TypeOK, Row
  <2>4. job'[j] = [y EXCEPT !.at = "launch"]
    BY <2>2 DEF TypeOK
  <2>5. job'[j].kind = "sweep" /\ job'[j].cur = r /\ job'[j].at = "launch"
    BY <1>0, <2>1, <2>4 DEF Fits, Activity
  <2> QED BY <2>3, <2>5 DEF Covered, Carried, Launching
<1>2. ASSUME ~EndOrphan(j) PROVE Covered'
  <2>1. y.at \in {"idle", "stale", "list", "guard", "finish", "auto"}
    BY <1>2 DEF Hello, StartSweep, Ask, SweepStale, ListOrphans, LookAtOrphan, FinishStopped,
       AutoLaunch, At
  <2>2. ~Carries(y)
    BY <2>1 DEF Carries, Launching, Reopening
  <2>3. UNCHANGED row
    <3>1. ASSUME NEW r \in Run, End({r}, "stopped") PROVE UNCHANGED row
      BY <3>1, NoneEnded
    <3>2. ASSUME NEW R \in SUBSET OpenOn(y.sup), End(R, "over") PROVE UNCHANGED row
      BY <3>2, NoneEnded DEF OpenOn
    <3>3. FinishStopped(j) => y.cur \in Run
      BY <1>0 DEF FinishStopped, At, Fits, Activity
    <3> QED BY <1>2, <3>1, <3>2, <3>3 DEF Hello, StartSweep, Ask, SweepStale, ListOrphans,
            LookAtOrphan, FinishStopped, AutoLaunch, Rows
  <2>4. \E x : job' = [job EXCEPT ![j] = x]
    <3>1. ASSUME job' = [job EXCEPT ![j].kind = "auto", ![j].at = "launch"]
          PROVE  job' = [job EXCEPT ![j] = [y EXCEPT !.kind = "auto", !.at = "launch"]]
      BY <3>1 DEF TypeOK
    <3> QED BY <1>2, <3>1, Written DEF Hello, StartSweep, Ask, SweepStale, ListOrphans,
            LookAtOrphan, FinishStopped, AutoLaunch
  <2> QED BY <2>2, <2>3, <2>4, CarryJob
<1> QED BY <1>1, <1>2

LEMMA CarryLaunch ==
    ASSUME TypeOK, Known, Covered, NEW j \in Job, ~Withdrawn, ~Lost, ~Disabled,
           \/ CheckLaunch(j) \/ ResolveTarget(j) \/ Insert(j) \/ Send(j) \/ Unwind(j)
           \/ Reopen(j) \/ Throw(j)
    PROVE  Covered'
<1> DEFINE y == job[j]
<1>0. Fits(y) /\ Sound(y)
  BY JobFits DEF Known
<1>1. CASE CheckLaunch(j) \/ ResolveTarget(j)
  <2>1. UNCHANGED row
    BY <1>1 DEF CheckLaunch, ResolveTarget, Rows
  <2>2. CASE Refuse(j)
    BY <1>0, <2>1, <2>2, CarryRefused, CarryJob, Written
  <2>3. CASE Goto(j, "target")
    <3>1. Carries(y) => Carries([y EXCEPT !.at = "target"])
      BY <1>0 DEF Carries, Fits, Activity, Launching
    <3> QED BY <2>1, <2>3, <3>1, CarryJob, Written
  <2>4. ASSUME NEW s, job' = [job EXCEPT ![j].target = s, ![j].at = "insert"] PROVE Covered'
    <3>1. Carries(y) => Carries([y EXCEPT !.target = s, !.at = "insert"])
      BY <1>0 DEF Carries, Fits, Activity, Launching
    <3>2. job' = [job EXCEPT ![j] = [y EXCEPT !.target = s, !.at = "insert"]]
      BY <2>4 DEF TypeOK
    <3> QED BY <2>1, <3>1, <3>2, CarryJob
  <2> QED BY <1>1, <2>2, <2>3, <2>4 DEF CheckLaunch, ResolveTarget, Disabled
<1>2. CASE Insert(j)
  <2>1. CASE Refuse(j) /\ UNCHANGED Rows
    BY <1>0, <2>1, CarryRefused, CarryJob, Written DEF Rows
  <2>2. CASE UNCHANGED Rows /\ \E r \in Run : Open(r)
    BY <2>2 DEF Covered, Open, Rows
  <2>3. ASSUME NEW r \in Run, row' = [row EXCEPT ![r].state = "open", ![r].sup = y.target]
        PROVE  Covered'
    <3>1. row'[r].state = "open"
      BY <2>3 DEF TypeOK, Row
    <3> QED BY <3>1 DEF Covered, Open
  <2> QED BY <1>2, <2>1, <2>2, <2>3 DEF Insert
<1>3. CASE Send(j)
  <2>1. ~Carries(y)
    BY <1>3 DEF Carries, Send, At, Launching, Reopening
  <2>2. CASE UNCHANGED row /\ Goto(j, "unwind")
    BY <2>1, <2>2, CarryJob, Written
  <2>3. CASE row' = [row EXCEPT ![y.new].sent = (@ \/ y.target \in online)] /\ Continue(j)
    <3>1. \A r \in Run : row'[r].state = row[r].state /\ row'[r].reason = row[r].reason
      BY <2>3 DEF TypeOK, Row
    <3>2. job' = [job EXCEPT ![j] = Continued(y)]
      BY <2>3, Written
    <3>3. ASSUME NEW i \in Job, Carried(i) PROVE Carried(i)'
      <4>1. i # j
        BY <2>1, <3>3 DEF Carried, Carries
      <4>2. job'[i] = job[i]
        BY <3>2, <4>1 DEF TypeOK
      <4>3. job[i].cur \in Run
        BY <3>3 DEF Carried, TypeOK, Activity
      <4> QED BY <3>1, <3>3, <4>2, <4>3 DEF Carried
    <3> QED BY <3>1, <3>3 DEF Covered, Open
  <2> QED BY <1>3, <2>2, <2>3 DEF Send
<1>4. CASE Unwind(j)
  <2>1. Carried(j) /\ Carries(y)
    BY <1>4 DEF Withdrawn, Carried, Carries
  <2>2. y.cur \in Run /\ y.new # y.cur
    BY <1>0, <1>4, <2>1 DEF Fits, Activity, Sound, Carries, Unwind, At
  <2>3. row' = Ended({y.new}, "halted") /\ job' = [job EXCEPT ![j] = Refused(y)]
    BY <1>4, Written DEF Unwind, End
  <2>4. row'[y.cur] = row[y.cur]
    BY <2>2, <2>3 DEF Ended
  <2>5. job'[j] = Refused(y) /\ Carries(Refused(y)) /\ Refused(y).cur = y.cur
    BY <1>0, <2>1, <2>3, CarryRefused DEF TypeOK, Refused, Carries, Fits, Activity
  <2>6. Carried(j)'
    BY <2>4, <2>5 DEF Carried, Carries
  <2> QED BY <2>6 DEF Covered
<1>5. CASE Reopen(j)
  <2>1. CASE y.cur # None /\ Reopenable(y.cur)
    <3>1. PICK r \in Run : r = y.cur
      BY <1>0, <2>1 DEF Fits, Activity
    <3>2. row'[r].state = "open"
      BY <1>5, <2>1, <3>1 DEF Reopen, TypeOK, Row
    <3> QED BY <3>2 DEF Covered, Open
  <2>2. CASE ~(y.cur # None /\ Reopenable(y.cur))
    <3>1. UNCHANGED row /\ job' = [job EXCEPT ![j] = Continued(y)]
      BY <1>5, <2>2, Written DEF Reopen, Rows
    <3>2. CASE Carries(y)
      <4>1. \E q \in Run : Open(q)
        BY <2>2, <3>2 DEF Carries, Reopenable
      <4> QED BY <3>1, <4>1 DEF Covered, Open
    <3> QED BY <3>1, <3>2, CarryJob
  <2> QED BY <2>1, <2>2
<1>6. CASE Throw(j)
  <2>1. UNCHANGED row
    BY <1>6 DEF Throw, Rows
  <2>2. CASE Refuse(j)
    BY <1>0, <2>1, <2>2, CarryRefused, CarryJob, Written
  <2>3. CASE y.at = "reopen" /\ Goto(j, "reopenLast")
    <3>1. Carries(y) => Carries([y EXCEPT !.at = "reopenLast"])
      BY <1>0 DEF Carries, Fits, Activity, Reopening
    <3> QED BY <2>1, <2>3, <3>1, CarryJob, Written
  <2>4. CASE \/ y.at = "auto" /\ Goto(j, "idle")
             \/ y.at \in Sweeping /\ job' = [job EXCEPT ![j] = Continued([y EXCEPT !.todo = {}])]
    <3>1. ~Carries(y)
      BY <2>4 DEF Carries, Sweeping, Launching, Reopening
    <3> QED BY <2>1, <2>4, <3>1, CarryJob, Written
  <2> QED BY <1>6, <2>2, <2>3, <2>4 DEF Throw, Lost, At
<1> QED BY <1>1, <1>2, <1>3, <1>4, <1>5, <1>6

LEMMA CarryOthers ==
    ASSUME TypeOK, Covered, ~EndedOutside, ~Lost,
           \/ \E r \in Run : Stop(r) \/ Report(r)
           \/ \E s \in Supervisor : Inventory(s) \/ CloseSocket(s) \/ LateClose(s)
                                    \/ Unregister(s) \/ OtherStarts(s) \/ OtherEnds(s)
           \/ Crash
    PROVE  Covered'
<1>1. UNCHANGED job
  BY DEF Stop, Report, Inventory, CloseSocket, Unregister, LateClose, OtherStarts, OtherEnds, Env,
     Lost
<1>2. UNCHANGED row
  <2>1. ASSUME NEW r \in Run, Stop(r) \/ Report(r) PROVE UNCHANGED row
    BY <2>1, NoneEnded DEF Stop, Report
  <2>2. ASSUME NEW s \in Supervisor, Inventory(s) \/ CloseSocket(s) \/ LateClose(s)
        PROVE  UNCHANGED row
    BY <2>2, NoneEnded, Finalizes DEF Inventory, CloseSocket, LateClose, OpenOn
  <2>3. ASSUME NEW s \in Supervisor, Unregister(s) \/ OtherStarts(s) \/ OtherEnds(s)
        PROVE  UNCHANGED row
    BY <2>3 DEF Unregister, OtherStarts, OtherEnds, Rows
  <2> QED BY <2>1, <2>2, <2>3 DEF Lost
<1> QED BY <1>1, <1>2, CarryNoJob

(* The hub never loses the orchestrator on its own: a sweep that ends an   *)
(* orphan launches its replacement or gives the orphan back, whatever the  *)
(* kill switch, the cap, the registry or a failing statement does.         *)
THEOREM NothingDropped == Spec => NeverDropped
<1>1. TypeOK /\ Known /\ [Next]_vars
      => [Covered => Covered' \/ EndedOutside \/ Withdrawn \/ Lost \/ Disabled]_vars
  <2> SUFFICES ASSUME TypeOK, Known, Next, Covered, ~EndedOutside, ~Withdrawn, ~Lost, ~Disabled
               PROVE  Covered'
    OBVIOUS
  <2>1. ASSUME NEW j \in Job, Step(j) PROVE Covered'
    BY <2>1, CarrySweep, CarryLaunch DEF Step
  <2> QED BY <2>1, CarryOthers DEF Next
<1> QED BY <1>1, AlwaysKnown, TypeCorrect, PTL DEF Spec, NeverDropped
=============================================================================
