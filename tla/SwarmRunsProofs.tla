--------------------------- MODULE SwarmRunsProofs ---------------------------
(***************************************************************************)
(* Theorems about SwarmRuns for every graph of work items, every worker    *)
(* and retry budget and every number of graph replacements.                *)
(***************************************************************************)
EXTENDS SwarmRuns, FiniteSetTheorems, WellFoundedInduction, TLAPS

(* The sets of states a row or a process can name. *)
USE DEF Active, Terminal, Open, Exited, Watching, RunnerUp

(* The constants that bound rows are numbers, and rows have a first graph. *)
LEMMA Bounds == LeaseTicks \in Nat /\ MaxGraph \in Nat /\ MaxGraph >= 1
BY SwarmAssumption

(* update_codex_run keeps rows and the recovery's view of them well-formed. *)
LEMMA WriteType ==
    ASSUME SwarmTypeOK, NEW r, NEW state \in Active \cup Terminal \cup {"none"},
           NEW pid \in BOOLEAN, NEW left \in 0..LeaseTicks, Write(r, state, pid, left)
    PROVE  row' \in [Runs -> RowType] /\ rescuer' \in RescueType
<1> DEFINE new(x) == [x EXCEPT !.state = state, !.pid = pid, !.lease = left]
<1>1. row' \in [Runs -> RowType]
  <2>1. \A x \in RowType : new(x) \in RowType
    BY DEF RowType
  <2>2. row \in [Runs -> RowType] /\ row' = [row EXCEPT ![r] = new(row[r])]
    BY DEF SwarmTypeOK, Write
  <2> HIDE DEF new
  <2> QED
    BY <2>1, <2>2
<1>2. Touched(r) \in RescueType
  BY DEF SwarmTypeOK, Touched, RescueType
<1> QED
  BY <1>1, <1>2 DEF Write

(* A runner that ends its agent is well-formed. *)
LEMMA StoppedType ==
    ASSUME NEW p \in ProcType, NEW final \in Terminal
    PROVE  Stopped(p, final) \in ProcType
BY DEF Stopped, ProcType

(* So is an agent that ended. *)
LEMMA AgentEndType ==
    ASSUME SwarmTypeOK, NEW r \in Runs, NEW code \in Exited
    PROVE  [proc EXCEPT ![r].agent = Ended(r, code)] \in [Runs -> ProcType]
<1> DEFINE new(p) == [p EXCEPT !.agent = Ended(r, code)]
<1>1. Ended(r, code) \in Exited \cup {"none"}
  BY DEF Ended
<1>2. \A p \in ProcType : new(p) \in ProcType
  BY <1>1 DEF ProcType
<1>3. /\ proc \in [Runs -> ProcType]
      /\ [proc EXCEPT ![r].agent = Ended(r, code)] = [proc EXCEPT ![r] = new(proc[r])]
  BY DEF SwarmTypeOK
<1> HIDE DEF new
<1> QED
  BY <1>2, <1>3

(* The steps of a runner. *)
LEMMA RunnerType ==
    ASSUME SwarmTypeOK, NEW r \in Runs, RunnerStep(r)
    PROVE  SwarmTypeOK'
<1>1. proc[r] \in ProcType
  BY DEF SwarmTypeOK
<1>2. 0 \in 0..LeaseTicks /\ LeaseTicks \in 0..LeaseTicks
  BY Bounds
<1>3. ASSUME NEW from, NEW p \in ProcType, RunnerGoes(r, from, p)
      PROVE  /\ proc' \in [Runs -> ProcType]
             /\ UNCHANGED <<session, entry, verify, canceller, pauser, paused>>
  BY <1>3 DEF SwarmTypeOK, RunnerGoes
<1>4. Done \in ProcType
  BY DEF Done, NoProc, ProcType
<1>5. ASSUME NEW p \in ProcType, proc' = [proc EXCEPT ![r] = p],
             UNCHANGED <<session, row, entry, verify, rescuer, canceller, pauser, paused>>
      PROVE  SwarmTypeOK'
  BY <1>5 DEF SwarmTypeOK
<1>6. ASSUME NEW final \in {"cancelled", "spawn_failed"}, AbortRun(r, final)
      PROVE  SwarmTypeOK'
  <2>1. Stopped(proc[r], final) \in ProcType
    BY <1>1, StoppedType
  <2>2. \A p \in ProcType : [p EXCEPT !.pc = "ended", !.reaped = TRUE] \in ProcType
    BY DEF ProcType
  <2>3. [Stopped(proc[r], final) EXCEPT !.pc = "ended", !.reaped = TRUE] \in ProcType
    BY <2>1, <2>2
  <2> QED
    BY <1>5, <1>6, <2>3 DEF AbortRun, SwarmTypeOK
<1>7. CASE FailSpawn(r)
  BY <1>2, <1>3, <1>4, <1>7, WriteType DEF FailSpawn, WriteFinal, SwarmTypeOK
<1>8. CASE Spawn(r)
  BY <1>1, <1>8 DEF Spawn, SwarmTypeOK, ProcType
<1>9. CASE RecordRunning(r)
  <2>1. [proc[r] EXCEPT !.pc = "watch"] \in ProcType
    BY <1>1 DEF ProcType
  <2> QED
    BY <1>2, <1>3, <1>9, <2>1, WriteType DEF RecordRunning, SwarmTypeOK
<1>10. CASE ReadForBeat(r)
  <2>1. [proc[r] EXCEPT !.pc = "beat", !.saw = row[r].state = "cancelling"] \in ProcType
    BY <1>1 DEF ProcType
  <2> QED
    BY <1>5, <1>10, <2>1 DEF ReadForBeat, SwarmTypeOK
<1>11. CASE Beat(r)
  <2>1. [proc[r] EXCEPT !.pc = "watch", !.saw = FALSE] \in ProcType
    BY <1>1 DEF ProcType
  <2>2. (IF proc[r].saw THEN "cancelling" ELSE "running") \in Active
    OBVIOUS
  <2> QED
    BY <1>2, <1>3, <1>11, <2>1, <2>2, WriteType DEF Beat, SwarmTypeOK
<1>12. CASE StopAgent(r)
  <2>1. Stopped(proc[r], "timed_out") \in ProcType
    BY <1>1, StoppedType
  <2> QED
    BY <1>5, <1>12, <2>1 DEF StopAgent, SwarmTypeOK
<1>13. CASE NoticeCancel(r)
  <2>1. Stopped(proc[r], "cancelled") \in ProcType /\ [proc[r] EXCEPT !.reaped = TRUE] \in ProcType
    BY <1>1, StoppedType DEF ProcType
  <2> QED
    BY <1>5, <1>13, <2>1 DEF NoticeCancel
<1>14. CASE DecideFinal(r)
  <2> DEFINE p == proc[r]
             ended == IF p.final # "none" THEN p.final
                      ELSE IF row[r].state = "cancelling" THEN "cancelled"
                      ELSE IF p.agent = "ok" THEN "succeeded" ELSE "failed"
  <2>1. ended \in Terminal
    BY <1>1 DEF ProcType
  <2>2. [p EXCEPT !.pc = "ended", !.reaped = TRUE, !.final = ended] \in ProcType
    BY <1>1, <2>1 DEF ProcType
  <2> QED
    BY <1>5, <1>14, <2>2 DEF DecideFinal
<1>15. CASE RecordFinal(r)
  <2>1. proc[r].final \in Terminal \cup {"none"}
    BY <1>1 DEF ProcType
  <2> QED
    BY <1>2, <1>3, <1>4, <1>15, <2>1, WriteType DEF RecordFinal, WriteFinal, SwarmTypeOK
<1> QED
  BY <1>6, <1>7, <1>8, <1>9, <1>10, <1>11, <1>12, <1>13, <1>14, <1>15 DEF RunnerStep

(* The steps of recover_swarm_session. *)
LEMMA RecoveryType ==
    ASSUME SwarmTypeOK, RecoveryStep
    PROVE  SwarmTypeOK'
<1>1. NoRescue \in RescueType
  BY DEF NoRescue, RescueType
<1>2. [NoRescue EXCEPT !.phase = "done"] \in RescueType
  BY DEF NoRescue, RescueType
<1>3. ASSUME NEW r \in Runs, InspectRun(r)
      PROVE  SwarmTypeOK'
  <2>1. Health(r) \in {"lost", "stale"}
    BY <1>3 DEF InspectRun, Unhealthy
  <2>2. [NoRescue EXCEPT !.phase = "inspected", !.run = r, !.health = Health(r)] \in RescueType
    BY <2>1 DEF NoRescue, RescueType
  <2> QED
    BY <1>3, <2>2 DEF InspectRun, SwarmTypeOK
<1>4. CASE InspectNothing
  BY <1>2, <1>4 DEF InspectNothing, SwarmTypeOK
<1>5. CASE ReadForRecovery
  <2> DEFINE target == IF session.state = "cancelled" \/ row[rescuer.run].state = "cancelling"
                       THEN "cancelled" ELSE "lost"
  <2>1. target \in {"lost", "cancelled"}
    OBVIOUS
  <2>2. [rescuer EXCEPT !.phase = "read", !.current = TRUE, !.target = target] \in RescueType
    BY <2>1 DEF SwarmTypeOK, RescueType
  <2>3. rescuer' \in RescueType
    BY <1>5, <2>2 DEF ReadForRecovery
  <2>4. proc \in [Runs -> ProcType]
    BY DEF SwarmTypeOK
  <2>5. ASSUME rescuer.run \in Runs
        PROVE  proc' \in [Runs -> ProcType]
    <3>1. [proc EXCEPT ![rescuer.run].agent = Ended(rescuer.run, "bad")] \in [Runs -> ProcType]
      BY <2>5, AgentEndType DEF Exited
    <3>2. proc' \in {[proc EXCEPT ![rescuer.run].agent = Ended(rescuer.run, "bad")], proc}
      BY <1>5 DEF ReadForRecovery
    <3> QED
      BY <2>4, <3>1, <3>2
  <2>6. proc' \in [Runs -> ProcType]
    <3>1. CASE rescuer.run \notin Runs
      <4>1. \A x : [proc EXCEPT ![rescuer.run].agent = x] = proc
        BY <2>4, <3>1
      <4>2. proc' \in {[proc EXCEPT ![rescuer.run].agent = Ended(rescuer.run, "bad")], proc}
        BY <1>5 DEF ReadForRecovery
      <4> QED
        BY <2>4, <4>1, <4>2
    <3> QED
      BY <2>5, <3>1
  <2> QED
    BY <1>5, <2>3, <2>6 DEF ReadForRecovery, SwarmTypeOK
<1>6. CASE GiveUp
  BY <1>2, <1>6 DEF GiveUp, SwarmTypeOK
<1>7. CASE RecoverRun
  <2>1. rescuer.target \in Terminal
    BY DEF SwarmTypeOK, RescueType
  <2>2. 0 \in 0..LeaseTicks
    BY Bounds
  <2>3. \A x \in RowType : [x EXCEPT !.state = rescuer.target, !.pid = FALSE, !.lease = 0] \in RowType
    BY <2>1, <2>2 DEF RowType
  <2>4. row \in [Runs -> RowType]
    BY DEF SwarmTypeOK
  <2>5. row' \in [Runs -> RowType]
    BY <1>7, <2>3, <2>4 DEF RecoverRun
  <2> QED
    BY <1>2, <1>7, <2>5 DEF RecoverRun, SwarmTypeOK
<1>8. CASE ReopenVerification
  <2>1. [session EXCEPT !.state = "running"] \in SessionType
    BY DEF SwarmTypeOK, SessionType
  <2> QED
    BY <1>1, <1>8, <2>1 DEF ReopenVerification, SwarmTypeOK
<1> QED
  BY <1>3, <1>4, <1>5, <1>6, <1>7, <1>8 DEF RecoveryStep

(* The steps that change the state of the session. *)
LEMMA SessionStepType ==
    ASSUME SwarmTypeOK,
           \/ CancelSession \/ ResumeSession \/ ReplaceGraph \/ BeginVerification
           \/ VerifierCrash \/ \E verified \in BOOLEAN : SaveVerification(verified)
           \/ (PauseSession \/ PauseCrash)
                /\ UNCHANGED <<row, proc, entry, verify, rescuer, canceller>>
    PROVE  SwarmTypeOK'
<1>1. \A s \in Open \cup {"paused", "verifying", "completed", "failed", "cancelled"} :
         [session EXCEPT !.state = s] \in SessionType
  BY DEF SwarmTypeOK, SessionType
<1>2. session.graph \in 1..MaxGraph /\ session.graph \in 0..MaxGraph /\ 0 \in 0..MaxGraph
  BY Bounds DEF SwarmTypeOK, SessionType
<1>3. CASE CancelSession
  <2>1. \A r \in Runs : [row[r] EXCEPT !.state = "cancelling"] \in RowType /\ row[r] \in RowType
    BY DEF SwarmTypeOK, RowType
  <2>2. row' \in [Runs -> RowType]
    BY <1>3, <2>1 DEF CancelSession
  <2>3. [rescuer EXCEPT !.current = @ /\ rescuer.run \notin ActiveRuns] \in RescueType
    BY DEF SwarmTypeOK, RescueType
  <2> QED
    BY <1>1, <1>3, <2>2, <2>3 DEF CancelSession, SwarmTypeOK
<1>4. CASE ResumeSession
  BY <1>1, <1>4 DEF ResumeSession, SwarmTypeOK
<1>5. CASE ReplaceGraph
  <2>1. session.graph + 1 \in 1..MaxGraph
    BY <1>2, <1>5, Bounds DEF ReplaceGraph
  <2>2. [session EXCEPT !.graph = @ + 1] \in SessionType
    BY <2>1 DEF SwarmTypeOK, SessionType
  <2> QED
    BY <1>5, <2>2 DEF ReplaceGraph, SwarmTypeOK
<1>6. CASE BeginVerification
  BY <1>1, <1>2, <1>6 DEF BeginVerification, SwarmTypeOK
<1>7. CASE VerifierCrash
  BY <1>2, <1>7 DEF VerifierCrash, SwarmTypeOK
<1>8. ASSUME NEW verified \in BOOLEAN, SaveVerification(verified)
      PROVE  SwarmTypeOK'
  BY <1>1, <1>2, <1>8 DEF SaveVerification, SwarmTypeOK
<1>9. CASE PauseSession /\ UNCHANGED <<row, proc, entry, verify, rescuer, canceller>>
  BY <1>1, <1>9 DEF PauseSession, SwarmTypeOK
<1>10. CASE PauseCrash /\ UNCHANGED <<row, proc, entry, verify, rescuer, canceller>>
  BY <1>10 DEF PauseCrash, SwarmTypeOK
<1> QED
  BY <1>3, <1>4, <1>5, <1>6, <1>7, <1>8, <1>9, <1>10

(* Reservation, merge, time, and what the world does to runners and agents. *)
LEMMA WorkStepType ==
    ASSUME SwarmTypeOK,
           \/ \E w \in Work :
                \/ Reserve(w) \/ ClaimEntry(w)
                \/ \E result \in {"integrated", "conflict"} : FinishEntry(w, result)
           \/ \E r \in Runs : RunnerCrash(r) \/ ReadForCancel(r)
                              \/ \E code \in Exited : AgentExits(r, code)
           \/ CancelRun \/ SwarmTick
    PROVE  SwarmTypeOK'
<1>1. ASSUME NEW w \in Work, Reserve(w)
      PROVE  SwarmTypeOK'
  <2> DEFINE r == <<w, Launched(w) + 1>>
  <2>1. [session EXCEPT !.state = "running"] \in SessionType
    BY DEF SwarmTypeOK, SessionType
  <2>2. [state |-> "reserved", graph |-> session.graph, lease |-> LeaseTicks, pid |-> FALSE]
          \in RowType
    BY Bounds DEF SwarmTypeOK, SessionType, RowType
  <2>3. [proc EXCEPT ![r].pc = "setup"] \in [Runs -> ProcType]
    <3>1. \A p \in ProcType : [p EXCEPT !.pc = "setup"] \in ProcType
      BY DEF ProcType
    <3>2. /\ proc \in [Runs -> ProcType]
          /\ [proc EXCEPT ![r].pc = "setup"] = [proc EXCEPT ![r] = [proc[r] EXCEPT !.pc = "setup"]]
      BY DEF SwarmTypeOK
    <3> QED
      BY <3>1, <3>2
  <2>4. /\ session' \in SessionType
        /\ row' \in [Runs -> RowType]
        /\ proc' \in [Runs -> ProcType]
        /\ UNCHANGED <<entry, verify, rescuer, canceller, pauser, paused>>
    BY <1>1, <2>1, <2>2, <2>3 DEF Reserve, SwarmTypeOK
  <2> QED
    BY <2>4 DEF SwarmTypeOK
<1>2. ASSUME NEW w \in Work, ClaimEntry(w)
      PROVE  SwarmTypeOK'
  BY <1>2 DEF ClaimEntry, SwarmTypeOK
<1>3. ASSUME NEW w \in Work, NEW result \in {"integrated", "conflict"}, FinishEntry(w, result)
      PROVE  SwarmTypeOK'
  BY <1>3 DEF FinishEntry, SwarmTypeOK
<1>4. ASSUME NEW r \in Runs, RunnerCrash(r)
      PROVE  SwarmTypeOK'
  <2>1. [NoProc EXCEPT !.pc = "dead", !.agent =
           IF proc[r].agent = "live" THEN "live" ELSE "none"] \in ProcType
    BY DEF NoProc, ProcType
  <2> QED
    BY <1>4, <2>1 DEF RunnerCrash, SwarmTypeOK
<1>5. ASSUME NEW r \in Runs, ReadForCancel(r)
      PROVE  SwarmTypeOK'
  <2>1. row[r].pid \in BOOLEAN /\ row[r].lease \in 0..LeaseTicks
    BY DEF SwarmTypeOK, RowType
  <2> QED
    BY <1>5, <2>1 DEF ReadForCancel, SwarmTypeOK
<1>6. ASSUME NEW r \in Runs, NEW code \in Exited, AgentExits(r, code)
      PROVE  SwarmTypeOK'
  BY <1>6, AgentEndType DEF AgentExits, SwarmTypeOK
<1>7. CASE CancelRun
  <2>1. canceller.pid \in BOOLEAN /\ canceller.lease \in 0..LeaseTicks
    BY DEF SwarmTypeOK
  <2>2. row' \in [Runs -> RowType] /\ rescuer' \in RescueType
    BY <1>7, <2>1, WriteType DEF CancelRun
  <2>3. NoCancel \in [run : Runs \cup {NoRun}, pid : BOOLEAN, lease : 0..LeaseTicks]
    BY Bounds DEF NoCancel
  <2> QED
    BY <1>7, <2>2, <2>3 DEF CancelRun, SwarmTypeOK
<1>8. CASE SwarmTick
  <2>1. \A n \in 0..LeaseTicks : Countdown(n) \in 0..LeaseTicks
    BY Bounds DEF Countdown
  <2>2. \A r \in Runs : [row[r] EXCEPT !.lease = Countdown(@)] \in RowType
    BY <2>1 DEF SwarmTypeOK, RowType
  <2>3. [canceller EXCEPT !.lease = Countdown(@)]
          \in [run : Runs \cup {NoRun}, pid : BOOLEAN, lease : 0..LeaseTicks]
    BY <2>1 DEF SwarmTypeOK
  <2> QED
    BY <1>8, <2>2, <2>3 DEF SwarmTick, SwarmTypeOK
<1> QED
  BY <1>1, <1>2, <1>3, <1>4, <1>5, <1>6, <1>7, <1>8

(* Type correctness: sessions, rows, processes, merge entries and the      *)
(* operators' working state keep their types for every set of work items,  *)
(* whatever crashes and whoever writes over whom.                          *)
THEOREM SwarmTypeCorrect == SwarmSpec => []SwarmTypeOK
<1>1. SwarmInit => SwarmTypeOK
  <2>1. /\ NoRow \in RowType /\ NoProc \in ProcType /\ NoRescue \in RescueType
        /\ [state |-> "planned", graph |-> 1] \in SessionType
    BY Bounds DEF NoRow, NoProc, NoRescue, RowType, ProcType, RescueType, SessionType
  <2>2. NoCancel \in [run : Runs \cup {NoRun}, pid : BOOLEAN, lease : 0..LeaseTicks]
    BY Bounds DEF NoCancel
  <2>3. [graph |-> 0, report |-> FALSE] \in [graph : 0..MaxGraph, report : BOOLEAN]
    BY Bounds
  <2> QED
    BY <2>1, <2>2, <2>3 DEF SwarmInit, SwarmTypeOK
<1>2. SwarmTypeOK /\ [SwarmNext]_swarmVars => SwarmTypeOK'
  <2>1. ASSUME SwarmTypeOK, SwarmNext PROVE SwarmTypeOK'
    BY <2>1, RunnerType, RecoveryType, SessionStepType, WorkStepType DEF SwarmNext
  <2>2. ASSUME SwarmTypeOK, UNCHANGED swarmVars PROVE SwarmTypeOK'
    BY <2>2 DEF swarmVars, SwarmTypeOK
  <2> QED
    BY <2>1, <2>2
<1> QED
  BY <1>1, <1>2, PTL DEF SwarmSpec

-----------------------------------------------------------------------------
(* What the prerequisites of a run rest on: the graph version its row was  *)
(* stamped with and the merge entries.  Most steps leave both alone.       *)
Quiet ==
    /\ \A r \in Runs : row'[r].graph = row[r].graph
    /\ session'.graph = session.graph
    /\ entry' = entry

MergeStep(w) ==
    ClaimEntry(w) \/ \E result \in {"integrated", "conflict"} : FinishEntry(w, result)

(* A write of a row keeps the graph version it was reserved under. *)
LEMMA WriteQuiet ==
    ASSUME SwarmTypeOK, NEW r, NEW state, NEW pid, NEW left, Write(r, state, pid, left)
    PROVE  \A q \in Runs : row'[q].graph = row[q].graph
BY DEF SwarmTypeOK, Write, RowType

(* So does every step of a runner. *)
LEMMA RunnerQuiet ==
    ASSUME SwarmTypeOK, NEW r \in Runs, RunnerStep(r)
    PROVE  Quiet
<1>1. CASE FailSpawn(r) \/ RecordRunning(r) \/ Beat(r) \/ RecordFinal(r)
  BY <1>1, WriteQuiet DEF FailSpawn, RecordRunning, Beat, RecordFinal, WriteFinal, RunnerGoes, Quiet
<1>2. CASE \/ \E final \in {"cancelled", "spawn_failed"} : AbortRun(r, final)
           \/ Spawn(r) \/ ReadForBeat(r) \/ StopAgent(r) \/ NoticeCancel(r) \/ DecideFinal(r)
  BY <1>2 DEF AbortRun, Spawn, ReadForBeat, StopAgent, NoticeCancel, DecideFinal, Quiet
<1> QED
  BY <1>1, <1>2 DEF RunnerStep

(* And every step of a recovery. *)
LEMMA RecoveryQuiet ==
    ASSUME SwarmTypeOK, RecoveryStep
    PROVE  Quiet
<1>1. CASE RecoverRun
  BY <1>1 DEF RecoverRun, SwarmTypeOK, RowType, Quiet
<1>2. CASE ReopenVerification
  BY <1>2 DEF ReopenVerification, SwarmTypeOK, SessionType, Quiet
<1>3. CASE (\E r \in Runs : InspectRun(r)) \/ InspectNothing \/ ReadForRecovery \/ GiveUp
  BY <1>3 DEF InspectRun, InspectNothing, ReadForRecovery, GiveUp, Quiet
<1> QED
  BY <1>1, <1>2, <1>3 DEF RecoveryStep

(* Only a reservation stamps a row, only the integrator and a new graph    *)
(* change the merge entries, only a new graph raises the version.          *)
LEMMA QuietSteps ==
    ASSUME SwarmTypeOK, SwarmNext
    PROVE  \/ Quiet
           \/ \E w \in Work : Reserve(w) \/ MergeStep(w)
           \/ ReplaceGraph
<1>1. \A s : [session EXCEPT !.state = s].graph = session.graph
  BY DEF SwarmTypeOK, SessionType
<1>2. CASE \E r \in Runs : \/ RunnerCrash(r) \/ ReadForCancel(r)
                           \/ \E code \in Exited : AgentExits(r, code)
  BY <1>2 DEF RunnerCrash, ReadForCancel, AgentExits, Quiet
<1>3. CASE CancelRun
  BY <1>3, WriteQuiet DEF CancelRun, Quiet
<1>4. CASE CancelSession
  BY <1>1, <1>4 DEF CancelSession, SwarmTypeOK, RowType, Quiet
<1>5. CASE (PauseSession \/ PauseCrash) /\ UNCHANGED <<row, proc, entry, verify, rescuer, canceller>>
  BY <1>1, <1>5 DEF PauseSession, PauseCrash, Quiet
<1>6. CASE ResumeSession \/ BeginVerification \/ VerifierCrash
  BY <1>1, <1>6 DEF ResumeSession, BeginVerification, VerifierCrash, Quiet
<1>7. ASSUME NEW verified \in BOOLEAN, SaveVerification(verified)
      PROVE  Quiet
  BY <1>1, <1>7 DEF SaveVerification, Quiet
<1>8. CASE SwarmTick
  BY <1>8 DEF SwarmTick, SwarmTypeOK, RowType, Quiet
<1> QED
  BY <1>2, <1>3, <1>4, <1>5, <1>6, <1>7, <1>8, RunnerQuiet, RecoveryQuiet DEF SwarmNext, MergeStep

(* An integrated entry stays so until the graph is replaced. *)
LEMMA IntegratedStays ==
    ASSUME SwarmTypeOK, NEW w \in Work, MergeStep(w), NEW d \in Work, entry[d] = "integrated"
    PROVE  entry'[d] = "integrated"
BY DEF SwarmTypeOK, MergeStep, ClaimEntry, FinishEntry, Ready

(* The scheduler offers a work item only on integrated prerequisites. *)
LEMMA DispatchedOnIntegrated ==
    ASSUME NEW w \in Dispatchable, NEW d \in Deps[w]
    PROVE  entry[d] = "integrated"
BY DEF Dispatchable, Candidates, Released

-----------------------------------------------------------------------------
(* The inductive invariant: no row is stamped with a future graph, and a   *)
(* row of the present graph has its prerequisites integrated, whatever its *)
(* state; the row never reserved carries version 0, which no graph has.    *)
GraphsPast == \A r \in Runs : row[r].graph <= session.graph

Grounded ==
    \A r \in Runs : row[r].graph = session.graph
        => \A d \in Deps[r[1]] : entry[d] = "integrated"

(* A worker of the present graph was started only on integrated            *)
(* prerequisites, for every graph, every number of workers and retries.    *)
THEOREM PrerequisitesHold == SwarmSpec => []StartedAfterPrerequisites
<1> DEFINE Inv == SwarmTypeOK /\ GraphsPast /\ Grounded
<1>1. SwarmInit => GraphsPast /\ Grounded
  BY DEF SwarmInit, NoRow, GraphsPast, Grounded
<1>2. ASSUME Inv, SwarmTypeOK', [SwarmNext]_swarmVars
      PROVE  GraphsPast' /\ Grounded'
  <2>1. /\ session.graph \in Nat
        /\ \A r \in Runs : row[r].graph \in Nat
    BY <1>2, Bounds DEF SwarmTypeOK, SessionType, RowType
  <2>2. \A r \in Runs : r[1] \in Work /\ Deps[r[1]] \subseteq Work
    BY SwarmAssumption DEF Runs
  <2>3. CASE Quiet
    BY <1>2, <2>3 DEF Quiet, GraphsPast, Grounded
  <2>4. ASSUME NEW w \in Work, Reserve(w)
        PROVE  GraphsPast' /\ Grounded'
    <3> DEFINE new == <<w, Launched(w) + 1>>
    <3>1. session'.graph = session.graph /\ entry' = entry /\ w \in Dispatchable
      BY <1>2, <2>4 DEF Reserve, SwarmTypeOK, SessionType
    <3>2. ASSUME NEW r \in Runs
          PROVE  IF r = new THEN row'[r].graph = session.graph ELSE row'[r] = row[r]
      BY <1>2, <2>4 DEF Reserve, SwarmTypeOK
    <3>3. GraphsPast'
      BY <1>2, <2>1, <3>1, <3>2 DEF GraphsPast
    <3>4. ASSUME NEW r \in Runs, row'[r].graph = session'.graph, NEW d \in Deps[r[1]]
          PROVE  entry'[d] = "integrated"
      <4>1. CASE r = new
        BY <3>1, <3>4, <4>1, DispatchedOnIntegrated
      <4>2. CASE r # new
        BY <1>2, <3>1, <3>2, <3>4, <4>2 DEF Grounded
      <4> QED
        BY <4>1, <4>2
    <3> QED
      BY <3>3, <3>4 DEF Grounded
  <2>5. ASSUME NEW w \in Work, MergeStep(w)
        PROVE  GraphsPast' /\ Grounded'
    <3>1. session' = session /\ row' = row
      BY <2>5 DEF MergeStep, ClaimEntry, FinishEntry
    <3> QED
      BY <1>2, <2>2, <2>5, <3>1, IntegratedStays DEF GraphsPast, Grounded
  <2>6. CASE ReplaceGraph
    <3>1. session'.graph = session.graph + 1 /\ row' = row
      BY <1>2, <2>6 DEF ReplaceGraph, SwarmTypeOK, SessionType
    <3> QED
      BY <1>2, <2>1, <3>1 DEF GraphsPast, Grounded
  <2>7. CASE UNCHANGED swarmVars
    BY <1>2, <2>7 DEF swarmVars, GraphsPast, Grounded
  <2> QED
    BY <1>2, <2>3, <2>4, <2>5, <2>6, <2>7, QuietSteps
<1>3. Inv => StartedAfterPrerequisites
  BY DEF Grounded, StartedAfterPrerequisites
<1> QED
  BY <1>1, <1>2, <1>3, SwarmTypeCorrect, PTL DEF SwarmSpec

(* A session is completed only with every work item of its present graph   *)
(* integrated, for every graph and every order of verification, recovery,  *)
(* pause and replanning.                                                   *)
THEOREM CompletionSound == SwarmSpec => []CompletedIntegrated
<1>1. SwarmInit => CompletedIntegrated
  BY DEF SwarmInit, CompletedIntegrated
<1>2. ASSUME SwarmTypeOK, CompletedIntegrated, [SwarmNext]_swarmVars
      PROVE  CompletedIntegrated'
  <2>1. CASE session' = session /\ entry' = entry
    BY <1>2, <2>1 DEF CompletedIntegrated, QueueCompleted
  <2>2. CASE session'.state # "completed"
    BY <2>2 DEF CompletedIntegrated
  <2>3. ASSUME NEW w \in Work, MergeStep(w)
        PROVE  CompletedIntegrated'
    <3>1. session' = session
      BY <2>3 DEF MergeStep, ClaimEntry, FinishEntry
    <3> QED
      BY <1>2, <2>3, <3>1, IntegratedStays DEF CompletedIntegrated, QueueCompleted
  <2>4. ASSUME NEW verified \in BOOLEAN, SaveVerification(verified)
        PROVE  CompletedIntegrated'
    BY <2>4 DEF SaveVerification, CompletedIntegrated, QueueCompleted
  <2>5. \A s : [session EXCEPT !.state = s].state = s
    BY <1>2 DEF SwarmTypeOK, SessionType
  <2>6. CASE \/ CancelSession \/ ResumeSession \/ BeginVerification \/ ReopenVerification
             \/ \E w \in Work : Reserve(w)
             \/ (PauseSession \/ PauseCrash)
                  /\ UNCHANGED <<row, proc, entry, verify, rescuer, canceller>>
    BY <1>2, <2>1, <2>2, <2>5, <2>6
       DEF CancelSession, ResumeSession, BeginVerification, ReopenVerification, Reserve,
           PauseSession, PauseCrash, SwarmTypeOK
  <2>7. CASE ReplaceGraph
    BY <1>2, <2>2, <2>7 DEF ReplaceGraph, SwarmTypeOK, SessionType
  <2>8. ASSUME NEW r \in Runs,
               \/ RunnerStep(r) \/ RunnerCrash(r) \/ ReadForCancel(r) \/ InspectRun(r)
               \/ \E code \in Exited : AgentExits(r, code)
        PROVE  CompletedIntegrated'
    BY <2>1, <2>8
       DEF RunnerStep, AbortRun, FailSpawn, Spawn, RecordRunning, ReadForBeat, Beat, StopAgent,
           NoticeCancel, DecideFinal, RecordFinal, RunnerGoes, RunnerCrash, ReadForCancel,
           AgentExits, InspectRun
  <2>9. CASE CancelRun \/ InspectNothing \/ ReadForRecovery \/ GiveUp \/ RecoverRun
             \/ VerifierCrash \/ SwarmTick \/ UNCHANGED swarmVars
    BY <2>1, <2>9 DEF CancelRun, InspectNothing, ReadForRecovery, GiveUp, RecoverRun,
                      VerifierCrash, SwarmTick, swarmVars
  <2> QED
    BY <1>2, <2>3, <2>4, <2>6, <2>7, <2>8, <2>9 DEF SwarmNext, RecoveryStep, MergeStep
<1> QED
  BY <1>1, <1>2, SwarmTypeCorrect, PTL DEF SwarmSpec
-----------------------------------------------------------------------------
(* Why a success stands: a row is reserved before its runner exists and    *)
(* attempts are numbered in order, so no reservation meets a finished run; *)
(* a runner that is still up has not recorded a success.                   *)
Reserved(r) == row[r].state # "none"

(* Attempts are numbered without gaps. *)
Numbered ==
    \A w \in Work, n \in 1..MaxAttempts :
        Reserved(<<w, n>>) => \A m \in 1..n : Reserved(<<w, m>>)

Cancelling(r) == canceller # NoCancel /\ canceller.run = r

(* What a runner or a cancellation will write is about a reserved run. *)
RowsFirst == \A r \in Runs : ~Reserved(r) => proc[r].pc = "none" /\ ~Cancelling(r)

Decided == \A r \in Runs : proc[r].pc = "ended" => proc[r].final \in Terminal

Finished == \A r \in Runs : row[r].state = "succeeded" => proc[r].pc = "done"

RowsInv == Numbered /\ RowsFirst /\ Decided /\ Finished

(* A set of numbers has a least one. *)
LEMMA LeastOf ==
    ASSUME NEW S \in SUBSET Nat, S # {}
    PROVE  \E x \in S : \A y \in S : x <= y
<1>1. PICK x \in S : \A y \in S : ~(<<y, x>> \in OpToRel(<, Nat))
  BY NatLessThanWellFounded, WFMin
<1>2. \A y \in S : ~(y < x)
  BY <1>1 DEF OpToRel
<1> QED
  BY <1>2

(* A set of attempts without gaps is an initial segment. *)
LEMMA Segment ==
    ASSUME NEW N \in Nat, NEW used \in SUBSET (1..N), \A n \in used : 1..n \subseteq used
    PROVE  \E k \in 0..N : used = 1..k
<1>1. PICK x \in (1..(N + 1)) \ used : \A y \in (1..(N + 1)) \ used : x <= y
  <2>1. N + 1 \in (1..(N + 1)) \ used
    OBVIOUS
  <2>2. (1..(N + 1)) \ used \in SUBSET Nat
    OBVIOUS
  <2> QED
    BY <2>1, <2>2, LeastOf
<1>2. ASSUME NEW n \in used PROVE n <= x - 1
  <2>1. CASE x <= n
    <3>1. x \in 1..n /\ 1..n \subseteq used
      BY <1>2, <2>1
    <3> QED
      BY <1>1, <3>1
  <2> QED
    BY <1>2, <2>1
<1>3. ASSUME NEW n \in 1..(x - 1) PROVE n \in used
  BY <1>1, <1>3
<1>4. used = 1..(x - 1)
  <2>1. \A n \in used : n \in 1..(x - 1)
    BY <1>2
  <2>2. \A n \in 1..(x - 1) : n \in used
    BY <1>3
  <2> QED
    BY <2>1, <2>2
<1>5. x - 1 \in 0..N
  OBVIOUS
<1> QED
  BY <1>4, <1>5

(* The reserved rows of w are those up to the number of its launches. *)
LEMMA LaunchedInOrder ==
    ASSUME Numbered, NEW w \in Work
    PROVE  /\ Launched(w) \in 0..MaxAttempts
           /\ \A n \in 1..MaxAttempts : Reserved(<<w, n>>) <=> n <= Launched(w)
<1> DEFINE used == { n \in 1..MaxAttempts : row[<<w, n>>].state # "none" }
<1>1. MaxAttempts \in Nat
  BY SwarmAssumption DEF MaxAttempts
<1>2. \A n \in used : 1..n \subseteq used
  BY <1>1 DEF Numbered, Reserved
<1>3. PICK k \in 0..MaxAttempts : used = 1..k
  <2>1. used \in SUBSET (1..MaxAttempts)
    OBVIOUS
  <2> HIDE DEF used
  <2> QED
    BY <1>1, <1>2, <2>1, Segment
<1>4. Launched(w) = k
  <2>1. Launched(w) = Cardinality(1..k)
    BY <1>3 DEF Launched
  <2>2. Cardinality(1..k) = IF 1 > k THEN 0 ELSE k - 1 + 1
    BY <1>1, <1>3, FS_Interval
  <2> QED
    BY <1>1, <1>3, <2>1, <2>2
<1>5. \A n \in 1..MaxAttempts : Reserved(<<w, n>>) <=> n \in used
  BY DEF Reserved
<1> QED
  BY <1>1, <1>3, <1>4, <1>5

(* A reservation is of a run that has no row yet, and closes no gap. *)
LEMMA ReservesFresh ==
    ASSUME Numbered, NEW w \in Work, Reserve(w)
    PROVE  /\ <<w, Launched(w) + 1>> \in Runs
           /\ ~Reserved(<<w, Launched(w) + 1>>)
           /\ \A m \in 1..Launched(w) : Reserved(<<w, m>>)
<1>1. Launched(w) < MaxAttempts /\ MaxAttempts \in Nat
  BY SwarmAssumption DEF Reserve, Dispatchable, Candidates, MaxAttempts
<1> QED
  BY <1>1, LaunchedInOrder DEF Runs

(* Rows that stay as reserved as they were keep the numbering. *)
LEMMA KeepsNumbered ==
    ASSUME Numbered, \A q \in Runs : Reserved(q)' <=> Reserved(q)
    PROVE  Numbered'
<1>1. ASSUME NEW w \in Work, NEW n \in 1..MaxAttempts, NEW m \in 1..n
      PROVE  <<w, n>> \in Runs /\ <<w, m>> \in Runs
  BY SwarmAssumption DEF Runs, MaxAttempts
<1> QED
  BY <1>1 DEF Numbered

(* update_codex_run writes the row it is given and no other. *)
LEMMA WriteRows ==
    ASSUME SwarmTypeOK, NEW r \in Runs, NEW state, NEW pid, NEW left, Write(r, state, pid, left)
    PROVE  \A q \in Runs : row'[q].state = IF q = r THEN state ELSE row[q].state
BY DEF SwarmTypeOK, Write, RowType

(* The steps of a runner: it writes only its own row, which it has not     *)
(* written a final state to before.                                        *)
LEMMA RunnerRows ==
    ASSUME SwarmTypeOK, RowsInv, NEW r \in Runs, RunnerStep(r)
    PROVE  /\ RowsInv'
           /\ \A q \in Runs : row[q].state = "succeeded" => row'[q].state = "succeeded"
<1>1. proc \in [Runs -> ProcType] /\ proc[r] \in ProcType /\ row[r] \in RowType
  BY DEF SwarmTypeOK
<1>2. ASSUME NEW p \in ProcType, NEW state, proc' = [proc EXCEPT ![r] = p], canceller' = canceller,
             proc[r].pc \notin {"none", "done"}, p.pc # "none", state # "none",
             p.pc = "ended" => p.final \in Terminal,
             state = "succeeded" => p.pc = "done",
             \A q \in Runs : row'[q].state = IF q = r THEN state ELSE row[q].state
      PROVE  /\ RowsInv'
             /\ \A q \in Runs : row[q].state = "succeeded" => row'[q].state = "succeeded"
  <2>1. Reserved(r) /\ row[r].state # "succeeded"
    BY <1>2 DEF RowsInv, RowsFirst, Finished
  <2>2. \A q \in Runs : Reserved(q)' <=> Reserved(q)
    BY <1>2, <2>1 DEF Reserved
  <2>3. \A q \in Runs : proc'[q] = IF q = r THEN p ELSE proc[q]
    BY <1>1, <1>2
  <2> QED
    BY <1>2, <2>1, <2>2, <2>3, KeepsNumbered DEF RowsInv, RowsFirst, Decided, Finished, Reserved, Cancelling
<1>3. CASE RecordRunning(r) \/ Beat(r)
  <2>1. ASSUME NEW p, RunnerGoes(r, "spawned", p) \/ RunnerGoes(r, "beat", p)
        PROVE  /\ proc[r].pc \notin {"none", "done"}
               /\ proc' = [proc EXCEPT ![r] = p] /\ canceller' = canceller
    BY <2>1 DEF RunnerGoes
  <2>2. /\ [proc[r] EXCEPT !.pc = "watch"] \in ProcType
        /\ [proc[r] EXCEPT !.pc = "watch"].pc = "watch"
        /\ [proc[r] EXCEPT !.pc = "watch", !.saw = FALSE] \in ProcType
        /\ [proc[r] EXCEPT !.pc = "watch", !.saw = FALSE].pc = "watch"
    BY <1>1 DEF ProcType
  <2>3. CASE RecordRunning(r)
    <3>1. \A q \in Runs : row'[q].state = IF q = r THEN "running" ELSE row[q].state
      BY <2>3, WriteRows DEF RecordRunning
    <3> QED
      BY <1>2, <2>1, <2>2, <2>3, <3>1 DEF RecordRunning
  <2>4. CASE Beat(r)
    <3> DEFINE state == IF proc[r].saw THEN "cancelling" ELSE "running"
    <3>1. \A q \in Runs : row'[q].state = IF q = r THEN state ELSE row[q].state
      BY <2>4, WriteRows DEF Beat
    <3>2. state \in {"cancelling", "running"}
      OBVIOUS
    <3> HIDE DEF state
    <3> QED
      BY <1>2, <2>1, <2>2, <2>4, <3>1, <3>2 DEF Beat
  <2> QED
    BY <1>3, <2>3, <2>4
<1>4. CASE FailSpawn(r) \/ RecordFinal(r)
  <2>1. Done \in ProcType /\ Done.pc = "done"
    BY DEF Done, NoProc, ProcType
  <2>2. PICK state \in Terminal :
          /\ \A q \in Runs : row'[q].state = IF q = r THEN state ELSE row[q].state
          /\ proc[r].pc \in {"setup", "ended"}
          /\ proc' = [proc EXCEPT ![r] = Done] /\ canceller' = canceller
    <3>1. CASE FailSpawn(r)
      BY <3>1, WriteRows DEF FailSpawn, WriteFinal, RunnerGoes
    <3>2. CASE RecordFinal(r)
      <4>1. proc[r].final \in Terminal
        BY <3>2 DEF RecordFinal, RunnerGoes, RowsInv, Decided
      <4> QED
        BY <3>2, <4>1, WriteRows DEF RecordFinal, WriteFinal, RunnerGoes
    <3> QED
      BY <1>4, <3>1, <3>2
  <2> QED
    BY <1>2, <2>1, <2>2
<1>5. ASSUME NEW p \in ProcType, proc' = [proc EXCEPT ![r] = p], UNCHANGED <<row, canceller>>,
             proc[r].pc \notin {"none", "done"}, p.pc \notin {"none", "done"},
             p.pc = "ended" => p.final \in Terminal
      PROVE  /\ RowsInv'
             /\ \A q \in Runs : row[q].state = "succeeded" => row'[q].state = "succeeded"
  <2>1. Reserved(r) /\ row[r].state # "succeeded"
    BY <1>5 DEF RowsInv, RowsFirst, Finished
  <2>2. \A q \in Runs : row'[q].state = IF q = r THEN row[r].state ELSE row[q].state
    BY <1>5
  <2> QED
    BY <1>2, <1>5, <2>1, <2>2 DEF Reserved
<1>6. \A final \in Terminal : /\ Stopped(proc[r], final) \in ProcType
                              /\ Stopped(proc[r], final).pc = proc[r].pc
                              /\ Stopped(proc[r], final).final = final
  <2>1. \A final \in Terminal : Stopped(proc[r], final) \in ProcType
    BY <1>1, StoppedType
  <2>2. \A final \in Terminal : /\ Stopped(proc[r], final).pc = proc[r].pc
                                /\ Stopped(proc[r], final).final = final
    BY <1>1 DEF Stopped, ProcType
  <2> QED
    BY <2>1, <2>2
<1>7. ASSUME NEW final \in {"cancelled", "spawn_failed"}, AbortRun(r, final)
      PROVE  \E p \in ProcType : /\ proc' = [proc EXCEPT ![r] = p] /\ UNCHANGED <<row, canceller>>
                                 /\ proc[r].pc \notin {"none", "done"}
                                 /\ p.pc \notin {"none", "done"}
                                 /\ p.pc = "ended" => p.final \in Terminal
  <2> DEFINE s == Stopped(proc[r], final)
             p == [s EXCEPT !.pc = "ended", !.reaped = TRUE]
  <2>1. s \in ProcType /\ s.final \in Terminal
    BY <1>6
  <2> HIDE DEF s
  <2>2. p \in ProcType /\ p.pc = "ended" /\ p.final \in Terminal
    BY <2>1 DEF ProcType
  <2>3. proc' = [proc EXCEPT ![r] = p]
    BY <1>7 DEF AbortRun, s
  <2> QED
    BY <1>7, <2>2, <2>3 DEF AbortRun
<1>8. CASE Spawn(r) \/ ReadForBeat(r) \/ StopAgent(r) \/ NoticeCancel(r) \/ DecideFinal(r)
  <2>1. ASSUME NEW f \in Terminal
        PROVE  /\ [proc[r] EXCEPT !.pc = "ended", !.reaped = TRUE, !.final = f] \in ProcType
               /\ [proc[r] EXCEPT !.pc = "ended", !.reaped = TRUE, !.final = f].pc = "ended"
               /\ [proc[r] EXCEPT !.pc = "ended", !.reaped = TRUE, !.final = f].final = f
    BY <1>1 DEF ProcType
  <2>2. CASE Spawn(r)
    <3> DEFINE p == [proc[r] EXCEPT !.pc = "spawned", !.agent = "live"]
    <3>1. p \in ProcType /\ p.pc = "spawned" /\ proc' = [proc EXCEPT ![r] = p]
      BY <1>1, <2>2 DEF Spawn, ProcType
    <3> HIDE DEF p
    <3> QED
      BY <1>5, <2>2, <3>1 DEF Spawn
  <2>3. CASE ReadForBeat(r)
    <3> DEFINE p == [proc[r] EXCEPT !.pc = "beat", !.saw = row[r].state = "cancelling"]
    <3>1. p \in ProcType /\ p.pc = "beat"
      BY <1>1 DEF ProcType
    <3>2. proc' = [proc EXCEPT ![r] = p]
      BY <2>3 DEF ReadForBeat
    <3> HIDE DEF p
    <3> QED
      BY <1>5, <2>3, <3>1, <3>2 DEF ReadForBeat
  <2>4. CASE StopAgent(r)
    BY <1>5, <1>6, <2>4 DEF StopAgent
  <2>5. CASE NoticeCancel(r)
    <3>1. proc[r].pc = "watch" => /\ [proc[r] EXCEPT !.reaped = TRUE] \in ProcType
                                  /\ [proc[r] EXCEPT !.reaped = TRUE].pc = "watch"
      BY <1>1 DEF ProcType
    <3> QED
      BY <1>5, <1>6, <2>5, <3>1 DEF NoticeCancel
  <2>6. CASE DecideFinal(r)
    <3> DEFINE f == IF proc[r].final # "none" THEN proc[r].final
                    ELSE IF row[r].state = "cancelling" THEN "cancelled"
                    ELSE IF proc[r].agent = "ok" THEN "succeeded" ELSE "failed"
    <3>1. f \in Terminal
      BY <1>1 DEF ProcType
    <3>2. proc' = [proc EXCEPT ![r] = [proc[r] EXCEPT !.pc = "ended", !.reaped = TRUE, !.final = f]]
      BY <2>6 DEF DecideFinal
    <3> HIDE DEF f
    <3> QED
      BY <1>5, <2>1, <2>6, <3>1, <3>2 DEF DecideFinal
  <2> QED
    BY <1>8, <2>2, <2>3, <2>4, <2>5, <2>6
<1> QED
  BY <1>3, <1>4, <1>5, <1>7, <1>8 DEF RunnerStep

(* A reservation takes the next number and starts its runner. *)
LEMMA ReserveRows ==
    ASSUME SwarmTypeOK, RowsInv, NEW w \in Work, Reserve(w)
    PROVE  /\ RowsInv'
           /\ \A q \in Runs : row[q].state = "succeeded" => row'[q].state = "succeeded"
<1> DEFINE k == Launched(w) + 1
           r == <<w, k>>
<1>1. /\ r \in Runs /\ ~Reserved(r) /\ k \in Nat
      /\ \A m \in 1..k : m # k => Reserved(<<w, m>>)
  <2>1. Numbered
    BY DEF RowsInv
  <2> QED
    BY <2>1, ReservesFresh, LaunchedInOrder
<1>2. \A q \in Runs : row'[q].state = IF q = r THEN "reserved" ELSE row[q].state
  BY DEF Reserve, SwarmTypeOK, RowType
<1>3. \A q \in Runs : q # r => proc'[q] = proc[q]
  BY DEF Reserve, SwarmTypeOK, ProcType
<1>4. proc'[r].pc = "setup"
  <2>1. proc'[r] = [proc[r] EXCEPT !.pc = "setup"] /\ proc[r] \in ProcType
    BY <1>1 DEF Reserve, SwarmTypeOK
  <2> QED
    BY <2>1 DEF ProcType
<1>5. canceller' = canceller
  BY DEF Reserve
<1> HIDE DEF r
<1>6. Numbered'
  <2>1. ASSUME NEW v \in Work, NEW n \in 1..MaxAttempts, Reserved(<<v, n>>)', NEW m \in 1..n
        PROVE  Reserved(<<v, m>>)'
    <3>1. <<v, n>> \in Runs /\ <<v, m>> \in Runs
      BY SwarmAssumption DEF Runs, MaxAttempts
    <3>2. CASE <<v, n>> = r
      <4>1. v = w /\ n = k
        BY <3>2 DEF r
      <4> QED
        BY <1>1, <1>2, <3>1, <4>1 DEF r, Reserved
    <3>3. CASE <<v, n>> # r
      <4>1. Reserved(<<v, n>>)
        BY <1>2, <2>1, <3>1, <3>3 DEF Reserved
      <4>2. Reserved(<<v, m>>)
        BY <2>1, <4>1 DEF RowsInv, Numbered
      <4> QED
        BY <1>2, <3>1, <4>2 DEF Reserved
    <3> QED
      BY <3>2, <3>3
  <2> QED
    BY <2>1 DEF Numbered
<1> QED
  BY <1>1, <1>2, <1>3, <1>4, <1>5, <1>6 DEF RowsInv, RowsFirst, Decided, Finished, Reserved, Cancelling

(* What the other steps do to rows, processes and the cancellation.        *)
RowsMove ==
    \A q \in Runs : \/ row'[q].state = row[q].state
                    \/ /\ row[q].state \in Active \/ Cancelling(q)
                       /\ row'[q].state \in {"cancelling", "lost", "cancelled"}

ProcsMove ==
    \A q \in Runs :
        /\ proc'[q].pc = proc[q].pc \/ (proc[q].pc \notin {"none", "done"} /\ proc'[q].pc = "dead")
        /\ proc'[q].pc = "ended" => proc'[q].final = proc[q].final

CancelMoves == \A q \in Runs : Cancelling(q)' => Cancelling(q) \/ Reserved(q)

LEMMA MovesKeep ==
    ASSUME RowsInv, RowsMove, ProcsMove, CancelMoves
    PROVE  RowsInv'
<1>1. \A q \in Runs : Reserved(q)' <=> Reserved(q)
  BY DEF RowsInv, RowsFirst, Reserved, RowsMove
<1>2. Numbered'
  BY <1>1, KeepsNumbered DEF RowsInv
<1>3. RowsFirst'
  BY <1>1 DEF RowsInv, RowsFirst, ProcsMove, CancelMoves
<1>4. Decided'
  BY DEF RowsInv, Decided, ProcsMove
<1>5. Finished'
  BY DEF RowsInv, Finished, ProcsMove, RowsMove
<1> QED
  BY <1>2, <1>3, <1>4, <1>5 DEF RowsInv

(* A cancellation may write over a success it has not seen; what else      *)
(* happens writes to active rows only.                                     *)
LEMMA OtherRows ==
    ASSUME SwarmTypeOK,
           \/ \E r \in Runs : RunnerCrash(r) \/ ReadForCancel(r)
                              \/ \E code \in Exited : AgentExits(r, code)
           \/ CancelRun \/ CancelSession \/ RecoveryStep \/ SwarmTick
           \/ UNCHANGED <<row, proc, canceller>>
    PROVE  RowsMove /\ ProcsMove /\ CancelMoves
<1>1. \A q \in Runs : row[q] \in RowType /\ proc[q] \in ProcType
  BY DEF SwarmTypeOK
<1>2. UNCHANGED row => RowsMove
  BY DEF RowsMove
<1>3. UNCHANGED proc => ProcsMove
  BY DEF ProcsMove
<1>4. UNCHANGED canceller => CancelMoves
  BY DEF CancelMoves, Cancelling
<1>5. ASSUME NEW r \in Runs, RunnerCrash(r)
      PROVE  ProcsMove
  <2>1. \A q \in Runs : proc'[q].pc = IF q = r THEN "dead" ELSE proc[q].pc
    BY <1>1, <1>5 DEF RunnerCrash, NoProc, SwarmTypeOK
  <2>2. \A q \in Runs : q # r => proc'[q] = proc[q]
    BY <1>5 DEF RunnerCrash, SwarmTypeOK
  <2>3. proc[r].pc \notin {"none", "done"}
    BY <1>5 DEF RunnerCrash
  <2> QED
    BY <2>1, <2>2, <2>3 DEF ProcsMove
<1>6. ASSUME NEW r \in Runs, ReadForCancel(r)
      PROVE  CancelMoves
  BY <1>6 DEF ReadForCancel, Reserved, Cancelling, CancelMoves
<1>7. ASSUME NEW r \in Runs, NEW code \in Exited, AgentExits(r, code)
      PROVE  ProcsMove
  <2>1. \A q \in Runs : proc'[q].pc = proc[q].pc /\ proc'[q].final = proc[q].final
    BY <1>1, <1>7 DEF AgentExits, SwarmTypeOK, ProcType
  <2> QED
    BY <2>1 DEF ProcsMove
<1>8. CancelRun => RowsMove /\ CancelMoves
  <2> SUFFICES ASSUME CancelRun PROVE RowsMove /\ CancelMoves
    OBVIOUS
  <2>1. row' = [row EXCEPT ![canceller.run] = [@ EXCEPT !.state = "cancelling",
                   !.pid = canceller.pid, !.lease = canceller.lease]]
    BY DEF CancelRun, Write
  <2>2. \A q \in Runs : row'[q].state = IF q = canceller.run THEN "cancelling" ELSE row[q].state
    BY <1>1, <2>1 DEF SwarmTypeOK, RowType
  <2>3. canceller # NoCancel /\ canceller' = NoCancel /\ NoCancel' = NoCancel
    BY DEF CancelRun, NoCancel
  <2> QED
    BY <2>2, <2>3 DEF RowsMove, CancelMoves, Cancelling
<1>9. CancelSession => RowsMove
  BY <1>1 DEF CancelSession, ActiveRuns, RowType, RowsMove
<1>10. RecoverRun => RowsMove
  <2>1. rescuer.target \in {"lost", "cancelled"}
    BY DEF SwarmTypeOK, RescueType
  <2> QED
    BY <1>1, <2>1 DEF RecoverRun, RowType, SwarmTypeOK, RowsMove
<1>11. ReadForRecovery => ProcsMove
  <2> SUFFICES ASSUME ReadForRecovery PROVE ProcsMove
    OBVIOUS
  <2>1. \A q \in Runs : proc'[q].pc = proc[q].pc /\ proc'[q].final = proc[q].final
    BY <1>1 DEF ReadForRecovery, SwarmTypeOK, ProcType
  <2> QED
    BY <2>1 DEF ProcsMove
<1>12. SwarmTick => RowsMove /\ CancelMoves
  <2> SUFFICES ASSUME SwarmTick PROVE RowsMove /\ CancelMoves
    OBVIOUS
  <2>1. RowsMove
    BY <1>1 DEF SwarmTick, RowType, RowsMove
  <2>2. canceller'.run = canceller.run
    BY DEF SwarmTick, SwarmTypeOK
  <2>3. canceller = NoCancel => canceller' = NoCancel
    <3>1. Countdown(0) = 0
      BY DEF Countdown
    <3>2. NoCancel.lease = 0
      BY DEF NoCancel
    <3>3. [NoCancel EXCEPT !.lease = 0] = NoCancel
      <4>1. \A c \in [run : Runs \cup {NoRun}, pid : BOOLEAN, lease : 0..LeaseTicks] :
               c.lease = 0 => [c EXCEPT !.lease = 0] = c
        OBVIOUS
      <4>2. NoCancel \in [run : Runs \cup {NoRun}, pid : BOOLEAN, lease : 0..LeaseTicks]
        BY Bounds DEF NoCancel
      <4> QED
        BY <3>2, <4>1, <4>2
    <3>4. canceller' = [canceller EXCEPT !.lease = Countdown(canceller.lease)]
      BY DEF SwarmTick
    <3> QED
      BY <3>1, <3>2, <3>3, <3>4
  <2> QED
    BY <2>1, <2>2, <2>3 DEF CancelMoves, Cancelling, NoCancel
<1>13. UNCHANGED row \/ CancelRun \/ CancelSession \/ RecoverRun \/ SwarmTick
  BY DEF RecoveryStep, RunnerCrash, ReadForCancel, AgentExits, InspectRun, InspectNothing,
         ReadForRecovery, GiveUp, ReopenVerification
<1>14. \/ UNCHANGED proc \/ ReadForRecovery
       \/ \E r \in Runs : RunnerCrash(r) \/ \E code \in Exited : AgentExits(r, code)
  BY DEF RecoveryStep, ReadForCancel, CancelRun, CancelSession, InspectRun, InspectNothing,
         RecoverRun, GiveUp, ReopenVerification, SwarmTick
<1>15. UNCHANGED canceller \/ CancelRun \/ SwarmTick \/ \E r \in Runs : ReadForCancel(r)
  BY DEF RecoveryStep, RunnerCrash, AgentExits, CancelSession, InspectRun, InspectNothing,
         ReadForRecovery, RecoverRun, GiveUp, ReopenVerification
<1>16. RowsMove
  BY <1>2, <1>8, <1>9, <1>10, <1>12, <1>13
<1>17. ProcsMove
  BY <1>3, <1>5, <1>7, <1>11, <1>14
<1>18. CancelMoves
  BY <1>4, <1>6, <1>8, <1>12, <1>15
<1> QED
  BY <1>16, <1>17, <1>18

(* A success is taken back by no recovery, heartbeat, late final write or  *)
(* new attempt, for any number of runs and any deaths of their runners;    *)
(* only a cancellation that read the row before may write over it.         *)
THEOREM SuccessIsNotTakenBack == SwarmSpec => SuccessStands
<1> DEFINE Stands == \A r \in Runs :
             row[r].state = "succeeded" /\ row'[r].state # "succeeded" => canceller.run = r
<1>1. SwarmInit => RowsInv
  <2>1. /\ NoRow.state = "none" /\ NoProc.pc = "none"
    BY DEF NoRow, NoProc
  <2>2. SwarmInit => \A r \in Runs : ~Reserved(r) /\ row[r].state = "none" /\ proc[r].pc = "none"
    BY <2>1 DEF SwarmInit, Reserved
  <2>3. SwarmInit => \A r \in Runs : ~Cancelling(r)
    BY DEF SwarmInit, Cancelling
  <2>4. \A w \in Work, n \in 1..MaxAttempts : <<w, n>> \in Runs
    BY DEF Runs
  <2> QED
    BY <2>2, <2>3, <2>4 DEF SwarmInit, RowsInv, Numbered, RowsFirst, Decided, Finished
<1>2. ASSUME SwarmTypeOK, RowsInv, [SwarmNext]_swarmVars
      PROVE  RowsInv' /\ Stands
  <2>1. ASSUME NEW w \in Work, Reserve(w) PROVE RowsInv' /\ Stands
    BY <1>2, <2>1, ReserveRows
  <2>2. ASSUME NEW r \in Runs, RunnerStep(r) PROVE RowsInv' /\ Stands
    BY <1>2, <2>2, RunnerRows
  <2>3. ASSUME \/ \E r \in Runs : RunnerCrash(r) \/ ReadForCancel(r)
                                  \/ \E code \in Exited : AgentExits(r, code)
               \/ CancelRun \/ CancelSession \/ RecoveryStep \/ SwarmTick
               \/ UNCHANGED <<row, proc, canceller>>
        PROVE  RowsInv' /\ Stands
    <3>1. RowsMove /\ ProcsMove /\ CancelMoves
      BY <1>2, <2>3, OtherRows
    <3> QED
      BY <1>2, <3>1, MovesKeep DEF RowsMove, Cancelling
  <2>4. ASSUME \/ \E w \in Work : MergeStep(w)
               \/ (PauseSession \/ PauseCrash)
                    /\ UNCHANGED <<row, proc, entry, verify, rescuer, canceller>>
               \/ ResumeSession \/ ReplaceGraph \/ BeginVerification \/ VerifierCrash
               \/ \E verified \in BOOLEAN : SaveVerification(verified)
               \/ UNCHANGED swarmVars
        PROVE  UNCHANGED <<row, proc, canceller>>
    BY <2>4 DEF MergeStep, ClaimEntry, FinishEntry, ResumeSession, ReplaceGraph,
                BeginVerification, VerifierCrash, SaveVerification, swarmVars
  <2> HIDE DEF Stands
  <2> QED
    BY <1>2, <2>1, <2>2, <2>3, <2>4 DEF SwarmNext, MergeStep
<1>3. SwarmSpec => [][Stands]_swarmVars
  BY <1>1, <1>2, SwarmTypeCorrect, PTL DEF SwarmSpec
<1> QED
  BY <1>3 DEF SuccessStands
=============================================================================
