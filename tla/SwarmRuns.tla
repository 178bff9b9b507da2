------------------------------- MODULE SwarmRuns -------------------------------
(***************************************************************************)
(* One swarm session: swarm/store.py, the worker processes of              *)
(* swarm/codex_runner.py, swarm/recovery.py, and the merge queue and the   *)
(* verification as far as they steer the session.                          *)
(*                                                                         *)
(* A run has a row, a runner process and an agent process.  The runner     *)
(* writes whole rows without looking at what they hold; reservation,       *)
(* recovery and session cancellation are transactions.  Operators cancel,  *)
(* pause, resume, recover and verify from processes of their own.          *)
(*                                                                         *)
(* Left out: token, cost and wall-time accounts (they refuse reservations  *)
(* or stop an agent, which may happen at any time here), the recovery      *)
(* events other than session_paused, the budget policy (replaced like the  *)
(* graph), the rescue of merge conflicts.  The merge queue is planned      *)
(* before work is dispatched, as "swarm start" does.                       *)
(***************************************************************************)
EXTENDS Integers, FiniteSets

CONSTANTS
    Work,          \* work items of the graph
    Deps,          \* Deps[w]: effective dependencies of the shared admission
    Rank,          \* Rank[w]: place in the topological order
    MaxActive,     \* workers.max_active
    MaxPerWork,    \* workers.max_active_per_work_item
    MaxRestarts,   \* retries.max_agent_restarts
    MaxLaunches,   \* workers.max_total_launches
    LeaseTicks,    \* _RUN_LEASE_SECONDS
    MaxGraph,      \* bound on graph_version
    NoRun          \* the recovering or cancelling operator is idle

ASSUME SwarmAssumption ==
    /\ Deps \in [Work -> SUBSET Work]
    /\ Rank \in [Work -> Nat]
    /\ {MaxActive, MaxPerWork, LeaseTicks, MaxGraph} \subseteq Nat \ {0}
    /\ {MaxRestarts, MaxLaunches} \subseteq Nat

VARIABLES
    session,   \* swarm_sessions: state and graph version
    row,       \* swarm_codex_runs, by work item and attempt
    proc,      \* the runner and agent process of a run
    entry,     \* merge-queue entries; ready and blocked are recomputed at each use
    verify,    \* graph version being verified (0: none); a report is stored
    rescuer,   \* recover_swarm_session, at one run
    canceller, \* cancel_codex_run between its read and its write
    pauser,    \* pause_swarm_session between its transactions
    paused     \* previous_state of the latest session_paused event

swarmVars == <<session, row, proc, entry, verify, rescuer, canceller, pauser, paused>>

MaxAttempts == 1 + MaxRestarts
Runs == Work \X (1..MaxAttempts)

Active   == {"reserved", "running", "cancelling"}
Terminal == {"succeeded", "failed", "timed_out", "cancelled", "spawn_failed", "lost"}
Open     == {"planned", "running"}
Exited   == {"ok", "bad"}
Watching == {"watch", "beat"}
RunnerUp == {"setup", "spawned", "ended"} \cup Watching

NoRow  == [state |-> "none", graph |-> 0, lease |-> 0, pid |-> FALSE]
NoProc == [pc |-> "none", agent |-> "none", reaped |-> FALSE, final |-> "none", saw |-> FALSE]
NoRescue == [phase |-> "idle", run |-> NoRun, health |-> "", target |-> "lost", current |-> FALSE]
NoCancel == [run |-> NoRun, pid |-> FALSE, lease |-> 0]

SessionType == [ state : Open \cup {"paused", "verifying", "completed", "failed", "cancelled"},
                 graph : 1..MaxGraph ]
RowType == [ state : Active \cup Terminal \cup {"none"}, graph : 0..MaxGraph,
             lease : 0..LeaseTicks, pid : BOOLEAN ]
ProcType == [ pc : RunnerUp \cup {"none", "done", "dead"}, agent : Exited \cup {"none", "live"},
              reaped : BOOLEAN, final : Terminal \cup {"none"}, saw : BOOLEAN ]
RescueType == [ phase : {"idle", "inspected", "read", "done"}, run : Runs \cup {NoRun},
                health : {"", "lost", "stale"}, target : {"lost", "cancelled"},
                current : BOOLEAN ]

SwarmTypeOK ==
    /\ session \in SessionType
    /\ row \in [Runs -> RowType]
    /\ proc \in [Runs -> ProcType]
    /\ entry \in [Work -> {"open", "integrating", "integrated", "conflict"}]
    /\ verify \in [graph : 0..MaxGraph, report : BOOLEAN]
    /\ rescuer \in RescueType
    /\ canceller \in [run : Runs \cup {NoRun}, pid : BOOLEAN, lease : 0..LeaseTicks]
    /\ pauser \in {"idle", "listed", "planned", "running", "wrote_planned", "wrote_running"}
    /\ paused \in Open

SwarmInit ==
    /\ session = [state |-> "planned", graph |-> 1]
    /\ row = [r \in Runs |-> NoRow]
    /\ proc = [r \in Runs |-> NoProc]
    /\ entry = [w \in Work |-> "open"]
    /\ verify = [graph |-> 0, report |-> FALSE]
    /\ rescuer = NoRescue
    /\ canceller = NoCancel
    /\ pauser = "idle"
    /\ paused = "running"

-----------------------------------------------------------------------------
(* The scheduler.                                                          *)

ActiveRuns == { r \in Runs : row[r].state \in Active }
Launched(w) == Cardinality({ n \in 1..MaxAttempts : row[<<w, n>>].state # "none" })
LatestState(w) == IF Launched(w) = 0 THEN "none" ELSE row[<<w, Launched(w)>>].state

(* compute_scheduler_snapshot: the runnable items, first come by rank. *)
Released(w) == LatestState(w) = "succeeded" /\ entry[w] = "integrated"

(* Variant: a dependency counts once its worker has succeeded. *)
CandidatesUnmerged ==
    { w \in Work : /\ LatestState(w) \notin Active \cup {"succeeded"}
                   /\ \A d \in Deps[w] : LatestState(d) = "succeeded"
                   /\ Launched(w) < MaxAttempts }

Candidates ==
    { w \in Work : /\ LatestState(w) \notin Active \cup {"succeeded"}
                   /\ \A d \in Deps[w] : Released(d)
                   /\ Launched(w) < MaxAttempts }

Dispatchable ==
    { w \in Candidates :
        Cardinality({ v \in Candidates : Rank[v] < Rank[w] })
            < MaxActive - Cardinality(ActiveRuns) }

(* reserve_codex_run; what _reserve_run read before is checked again here. *)
Reserve(w) ==
    LET r == <<w, Launched(w) + 1>> IN
    /\ session.state \in Open
    /\ w \in Dispatchable
    /\ Cardinality({ q \in Runs : row[q].state # "none" }) < MaxLaunches
    /\ Cardinality({ q \in ActiveRuns : q[1] = w }) < MaxPerWork
    /\ session' = [session EXCEPT !.state = "running"]
    /\ row' = [row EXCEPT ![r] = [ state |-> "reserved", graph |-> session.graph,
                                   lease |-> LeaseTicks, pid |-> FALSE ]]
    /\ proc' = [proc EXCEPT ![r].pc = "setup"]
    /\ UNCHANGED <<entry, verify, rescuer, canceller, pauser, paused>>

-----------------------------------------------------------------------------
(* The runner of a run.                                                    *)

(* Every write stamps the row with the present time, so a recovery that    *)
(* read the row before notices.                                            *)
Touched(r) == [rescuer EXCEPT !.current = @ /\ rescuer.run # r]

(* update_codex_run: the whole row, whatever it holds by now. *)
Write(r, state, pid, left) ==
    /\ row' = [row EXCEPT ![r] = [@ EXCEPT !.state = state, !.pid = pid, !.lease = left]]
    /\ rescuer' = Touched(r)

(* The lease and the process of a finished run are not looked at again. *)
WriteFinal(r, state) == Write(r, state, FALSE, 0)

RunnerGoes(r, from, p) ==
    /\ proc[r].pc = from
    /\ proc' = [proc EXCEPT ![r] = p]
    /\ UNCHANGED <<session, entry, verify, canceller, pauser, paused>>

Done == [NoProc EXCEPT !.pc = "done"]

(* Connector set-up fails. *)
FailSpawn(r) == RunnerGoes(r, "setup", Done) /\ WriteFinal(r, "spawn_failed")

Spawn(r) ==
    /\ proc[r].pc = "setup"
    /\ proc' = [proc EXCEPT ![r] = [@ EXCEPT !.pc = "spawned", !.agent = "live"]]
    /\ UNCHANGED <<session, row, entry, verify, rescuer, canceller, pauser, paused>>

RecordRunning(r) ==
    /\ RunnerGoes(r, "spawned", [proc[r] EXCEPT !.pc = "watch"])
    /\ Write(r, "running", TRUE, LeaseTicks)

(* A heartbeat reads the row and writes it in a second transaction. *)
ReadForBeat(r) ==
    /\ proc[r].pc = "watch"
    /\ proc' = [proc EXCEPT ![r] = [@ EXCEPT !.pc = "beat", !.saw = row[r].state = "cancelling"]]
    /\ UNCHANGED <<session, row, entry, verify, rescuer, canceller, pauser, paused>>

Beat(r) ==
    /\ RunnerGoes(r, "beat", [proc[r] EXCEPT !.pc = "watch", !.saw = FALSE])
    /\ Write(r, IF proc[r].saw THEN "cancelling" ELSE "running", TRUE, LeaseTicks)

(* The agent ends by itself, or because it was signalled; the system reaps *)
(* an agent without a runner.                                              *)
Ended(r, code) == IF proc[r].pc = "dead" THEN "none" ELSE code

AgentExits(r, code) ==
    /\ proc[r].agent = "live"
    /\ proc' = [proc EXCEPT ![r].agent = Ended(r, code)]
    /\ UNCHANGED <<session, row, entry, verify, rescuer, canceller, pauser, paused>>

(* The runner ends a live agent and waits for it. *)
Stopped(p, final) ==
    IF p.agent = "live" THEN [p EXCEPT !.agent = "bad", !.reaped = TRUE, !.final = final]
                        ELSE [p EXCEPT !.final = final]

(* Wall time or tokens are used up (token_budget_exceeded is alike). *)
StopAgent(r) ==
    /\ proc[r].pc = "watch" /\ proc[r].final # "timed_out"
    /\ proc' = [proc EXCEPT ![r] = Stopped(@, "timed_out")]
    /\ UNCHANGED <<session, row, entry, verify, rescuer, canceller, pauser, paused>>

(* The watch loop sees the cancellation; polling reaps an agent that ended. *)
NoticeCancel(r) ==
    LET p == proc[r] IN
    /\ p.pc = "watch" /\ row[r].state = "cancelling" /\ ~p.reaped
    /\ proc' = [proc EXCEPT ![r] =
                  IF p.agent = "live" THEN Stopped(p, "cancelled") ELSE [p EXCEPT !.reaped = TRUE]]
    /\ UNCHANGED <<session, row, entry, verify, rescuer, canceller, pauser, paused>>

(* The output is drained: the final state is decided, then written. *)
DecideFinal(r) ==
    LET p == proc[r] IN
    /\ p.pc = "watch" /\ p.agent \in Exited
    /\ proc' = [proc EXCEPT ![r] = [p EXCEPT !.pc = "ended", !.reaped = TRUE, !.final =
                  IF p.final # "none" THEN p.final
                  ELSE IF row[r].state = "cancelling" THEN "cancelled"
                  ELSE IF p.agent = "ok" THEN "succeeded" ELSE "failed"]]
    /\ UNCHANGED <<session, row, entry, verify, rescuer, canceller, pauser, paused>>

(* KeyboardInterrupt, or an OSError of the spawn or of the watch. *)
AbortRun(r, final) ==
    /\ proc[r].pc \in {"setup", "spawned"} \cup Watching
    /\ proc' = [proc EXCEPT ![r] = [Stopped(@, final) EXCEPT !.pc = "ended", !.reaped = TRUE]]
    /\ UNCHANGED <<session, row, entry, verify, rescuer, canceller, pauser, paused>>

RecordFinal(r) == RunnerGoes(r, "ended", Done) /\ WriteFinal(r, proc[r].final)

(* The runner process dies; its agent goes on. *)
RunnerCrash(r) ==
    /\ proc[r].pc \in RunnerUp
    /\ proc' = [proc EXCEPT ![r] = [NoProc EXCEPT !.pc = "dead", !.agent =
                                       IF proc[r].agent = "live" THEN "live" ELSE "none"]]
    /\ UNCHANGED <<session, row, entry, verify, rescuer, canceller, pauser, paused>>

RunnerStep(r) ==
    \/ \E final \in {"cancelled", "spawn_failed"} : AbortRun(r, final)
    \/ FailSpawn(r) \/ Spawn(r) \/ RecordRunning(r) \/ ReadForBeat(r) \/ Beat(r)
    \/ StopAgent(r) \/ NoticeCancel(r) \/ DecideFinal(r) \/ RecordFinal(r)

-----------------------------------------------------------------------------
(* Cancellation.                                                           *)

(* cancel_codex_run: reads the row, then writes it back as cancelling.     *)
ReadForCancel(r) ==
    /\ canceller = NoCancel
    /\ row[r].state \in Active
    /\ canceller' = [run |-> r, pid |-> row[r].pid, lease |-> row[r].lease]
    /\ UNCHANGED <<session, row, proc, entry, verify, rescuer, pauser, paused>>

CancelRun ==
    /\ canceller # NoCancel
    /\ Write(canceller.run, "cancelling", canceller.pid, canceller.lease)
    /\ canceller' = NoCancel
    /\ UNCHANGED <<session, proc, entry, verify, pauser, paused>>

(* request_session_cancellation *)
CancelSession ==
    /\ session.state # "completed"
    /\ session' = [session EXCEPT !.state = "cancelled"]
    /\ row' = [r \in Runs |-> IF r \in ActiveRuns THEN [row[r] EXCEPT !.state = "cancelling"]
                                                  ELSE row[r]]
    /\ rescuer' = [rescuer EXCEPT !.current = @ /\ rescuer.run \notin ActiveRuns]
    /\ UNCHANGED <<proc, entry, verify, canceller, pauser, paused>>

-----------------------------------------------------------------------------
(* pause_swarm_session: lists the runs, reads the session, changes it and  *)
(* records the event in four transactions; resume_swarm_session.           *)

PauseSession ==
    \/ /\ pauser = "idle" /\ ActiveRuns = {}
       /\ pauser' = "listed"
       /\ UNCHANGED <<session, paused>>
    \/ /\ pauser = "listed"
       /\ pauser' = IF session.state \in Open THEN session.state ELSE "idle"
       /\ UNCHANGED <<session, paused>>
    \/ /\ pauser \in Open
       /\ IF session.state \in Open
          THEN /\ session' = [session EXCEPT !.state = "paused"]
               /\ pauser' = IF pauser = "planned" THEN "wrote_planned" ELSE "wrote_running"
          ELSE pauser' = "idle" /\ UNCHANGED session
       /\ UNCHANGED paused
    \/ /\ pauser \in {"wrote_planned", "wrote_running"}
       /\ paused' = IF pauser = "wrote_planned" THEN "planned" ELSE "running"
       /\ pauser' = "idle"
       /\ UNCHANGED session

PauseCrash == pauser # "idle" /\ pauser' = "idle" /\ UNCHANGED <<session, paused>>

ResumeSession ==
    /\ session.state = "paused"
    /\ session' = [session EXCEPT !.state = paused]
    /\ UNCHANGED <<row, proc, entry, verify, rescuer, canceller, pauser, paused>>

(* replace_graph: only before execution; the merge queue goes with the graph. *)
ReplaceGraph ==
    /\ session.state = "planned" /\ session.graph < MaxGraph
    /\ session' = [session EXCEPT !.graph = @ + 1]
    /\ entry' = [w \in Work |-> "open"]
    /\ UNCHANGED <<row, proc, verify, rescuer, canceller, pauser, paused>>

-----------------------------------------------------------------------------
(* recover_swarm_session, with terminate_stale.                            *)

(* _process_alive: an agent that ended is a zombie until its runner reaps it. *)
ProcessAlive(r) ==
    /\ row[r].pid
    /\ proc[r].agent = "live" \/ (proc[r].agent \in Exited /\ ~proc[r].reaped)

(* Variant: a reservation waits for its runner. *)
HealthPatient(r) ==
    IF row[r].state = "reserved" THEN "reserved"
    ELSE IF ~ProcessAlive(r) THEN "lost"
    ELSE IF row[r].lease = 0 THEN "stale" ELSE "healthy"

(* _inspect_run *)
Health(r) ==
    IF row[r].state = "reserved"
    THEN IF row[r].lease = 0 THEN "lost" ELSE "reserved"
    ELSE IF ~ProcessAlive(r) THEN "lost"
    ELSE IF row[r].lease = 0 THEN "stale" ELSE "healthy"

Unhealthy == { r \in ActiveRuns : Health(r) \in {"lost", "stale"} }

InspectRun(r) ==
    /\ rescuer = NoRescue
    /\ r \in Unhealthy
    /\ rescuer' = [NoRescue EXCEPT !.phase = "inspected", !.run = r, !.health = Health(r)]
    /\ UNCHANGED <<session, row, proc, entry, verify, canceller, pauser, paused>>

InspectNothing ==
    /\ rescuer = NoRescue
    /\ Unhealthy = {}
    /\ rescuer' = [NoRescue EXCEPT !.phase = "done"]
    /\ UNCHANGED <<session, row, proc, entry, verify, canceller, pauser, paused>>

(* The rows are read again, the target is chosen; a stale agent is killed, *)
(* if the row names its process.                                           *)
ReadForRecovery ==
    LET r == rescuer.run IN
    /\ rescuer.phase = "inspected"
    /\ rescuer' = [rescuer EXCEPT !.phase = "read", !.current = TRUE, !.target =
                     IF session.state = "cancelled" \/ row[r].state = "cancelling"
                     THEN "cancelled" ELSE "lost"]
    /\ proc' = IF rescuer.health = "stale" /\ row[r].pid /\ proc[r].agent = "live"
               THEN [proc EXCEPT ![r].agent = Ended(r, "bad")] ELSE proc
    /\ UNCHANGED <<session, row, entry, verify, canceller, pauser, paused>>

(* A killed agent that its runner does not reap is not confirmed dead. *)
Unconfirmed == rescuer.health = "stale" /\ ProcessAlive(rescuer.run)

GiveUp ==
    /\ rescuer.phase = "read" /\ Unconfirmed
    /\ rescuer' = [NoRescue EXCEPT !.phase = "done"]
    /\ UNCHANGED <<session, row, proc, entry, verify, canceller, pauser, paused>>

(* Variant: the terminal state of the row is not looked at. *)
RecoverRunBlind ==
    LET r == rescuer.run IN
    /\ rescuer.phase = "read" /\ ~Unconfirmed
    /\ row' = IF rescuer.current
              THEN [row EXCEPT ![r] = [@ EXCEPT !.state = rescuer.target, !.pid = FALSE, !.lease = 0]]
              ELSE row
    /\ rescuer' = [NoRescue EXCEPT !.phase = "done"]
    /\ UNCHANGED <<session, proc, entry, verify, canceller, pauser, paused>>

(* Variant: the verdict of the inspection is saved as the row's state. *)
RecoverRunHealth ==
    LET r == rescuer.run IN
    /\ rescuer.phase = "read" /\ ~Unconfirmed
    /\ row' = IF row[r].state \in Active /\ rescuer.current
              THEN [row EXCEPT ![r] = [@ EXCEPT !.state = rescuer.health, !.pid = FALSE, !.lease = 0]]
              ELSE row
    /\ rescuer' = [NoRescue EXCEPT !.phase = "done"]
    /\ UNCHANGED <<session, proc, entry, verify, canceller, pauser, paused>>

(* recover_codex_run: nothing is done to a finished run or to a row that   *)
(* was written since it was read.                                          *)
RecoverRun ==
    LET r == rescuer.run IN
    /\ rescuer.phase = "read" /\ ~Unconfirmed
    /\ row' = IF row[r].state \in Active /\ rescuer.current
              THEN [row EXCEPT ![r] = [@ EXCEPT !.state = rescuer.target, !.pid = FALSE, !.lease = 0]]
              ELSE row
    /\ rescuer' = [NoRescue EXCEPT !.phase = "done"]
    /\ UNCHANGED <<session, proc, entry, verify, canceller, pauser, paused>>

(* An interrupted verification goes back to running. *)
ReopenVerification ==
    /\ rescuer.phase = "done"
    /\ session' = IF session.state = "verifying" /\ ~verify.report
                  THEN [session EXCEPT !.state = "running"] ELSE session
    /\ rescuer' = NoRescue
    /\ UNCHANGED <<row, proc, entry, verify, canceller, pauser, paused>>

RecoveryStep ==
    \/ \E r \in Runs : InspectRun(r)
    \/ InspectNothing \/ ReadForRecovery \/ GiveUp \/ RecoverRun \/ ReopenVerification

-----------------------------------------------------------------------------
(* The merge queue and the verification.                                   *)

Ready(w) ==
    /\ entry[w] = "open" /\ LatestState(w) = "succeeded"
    /\ \A d \in Deps[w] : entry[d] = "integrated"

(* claim_merge_entry of the first ready entry, with the plan it rests on. *)
ClaimEntry(w) ==
    /\ Ready(w)
    /\ \A v \in Work : Ready(v) => Rank[w] <= Rank[v]
    /\ entry' = [entry EXCEPT ![w] = "integrating"]
    /\ UNCHANGED <<session, row, proc, verify, rescuer, canceller, pauser, paused>>

FinishEntry(w, result) ==
    /\ entry[w] = "integrating"
    /\ entry' = [entry EXCEPT ![w] = result]
    /\ UNCHANGED <<session, row, proc, verify, rescuer, canceller, pauser, paused>>

QueueCompleted == \A w \in Work : entry[w] = "integrated"

(* begin_verification *)
BeginVerification ==
    /\ session.state # "cancelled"
    /\ QueueCompleted
    /\ ActiveRuns = {}
    /\ session' = [session EXCEPT !.state = "verifying"]
    /\ verify' = [verify EXCEPT !.graph = session.graph]
    /\ UNCHANGED <<row, proc, entry, rescuer, canceller, pauser, paused>>

(* Variant: graph and queue are not compared with the ones verified. *)
SaveVerificationUnbound(verified) ==
    /\ verify.graph # 0
    /\ session' = [session EXCEPT !.state = IF verified THEN "completed" ELSE "failed"]
    /\ verify' = [graph |-> 0, report |-> TRUE]
    /\ UNCHANGED <<row, proc, entry, rescuer, canceller, pauser, paused>>

(* save_verification: bound to the graph and queue verified, not to the state. *)
SaveVerification(verified) ==
    /\ verify.graph = session.graph
    /\ QueueCompleted
    /\ session' = [session EXCEPT !.state = IF verified THEN "completed" ELSE "failed"]
    /\ verify' = [graph |-> 0, report |-> TRUE]
    /\ UNCHANGED <<row, proc, entry, rescuer, canceller, pauser, paused>>

VerifierCrash ==
    /\ verify.graph # 0
    /\ verify' = [verify EXCEPT !.graph = 0]
    /\ UNCHANGED <<session, row, proc, entry, rescuer, canceller, pauser, paused>>

-----------------------------------------------------------------------------
Countdown(n) == IF n > 0 THEN n - 1 ELSE 0

SwarmTick ==
    /\ row' = [r \in Runs |-> [row[r] EXCEPT !.lease = Countdown(@)]]
    /\ canceller' = [canceller EXCEPT !.lease = Countdown(@)]
    /\ UNCHANGED <<session, proc, entry, verify, rescuer, pauser, paused>>

SwarmNext ==
    \/ \E w \in Work :
         \/ Reserve(w) \/ ClaimEntry(w)
         \/ \E result \in {"integrated", "conflict"} : FinishEntry(w, result)
    \/ \E r \in Runs :
         \/ RunnerStep(r) \/ RunnerCrash(r) \/ ReadForCancel(r)
         \/ \E code \in Exited : AgentExits(r, code)
    \/ CancelRun \/ CancelSession
    \/ (PauseSession \/ PauseCrash) /\ UNCHANGED <<row, proc, entry, verify, rescuer, canceller>>
    \/ ResumeSession \/ ReplaceGraph
    \/ RecoveryStep
    \/ BeginVerification \/ VerifierCrash
    \/ \E verified \in BOOLEAN : SaveVerification(verified)
    \/ SwarmTick

SwarmSpec == SwarmInit /\ [][SwarmNext]_swarmVars

(* Time passes and an operator runs the recovery again and again.  Strong  *)
(* fairness: other writers do not for ever hit the moment between the read *)
(* of a row and its recovery, nor is one run for ever passed over.         *)
RecoverRead(r) == rescuer.run = r /\ rescuer.current /\ RecoverRun

SwarmLiveSpec ==
    /\ SwarmSpec
    /\ WF_swarmVars(SwarmTick)
    /\ WF_swarmVars(InspectNothing) /\ WF_swarmVars(ReadForRecovery)
    /\ WF_swarmVars(GiveUp) /\ WF_swarmVars(RecoverRun) /\ WF_swarmVars(ReopenVerification)
    /\ \A r \in Runs : SF_swarmVars(InspectRun(r)) /\ SF_swarmVars(RecoverRead(r))

-----------------------------------------------------------------------------
(* A worker of the present graph was started only on prerequisites that    *)
(* are integrated, whatever was paused, replanned, cancelled, recovered or *)
(* launched again in the meantime.                                         *)
StartedAfterPrerequisites ==
    \A r \in Runs :
        row[r].state # "none" /\ row[r].graph = session.graph
            => \A d \in Deps[r[1]] : entry[d] = "integrated"

(* A session is completed only with every work item of its present graph   *)
(* integrated, although a verification may be overtaken by a recovery that *)
(* reopens the session, by a pause and by a new graph.                     *)
CompletedIntegrated == session.state = "completed" => QueueCompleted

(* A success is not taken back: a recovery that judged the run lost, and   *)
(* the heartbeats and final writes of the runner, leave a succeeded row    *)
(* alone.  Only a cancellation that read the row before may overwrite it.  *)
SuccessStands ==
    [][\A r \in Runs :
         row[r].state = "succeeded" /\ row'[r].state # "succeeded" => canceller.run = r]_swarmVars

(* The slot of a worker whose runner died is freed: its row becomes        *)
(* terminal, whichever step the runner died at and whether or not its      *)
(* agent still lives.                                                      *)
SlotsFreed ==
    \A r \in Runs : (proc[r].pc = "dead") ~> (row[r].state \in Terminal)

(* A run recorded as lost has no agent process left in its worktree        *)
(* ("lost: a reservation expired before spawn or the active agent process  *)
(* no longer exists").                                                     *)
LostMeansGone ==
    \A r \in Runs : row[r].state = "lost" => proc[r].agent # "live"
=============================================================================
