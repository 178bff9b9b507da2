# A verification project for Claim Plane

Claim Plane coordinates several coding agents on one repository. Each agent
declares a *change intent* (what it will write and read, on which base commit),
an evaluator decides whether the intent may run beside the ones already running,
and brokers let the agent's tools touch a worktree only inside that authority.
Swarm sessions run a graph of work items under it and merge the results; a
connector binds Codex sessions to intents; a controlled run drives one Codex
process through an adapter that records what happened.
This directory holds TLA+ models of that core, translated from the source, TLC
runs on small instances, and proofs checked by TLAPS.

Paths below are relative to `src/claim_plane/` unless they start with `docs/`.

## 1. Inventory

### Parts, state, operations, interactions

| Part | State | Operations | Talks to | Model |
|---|---|---|---|---|
| Admission evaluator (`coordination/admission.py`, resource helpers of `core/models.py`) | none | `evaluate`, premise detection, scope promotion | called inside registry transactions | `Admission` |
| Intent registry (`core/registry.py`) | SQLite tables `intents`, `intent_dependencies`, `runtime_fences`, `runtime_recoveries` | admit, amend, promote, activate, complete, release, heartbeat, pause, invalidate, refresh, resume, expire | any number of processes, one `BEGIN IMMEDIATE` transaction per call | `IntentRegistry`, abstractly `IntentLifecycle` |
| Broker registry (`core/registry.py`) | `broker_instances`, `broker_writer_leases`, `broker_fencing_counters`, `broker_operations` | register, validate, prepare, commit, fail, stop; fencing inside intent transactions | the same transactions as the intent tables | `BrokerRegistry` |
| Broker runtime (`runtime/broker.py`) | one request in flight, backup, worktree | start-up, mutation request, rollback, close, crash | broker registry, worktree lock | `BrokerRuntime` |
| Worktree lock (`runtime/worktree_lock.py`) | `flock` of a worktree | acquire, release, lost at process death | broker runtime | `BrokerRuntime` |
| Swarm session store and scheduler (`swarm/store.py`, `scheduler.py`) | session state and graph version, run rows, merge entries, verification report | replace the graph, reserve a run, write a run, cancel, claim and finish a merge entry, begin and save a verification | one SQLite transaction per call, any number of processes | `SwarmRuns` |
| Swarm worker (`swarm/codex_runner.py`) | a runner process and its agent process | set up, spawn, record, heartbeat, stop, final write | writes whole run rows into the store | `SwarmRuns` |
| Swarm recovery and operator (`swarm/recovery.py`) | recovery events, otherwise the store | inspect, recover, pause, resume, cancel | reads in one transaction, writes in another, kills stale agents | `SwarmRuns` |
| Swarm merge queue (`swarm/merge_queue.py`, `merge_service.py`, `rescue.py`, `verification.py`) | stored queue, integration branch and worktree, worker worktrees, rescue events | plan, claim, snapshot, apply, commit, finish, rescue, rerun, verify | swarm store in one transaction per step, git between them | `MergeQueue`; its effect on the session in `SwarmRuns` |
| Codex connector (`connectors/codex*.py`) | one JSON file per session, amendment tickets | admit, guard, promote, amend, verify, abandon, resume | intent registry; hooks and commands are processes of their own | `CodexSessions` |
| Lifecycle protocol (`protocol/lifecycle.py`) | append-only event stream of a session | draft a batch, append it, report | the adapter | `LifecycleEvents` |
| Adapter and controlled run (`connectors/codex_adapter.py`, `controlled_run.py`) | request cache, the launcher, its outcome | perform a request, replay it, verify, time out, interrupt, cancel, seal | connector, event stream, the Codex process | `ControlledRuns` |
| Claim grants, observation sessions (`core/registry.py`) | `claims`, `grants`; hash-chained events | arbitrate, renew, release; append, seal, verify | legacy front ends; brokers and the verifier | not modelled |
| Verifiers, semantic analysis, swarm shared admission, routing, project store, reports, CLI, console, MCP | files or none | stateless analysis or front ends | one call is one operation of a part above | not modelled |

`PROJECT.json` lists every part with its status and the reason where a part, or a
piece of one, is left out.

### What is hard here

* **Many processes over one database.** A decision is taken on what the
  transaction sees; what a caller read before its transaction may be gone.
  A broker request is validated, promoted, prepared, carried out and committed in
  separate transactions, so an amendment, a fence or an expiry fits between any two.
* **Leases.** Expiry is lazy: a sweep at the start of some transactions, not of
  all of them, and the clock is read more than once in a transaction.
* **Premises.** An admitted intent becomes the premise of intents that are already
  there; a change must reach every transitive dependent and only through
  recorded edges. The walk must terminate, so the edges must stay acyclic.
* **Recovery.** Stale work must not run again before it was refreshed on a new base
  and resumed, although amendment, heartbeat and activation remain available.
* **Crash between a file write and its database commit**, and rollback when the
  commit is refused.
* **Fencing tokens**, writer leases and the operating system's lock must agree on
  who the writer of a worktree is.
* **Rows written blindly.** A runner writes its whole row, whatever the row holds
  by then; recovery and session cancellation are transactions that look. A runner
  may die at any step and leave its agent alive; a recovery may judge a runner
  that is merely slow.
* **A session steered from outside**: pause, resume, replanning, cancellation,
  recovery and a long verification overlap, each in several transactions.
* **Git and the store are not one transaction.** A merge entry is reserved in the
  store, carried out on a branch all integrators share, and finished in the store;
  conflicts reset the branch, rescues reset workers and rerun their items.
* **A file without a lock.** Every hook and command of a Codex session loads the
  session file, makes several registry transactions and writes its copy back, while
  leases run out and the operator abandons or resumes the session.
* **Requests made again.** An adapter request acts, is recorded and is cached in
  three steps; it may be duplicated, lost or repeated at each, and the launcher may
  time out or be interrupted while hooks of the agent are still at work.

What makes each part correct: the evaluator never lets two writers of one line
pass, records every premise it relies on, and gives the same answer whichever
intent arrives first; the registry keeps live writers apart, premises acyclic,
staleness complete, and lost authority lost; the brokers write only under
current authority and leave no trace of a refused write; the swarm starts work
only on integrated prerequisites, completes only what is integrated, never takes a
success back and frees the slot of a dead worker; what the merge queue calls
integrated is on the branch, once, after its dependencies; a Codex session has one
intent with authority, and says "verified" or "abandoned" only when the registry
agrees; a run's outcome, its event stream and its cached answers say what
happened to the intent.

## 2. Modules

```
Admission <- IntentRegistry <- BrokerRegistry <- BrokerRuntime <- RuntimeHistory <- MCBroker
                  |    \-- ArbitrationHistory <------------------------/
                  |                 \------------------------- MCRegistry, MCPair
                  | implements
             IntentLifecycle <- CodexSessions                       <- MCCodex
Admission <- AdmissionPairs                                         <- MCAdmission
             LifecycleEvents <- ControlledRuns                      <- MCRuns
             SwarmRuns <- MCSwarm            MergeQueue             <- MCMerge
```

(`A <- B`: B extends A.)

* **`Admission`** - pure operators. An intent content is a record of operations
  (kind, identifier, region, signature, subject, access mode, committed or
  contingent, ambiguous), a base, declared dependencies, and the amendment
  mark. `Blocked(p, q)` is `AdmissionEngine.evaluate` against one existing
  intent; `IncomingPremises` and `ExistingPremises` are the dependencies it
  reports; `PromotionSelected` and `PromotedOps` are the scope promotion of
  `core/registry.py`; `ChangedKeys` is the resource difference an amendment
  invalidates by. Identifiers are `<<directory, name>>`, where the name may be
  `*`: one level of directories is enough to tell equal, covering and disjoint
  patterns apart. `base_revision` and `base_commit` are one base.
* **`AdmissionPairs`** - the evaluator at work on one pair of contents (`Evaluate`) or
  one promotion (`Promote`), for any universe of contents, requests, files and lines,
  and the properties that compare its answers with the reference notions at the end
  of `Admission` (what an operation reaches, who may write a line).
* **`IntentRegistry`** - the intent tables. One action per public operation;
  an operation that raises is rolled back and is no step; an operation that is
  *rejected* keeps the sweep it began with (`SweepOnly`), as the code commits
  it. A lease is the number of ticks left, so a clock step is `Tick`. `TxnTicks`
  is how far the clock may move between the sweep of a transaction and the query
  that selects the intents taking part in arbitration. `Invalidate` is the
  breadth-first walk; which of several producers of one depth is recorded as
  the cause depends on row order and is chosen freely.
* **`ArbitrationHistory`** - EXTENDS `IntentRegistry` with a history variable and the
  properties that depend on what an arbitration sees. `overlooked` are the intents whose
  lease ended inside a transaction that let another content in: they were live, were
  not swept, and were not compared. An intent leaves the set when it passes an
  arbitration itself. The variable never guards a step, so `HistSpec` has the
  behaviours of `Spec`.
* **`IntentLifecycle`** - what the registry promises about one intent, without
  arbitration, leases, premises and fences: the states it passes through, and a
  content that changes only together with its version. Every operation that
  arbitrates first expires a set `E` of intents; which one is left open.
  `IntentRegistry` implements it under `state <- st, content <- pl, version <- cv`
  (`ImplementsLifecycle`), and the Codex connector is modelled over it.
* **`BrokerRegistry`** - EXTENDS `IntentRegistry` with the broker tables. Every
  intent operation is joined with `FenceBrokers`, because the transaction that
  makes an intent stale fences its brokers.
* **`BrokerRuntime`** - EXTENDS `BrokerRegistry` with the processes: a broker
  holds the worktree lock, and a request passes the phases *validated*,
  *promoted*, *scoped*, *prepared*, *mutated*, *restored*, with a crash possible
  at each. The worktree is its HEAD and the content of one file. `Close` may come
  at any phase: it takes no request lock, and the request goes on without the
  worktree lock.
* **`RuntimeHistory`** - EXTENDS it and `ArbitrationHistory`. `disturbed` are the holders of a
  worktree beside whom another broker's request ran; again it guards nothing.
* **`SwarmRuns`** - one swarm session, independent of the other modules. `row` is the
  table of runs, `proc` the runner (*setup*, *spawned*, *watch*, *beat*, *ended*,
  *done*, *dead*) and its agent. A heartbeat, a cancellation of a run, a recovery
  and a pause are each cut where the code ends a transaction (`ReadForBeat` and
  `Beat`; `ReadForCancel` and `CancelRun`; `InspectRun`, `ReadForRecovery`,
  `RecoverRun`; the four alternatives of `PauseSession`). `updated_at`, which
  recovery compares, is the flag `rescuer.current`, reset by every other write of
  the row. A killed agent is a zombie until its runner reaps it, as
  `_process_alive` sees it. Merge entries are *open* (pending, blocked or ready:
  recomputed by each planning), *integrating*, *integrated* or *conflict*.
* **`MergeQueue`** - the queue of one session and the branch it speaks about. A
  commit is the run whose change it carries; a branch is the sequence of them above
  the session's base; the worktree also has what is staged. An integrator goes
  through `ReadStore`, `ReadIntegrationHead`, `SaveMergeQueue` (plan), `ClaimMergeEntry`,
  `EnsureIntegrationWorktree`, `SnapshotWorker`, `ApplySnapshot`, `CommitApplied` and
  `FinishMergeEntry`, one step per transaction or git command that others can see;
  `IntegrationError` is the exception handler, and `ProcCrash` fits between any two.
  A rescuer decides, checks its decision against the queue, resets the worker and
  reopens the entry; the verifier checks the queue, begins and saves a report. The
  verdicts of the checks on a staged change (authority, paths, semantic, premise)
  are left open, within what git guarantees.
* **`CodexSessions`** - the sessions of one worktree. `file` is the JSON file of a
  session, `call` what each hook or command is doing: its next step and its copy of
  the file. Each registry transaction is one step, an operation of `IntentLifecycle`;
  `Write` puts the whole copy back, whatever the file holds by then; `Die` ends any
  call between two steps. An intent is `<<session, n>>`, where `n` counts the
  successors a session has had. The content of an intent is the scope beyond its
  first proposal.
* **`LifecycleEvents`** - the event stream: which event may follow which
  (`AllowedPrevious`), the events of one request (`Batch`), their identities, and the
  append transaction with its three cases: the batch is new and valid, is there
  already, or conflicts. `ReportsVerified` is the report's verdict.
* **`ControlledRuns`** - EXTENDS it with the adapter (`Begin`, `Act`, `ActRaises`,
  `Respond`, `Record`, `Store`: consult the cache, act, read the binding again, record,
  cache), called by the agent's hooks and by the launcher, and with the launcher itself:
  `Exit`, the final verification, `TimeOut`, `Interrupt`, `Revoke`. `auth` is the
  session and its intent, one step per operation, except that an admission takes
  three, as in `admit_codex_intent`: `Admit` (`plane.admit`), `Activate`
  (`plane.activate`) and `Bind` (`_write_session`). In between the registry has an
  intent the session does not name, `auth.spare`; a hook that dies there, or is killed
  with the agent, leaves it so, and a repeated request finds it again (its
  identity is the session's). `run.interactive` tells
  `run_interactive_codex` from `run_controlled_task`.
* **`MCAdmission`, `MCRegistry`, `MCPair`, `MCBroker`, `MCSwarm`, `MCMerge`, `MCCodex`,
  `MCRuns`** - instances for TLC.
* **`AdmissionProofs`, `AdmissionPairsProofs`, `IntentRegistryProofs`, `BrokerProofs`, `SwarmRunsProofs`,
  `CodexSessionsProofs`, `ControlledRunsProofs`, `MergeQueueProofs`** - theorems.

Definitions named as a variant (`ActiveIntentsStarted`, `StaledDirect`,
`FenceBrokersLeased`, `Settled`, `TerminatedAlone`, ...) are the plausible mistakes
against which each property is known to be sensitive. No specification uses them.

### Assumptions of the models

* A caller does not forge the internal `_amendment` mark, and an intent does not
  list itself as a dependency (both refused by the model classes):
  `PayloadAssumption`.
* In `AdmissionPairs` a promotion is asked for one exact path and for modes that change
  it, as the broker asks after observing a mutation (`UniverseAssumption`).
* Promotion requests name known identifiers and access modes (`RequestAssumption`),
  lines are numbers (`LinesAssumption`), leases last at least one tick and the
  intents are finitely many (`RegistryAssumption`).
* HMAC attestations verify; every broker instance has an observation session of
  its own; an instance identifier registers once (primary key).
* `ResetWorktree` is the operator's checkout of a clean worktree no broker holds:
  the only way to start a broker again after a crash left the file changed, since
  start-up demands a clean tree.
* In `SwarmRuns` the merge queue of a session is planned before its work is
  dispatched, as `swarm start` does, and a planning is one step. Without a queue the
  scheduler releases a dependent on the mere success of its prerequisite, by design
  (`dependency_release`), and `StartedAfterPrerequisites` would not be the right
  statement.
* Every write of a run row carries a new time, so two writes are told apart by
  `updated_at`. Effective dependencies and ranks are the same for every graph.
* Tokens, cost and wall time may run out at any moment (`StopAgent`), and recovery
  is always the one that terminates stale agents.
* In `MergeQueue` graph, budget and shared admission do not change while the queue is
  worked on; a run is launched and ends in one step each; nothing but the modelled
  processes touches the managed worktrees.
* `CodexSessions` begins with bootstrapped sessions. The Git checks of a resumption
  (HEAD and branch unchanged) may pass or fail, the evidence of a verification may be
  clean or not, heartbeats only postpone an expiry. The two loads of the Stop hook are
  one, and `"open"` stands for the task states no guard reads.
* In `ControlledRuns` every request carries an identity, `version` stands for the pair of
  intent and content version, Codex waits for its hooks before it exits by itself,
  a completed intent is not fenced afterwards, and the launcher does not die.

## 3. Runs

| Run | Instance | Shows |
|---|---|---|
| `admission` (`MCAdmission.cfg`) | every pair of contents of at most one or two operations over a small universe | two writers of one line block each other (`WritersSeparated`), a reader beside a writer is either blocked or recorded as a dependent (`ReadersTracked`), the decision does not depend on arrival order (`OrderIndependent`), an admitted consumer agrees with the producer's signature (`ContractsAgree`), a promotion stays inside the declared contingent scope (`PromotionStaysDeclared`) |
| `registry_premises` (`MCRegistry.cfg`) | three intents in a premise chain, two contents each, no clock | `TypeOK`, `PremisesRecorded`, `PremisesAcyclic`, `RecoveryBarrier`, `AuthorityNotRevived`, `StalenessPropagates`, `ContractChangeStales`, `ChangedPremiseStales`, and the refinement `ImplementsLifecycle` |
| `registry_leases` (`MCLease.cfg`) | two rival writers, leases of two ticks, a clock that may advance inside a transaction | `LiveWritersSeparated`: with expiry inside arbitration two rivals are live together only if one was overlooked; and the liveness property `BlockedUntilLapse` |
| `broker` (`MCBroker.cfg`) | one worktree, two broker instances of one worker, a producer whose contract may break; crashes and shutdown at every step | `WriterAuthority`, `TreeProvenance`, `CommittedUnderAuthority` |
| `swarm` (`MCSwarm.cfg`) | two work items, one the prerequisite of the other, two workers, one restart, two graphs; every runner may die at every step | `SwarmTypeOK`, `StartedAfterPrerequisites`, `CompletedIntegrated`, the action property `SuccessStands` |
| `swarm_recovery` (`MCSwarmRecovery.cfg`) | one work item, recovery run again and again | the liveness property `SlotsFreed` |
| `merge` (`MCMerge.cfg`) | a work item, one that depends on it and an independent one; one integrator, one rescuer, a verifier; two runs per item, two repairs | an integrated change is on the branch (`IntegratedOnBranch`), once per item (`OneRunPerWork`), after its dependencies (`DependenciesFirst`); a report "verified" covers every item (`VerifiedComposed`); repairs are bounded (`RepairsBounded`); a published run is never superseded (`SupersededUnpublished`) |
| `codex` (`MCCodex.cfg`) | one session with its agent and its operator calling at once, a rival session, one successor, one extension of the scope | `CodexTypeOK`, `OneIntentPerSession`, `VerifiedIsCompleted`, `AbandonedHasNoAuthority`, `ContractInherited` |
| `controlled_run` (`MCRuns.cfg`) | one run, headless or interactive, seven agent requests, two of them at once | `OneOutcomePerRequest`, `CachedIsRecorded`, `VerifiedReportIsCompleted`, `VerifiedRunIsCompleted`, `CancelRevokes` |
| `swarm_lost`, `merge_lost`, `lease_clash` | small instances of the same modules | a counterexample to a statement of the documentation; section 5 |

**Bounds.** Three intents are the least for a transitive premise and for a cycle
that no single edge closes; two are the least for rivalry. Two contents per
intent give an amendment that changes what others rely on, and its way back.
`MaxContent` bounds the content version: in `MCRegistry` every intent changes its
content once after admission (by an amendment, a promotion or a refresh, in any
order between the intents), in `MCPair` and `MCBroker` twice, so an amendment and
a refresh of one intent meet in one behaviour. A lease of two ticks lets a
lease be fresh, running and lapsed. Two broker instances on one root are the
least for a successor; `WriterTicks = 1` lets the writer lease lapse between any
two requests. `MaxContents = 1` gives a written file distinct from the base file.
In `MCBroker` the producer arrives first and does nothing but break its
contract, a lease is running or lapsed (`LeaseTicks = 1`) and only the worker
renews: the other orders are in `MCRegistry` and
`MCLease`. `TxnTicks = 1` in `MCLease` and `MCClash` lets a lease end between the two
clock reads of an arbitration; `MCRegistry` and `MCBroker` are about other steps
and take `TxnTicks = 0`. The theorems hold for every `TxnTicks`.
Brokers are interchangeable, so `MCBroker` uses them as a symmetry
set; no run with a liveness property uses symmetry.

In `MCSwarm` a prerequisite and a dependent are the least for a release; a lease
is running or lapsed (`LeaseTicks = 1`, the longer lease only delays); two launches
are both items once or one item twice; two graphs are the least for a report,
a row or a queue of an earlier graph. The constraint `Bounded` lets one of
pause, recovery and cancellation of a run be under way at a time (cancelling
the session, replacing the graph, merging and verifying go on beside it), and once
an item is relaunched allows one run at a time and no further graph.
`StartedAfterPrerequisites` and `CompletedIntegrated` are proved without any of
these bounds.

In `MCMerge` three items are the least for a dependency beside a change that can
conflict with both; two runs are a result and its rerun; two repairs let a retry
of the snapshot and a serial rerun of one item meet. There is one integrator, no
planner beside it and no rescue during an integration (`OneOperator`), which is how
`swarm start` and the documented command sequence work, and one item at a time
is on its second run. Every process may die at every step and be started again,
so an abandoned reservation, a commit without its queue entry and a dirty worktree
all meet later planning, rescue and verification. What happens with several
integrators is the run `merge_lost`, where the two constraints are absent.

In `MCCodex` three processes call: the agent admits, is guarded, amends and
verifies; the operator abandons, resumes and rewrites the session at the same time; the
rival admits. Two calls of one session overlapping are the least for a stale copy
to be written back; the calls of one session never read the other session's
file except for its authority. One successor and one further scope element bound the
rest. The same properties are proved for any number of callers, sessions, successors
and any scope.

In `MCRuns` each kind of adapter request occurs that has a rule of its own, with
`MCAfter` the order the agent makes them in. `FewErrors` allows one request to raise
and be recorded so; `Overlap` lets two processes be at work only on one and the same
deciding request (a proposal, an edit or a verification: duplicates) or on an edit
and a verification, and only in a headless run, where the launcher can be
interrupted between them. Hooks are interchangeable. All five properties are proved
without these bounds.

**Fairness** (`LiveSpec`): time passes (`WF` of `Tick`), and the owner of a
blocked intent retries the identical admission (`WF` of `RetryBlocked`): the
code answers a blocked intent with advice to retry, and `admit_intent` evaluates
it again. Nothing is assumed of the rival: it need not renew, release or
complete. So the property says that the wait ends or the rival keeps renewing.

`SwarmLiveSpec`: time passes, and an operator runs the recovery again and again
(`WF` of its steps: each is the next line of one program). Strong fairness of
`InspectRun(r)` and `RecoverRead(r)`: the recovery loop visits every unhealthy run, and
a rival writer does not for ever hit the moment between a recovery's read and its
write (a recovery that loses that race is repeated). Nothing is assumed of
runners, agents or the other operators. `NoRun` marks an idle operator.

`MergeQueue`, `CodexSessions` and `ControlledRuns` have safety properties only. A merge
entry whose integrator died stays reserved for good, a Codex call may die at
any step and nothing repeats it, and a run that nobody ends may go on: the code
promises no progress there that could be stated.

**Deadlock** is not checked in `MCAdmission`, which enumerates pairs and stops; in
`MCMerge`, where an abandoned reservation or an exhausted item can leave nothing to
do; and in `MCRuns`, where a run that is over is over.

## 4. Proofs

`AdmissionProofs` proves `ClashBlocks`: for *all* contents, two intents that may
write one line of one file block each other in the evaluator. It goes through
lemmas that an identifier covering a common path overlaps, and that two regions
containing a common line overlap.

`AdmissionPairsProofs` proves the five properties of the run `admission` for every
universe: `AdmittedWritersSeparated` (from `ClashBlocks`), `AdmittedReadersTracked`,
`ArrivalOrderIrrelevant`, `AdmittedContractsAgree` and `PromotionWithinDeclaration`. The
run compares every pair of a small universe; the theorems need no universe, because
each pair of operations is assessed by itself: `AssessSymmetric` goes through the
branches of `_assess`, `StaleReadReplans` and `ConceptWritersShare` through those on
contracts, `CommittedFormWrites` says what becomes of a promoted declaration.

`IntentRegistryProofs` proves, for every set of intents, contents, lease length
and content bound:

* `TypeCorrect`: `Spec => []TypeOK`.
* `PremisesStayAcyclic`: `Spec => []PremisesAcyclic`. Inductive as it stands,
  because the graph the cycle check inspects (`ProposedPairs`) contains every
  active edge the replacement leaves, and every other step only turns edges stale.
* `WritersStaySeparated`: `HistSpec => []LiveWritersSeparated`, however far the clock
  moves inside a transaction. An arriving or changed content was evaluated against
  every live intent but those whose lease ended inside the transaction (`ClashBlocks`),
  which are from then on `overlooked`; every other step keeps contents and only
  shrinks the live set. The exception is needed: without it the statement is
  false (`lease_clash`). It is the only one, and the theorems on premises below have the same.
* `RecoveryHolds`: `Spec => []RecoveryBarrier`, from the inductive `RecoveryInv` =
  `RecoveryBarrier` and "only an intent that was once admitted is fenced" (else the
  first admission of a fenced, never admitted identifier could not be excluded).
* `LostAuthorityStaysLost`: `Spec => AuthorityNotRevived`.
* `StalenessReachesAll`: `Spec => StalenessPropagates`. The walk (`Within`) goes as many hops
  as there are intents. `IsWalk` says what a walk of `n` hops collects, and
  `WalkExists` that the model's function is one; each hop adds an intent or the walk is
  closed (`WalkClosed`, by the finiteness of `Intents` and a least hop), so nothing trusting
  hangs on an intent that was fenced (`InvalidateClosed`).
* `LivePremisesRecorded`: `HistSpec => []PremisesRecorded`. Inductive with
  the types: an arriving, amended, promoted or resumed content is compared with every
  live one and its edges are written in both directions (`LetInRecords`), and any other
  step keeps the active edges of intents that stay live (`StepLetsIn`,
  `InvalidateKeeps`).
* `ContractChangesReachConsumers` and `DroppedPremisesReachReaders`: `HistSpec =>
  ContractChangeStales` and `HistSpec => ChangedPremiseStales`. The reader of a
  changed key has an active edge (`PremisesRecorded`), the first hop follows it, and
  hence the reader does not stay live (`ChangedReaderStale`); a content that keeps its
  keys, or one let in by another operation, agrees with the readers by the evaluator.
* `RegistryImplementsLifecycle`: `Spec => ImplementsLifecycle`. Each operation of the
  registry is one operation of `IntentLifecycle`, with the intents its sweep
  expires as `E` and the ones its walk fences as `D`; a refused operation is
  `Settle`; pausing is `Invalidate` of one intent; what changes only leases, edges or
  recoveries is a stutter.

The argument is organised around three lemmas: `IntentStepCases` splits a step into
its operations; `StepKinds` says that a step is *quiet* (contents unchanged, live
set not larger) or *arbitrated* (one intent takes a content that was allowed
against all other live ones); `LifeSteps` says which state changes a step makes.

`BrokerProofs` proves, for every set of intents, broker instances and worktree roots:

* `RuntimeTypeCorrect`, and `RuntimeRefinesRegistry`: `RuntimeSpec => Spec`. Brokers
  and everybody else only do to the intents what the registry's specification
  allows, so its theorems hold of the composed system.
* `WriterAuthorityHolds`: `RuntimeSpec => []WriterAuthority`. Not inductive: nothing in it
  keeps one instance from holding the leases of two roots, of which a sweep would
  take one together with its activity. `AuthorityInv` adds that a lease belongs to the
  root of its holder. The heart is that only admission, amendment, a pause and
  a broken contract make an intent stale (`OperationUnstaled`), and these fence.
* `CommitsAreAuthorized`: `RuntimeSpec => CommittedUnderAuthority`. The invariant
  `BindingInv`: an instance is bound to a version no newer than the intent's, and if it is
  the present one, a handler between validation and commit has seen the present
  content. It is stable because a content changes only with its version
  (`VersionedContent`, from the life cycle the registry implements), and because the
  handler whose promotion rebinds its instance reads the intent again.
* `CommitsAreExclusive`: `RuntimeHistSpec => CommitsExclude`: no other live
  intent may write a line that a broker commits, unless one of the two was overlooked. It joins the layers: an authorised
  request is about declared lines (`AuthorizedWrites`), `EntitledInv` keeps that from the
  preparation to the commit, `CommitStep` says that the authorising content is the
  present one, and `WritersStaySeparated` holds of the composed system by
  `RuntimeRefinesRegistry`. No run has this property. `MutationAssumption` is what the mutation handlers ask for.
* `RefusalsLeaveNoTrace`: `RuntimeHistSpec => []TreeProvenance`. The
  invariant `ProvenanceInv` says who holds the worktree lock and what backup and
  post tree are in each phase. A broker closed during a request loses the
  lock and its claim on the tree; a successor that is not `disturbed` had the tree
  to itself, since no other request was in flight when it took the lock or since.

`SwarmRunsProofs` proves, for every graph of work items and every worker, retry
and graph bound:

* `SwarmTypeCorrect`: `SwarmSpec => []SwarmTypeOK`.
* `PrerequisitesHold`: `SwarmSpec => []StartedAfterPrerequisites`. The property is not
  inductive: a row overwritten by a late runner must still not carry the present
  graph's version. The invariant adds `GraphsPast` (no row is stamped with a future
  graph) and drops the condition on the row's state (`Grounded`). `QuietSteps`
  says that only a reservation stamps a row and only merging or a new graph changes
  entries; `IntegratedStays` that an integrated entry stays so within a graph.
* `CompletionSound`: `SwarmSpec => []CompletedIntegrated`, inductive with the types.
* `SuccessIsNotTakenBack`: `SwarmSpec => SuccessStands`. `RowsInv` says that attempts are
  numbered without gaps - hence the next number is a free row (`LaunchedInOrder`, from the
  cardinality of an initial segment) -, that a runner and a cancellation are of a
  reserved row, that a runner about to write its final state has decided one, and that the
  runner of a succeeded row is done: a late heartbeat or final write is of a row that has
  not succeeded. A recovery looks at the state again in its transaction.

`CodexSessionsProofs` proves the five properties of the run `codex` for every set of
sessions and callers, any calls they make, any scope and any number of successors.
None of them is inductive: what a caller will write depends on the copy it holds and
on what it has read. The invariant `CodexInv` says

* `Succession`: intent `n` of a session exists only if its predecessors lost their
  authority, by expiry or release - and lost authority does not come back;
* `ContractInherited`, because a predecessor without authority takes no more content;
* `FileFits`, of every session file *and of every copy in flight*: a mark "verified" or
  "abandoned" in it is true of the intent it names, and a successor it names was admitted;
* `CallFits`: what a call established before its next step - the predecessor lost its
  authority, the successor was admitted, the scope an amendment has read contains all the
  predecessor's content.

That stale copies are harmless follows since `FileFits` is stable: its claims about
the registry are about states no operation leads out of.

`ControlledRunsProofs` proves the five properties of the run `controlled_run` for
every set of hooks and requests. `RunsInv` joins the shapes of the state, `StreamInv` (a
decision's events are in the stream with its head; a request has at most one outcome;
a cached answer is recorded; a call about to store its answer has recorded it) and
`VerifiedInv` (an answer, an event or an outcome that says "verified" exists only
once the intent is completed, which it stays). `CancellationRevokes` has its own
invariant, `CancelInv`: in a headless run whose agent was terminated the hooks are gone
and stay gone, so the launcher's cancellation is the last request to act on the
intent the session names. It says nothing of `auth.spare`, the intent of an admission
that was cut off: that one the cancellation does not find (section 5). `AuthShape` and
`AdmissionShape` say what an admission under way has established. `QuietStep` classifies the steps that change neither stream nor intent.

`MergeQueueProofs` proves the six properties of the run `merge` for every graph of work
items, any number of integrators, planners and rescuers and any bounds, in the form
`MergeSpec /\ []OneOperator => []P`: `IntegratedMeansOnBranch`, `OneRunPublished`,
`DependenciesPublishedFirst`, `VerifiedIsComposed`, `SupersededIsUnpublished`,
`RepairsAreBounded`. Runs and the verifier need not take turns. The assumption cannot be
dropped: with two integrators TLC refutes the first property (`merge_lost`), and with
one integrator beside one rescuer too, when a plan read before a rescue is saved
after it. The invariant `MergeInv` says

* `RunsInv`, `EntriesFit`: a run under way is its item's last; an entry from "ready" on
  names the item's effective, successful run, and its dependencies are integrated;
* `PlanFits`: a computed queue keeps exactly what the store keeps;
* `BranchFits`: a change on the branch has its entry reserved or integrated, under that
  run, and no integrator is about to apply it again - so a dead integrator's commit
  without a queue entry blocks the item rather than being repeated or superseded;
* `ClaimFits`: what an integrator has established at each step about entry, worktree
  and branch; a restored worktree is therefore back at the branch's own head;
* `WorkerFits`: what the last run changed is still in the worker, unless it was
  committed, superseded or awaits a rerun - so "nothing to commit" means that the run
  changed nothing, also after a retried snapshot;
* `RescueFits`, `RepairsCounted`, `VerifierFits`: a decision is about the queue as it is.

`LastOfIsLast` (the last run of an item) takes the maximum of a bounded set from the
well-foundedness of `<`. `BranchSteps`, `SucceededStays` and `IntegratedSteps` say which steps
move the branch, a run and an entry's "integrated"; the properties follow from them.

Only model-checked: liveness under fairness (`BlockedUntilLapse`, `SlotsFreed`).

## 5. Where the code and its documentation disagree

With a run whose counterexample TLC finds; `PROJECT.json` quotes the sentence:

1. **Lost while working** (`swarm_lost`). A reservation is judged by its lease of 15
   seconds alone, and nothing renews it while the runner sets up the connector, spawns
   the agent and records it. A recovery in that window calls the run lost although
   its agent was spawned or is about to be: the runner does not look at the row
   again. `docs/swarm-sessions.md` defines `lost` as a reservation that
   expired before spawn, or an agent that no longer exists.
2. **An integrated change that is not on the branch** (`merge_lost`).
   `save_merge_queue` saves a plan over whatever the store holds, so a plan read before
   a claim takes the reservation back and a second integrator reserves the same
   entry. When one has published and the other then raises, the handler at
   `swarm/merge_service.py:547` resets the shared branch to the head the failed
   integrator had claimed; its `CONFLICT` is refused, the entry stays `INTEGRATED`.
   A later planning takes the branch's head as it is.
3. **Two clock reads** (`lease_clash`). `_expire_intents_locked` and
   `_active_intents_locked` (`core/registry.py:552`) read the clock separately. A lease
   that ends between them is neither swept nor counted; a rival is admitted, and the
   first owner's heartbeat, which does not look at the lease, makes both live with
   running leases. `docs/ARCHITECTURE.md` says two processes cannot both admit
   incompatible work from the same state.

Met while modelling, described here only; each is a behaviour of the modules under
the constants named:

* **Two sessions with authority in one worktree.** Admission and amendment look for
  other authorized sessions, the re-admission of a resumed session
  (`connectors/codex.py:1075`) does not: a session whose lease ran out, and after which
  another was admitted, holds authority beside it once it is resumed.
  `docs/ARCHITECTURE.md:98` permits one active session per worktree.
* **Cancelled, but admitted.** A timeout or Ctrl-C that kills the agent between
  `plane.activate` (`connectors/codex.py:1529`) and `_write_session` (1564) leaves an active
  intent the session does not name. `abandon_codex_intent` (2111) releases only what the
  session names, and the launcher reports the authority as cancelled; the intent
  stays live until its lease ends. `docs/INTEGRATIONS.md:39` says unfinished intent
  authority is released before the terminal record is written. In `MCRuns`: `Admit`,
  `Activate`, `TimeOut`, `Revoke`, `Revoked`, with `auth.spare = "live"` at the end.
* **A broker closed during a request.** `close` (`runtime/broker.py:550`) takes no request lock
  and handler threads are daemons: a request in flight goes on mutating after the
  worktree lock is dropped, beside a successor that takes it (`disturbed`).
* **A changed signature that changes nothing.** A producer whose new signature was
  rejected stays recorded with it; amending it with the same content is an amendment
  without changed resources (`core/registry.py:1038`), so the consumer is not
  invalidated, although the evaluator's reason says it must become stale.
* **A read turned into a write changes nothing.** What an amendment compares
  (`_operation_resource_key`, `core/registry.py:3538`) leaves the access mode out. A producer
  that declared a contract as read and amends it to a write with another signature
  announces no changed resource: the evaluator admits the mismatch because the
  consumer is to become stale (`coordination/admission.py:324`), and the consumer stays
  live. Likewise a write amended to a read of the same file keeps its readers. The two
  properties on amendments are stated for what the comparison sees (`ReadsAgree`, the
  same `ResourceMarker`).
* **Readers by glob.** Edges are recorded under the reader's own key, the first hop
  of the walk compares with the producer's keys (`core/registry.py:1829`): a reader by
  glob stays live when a file under the glob changes.
* **Pending operations of a crashed broker.** Start-up (`runtime/broker.py:790`) looks
  for pending operations of its own, new, instance id and finds none;
  `docs/BROKERED_RUNTIME.md` says they are recovered.
* **A promotion un-revokes an amended broker.** The promotion passes no expected version
  and rebinds the instance to whatever content it made (`core/registry.py:2538`).
* **Promoted scope lost by an amendment.** `amend_codex_scope` reads the intent and,
  in another transaction, its version; a scope promoted in between is dropped by the
  amendment (`connectors/codex.py:1833`), which is documented as monotonic.
* **Repairs beyond their bound.** With two rescuers, one may apply a decision made
  before the other's repair once the queue has come back to the same conflict, so
  `max_repairs_per_work_item` is exceeded by one.
* **Two runs of one item.** A planner beside the integrator, together with a crash
  after the commit, reopens an entry whose change is published; a rescue then reruns
  the item and its second change is published too.
* **A verification without its event.** The deterministic gate demands a *valid*
  stream, not one that reports the verification: a run is `VERIFIED` when the Stop hook
  completed the intent and died before recording it.
* **Cancelled, but active.** The interactive launcher terminates Codex alone; a hook it
  leaves behind can bind an intent after the cancellation, although
  `docs/INTEGRATIONS.md` says unfinished authority is released before the terminal
  record is written.
* **A request that acted and is refused.** A retry after a hook died between recording
  and caching may get another answer; the store refuses it then and at every later retry,
  though the action was carried out.

## 6. Not modelled, and why

* Left out of the modelled parts because no modelled guard reads them: the row
  version (its compare-and-set only makes a call raise), notices, audit events,
  explanation texts, timestamps, digests, telemetry.
* **Broker**: reads, `run_command`, `verify_broker_session`, and the replay of a request
  id, which is private to one broker under its request lock. One root: tokens are not
  compared across worktrees.
* **Swarm**: token, cost and wall-time accounts (spent at any moment instead), the
  replacement of a worker's worktree on recovery, planning of a session and shared
  admission (pure functions whose result are `Deps` and `Rank`).
* **Codex connector**: installation, prompts, the parsing of tool calls and shell
  commands into mutations, the evidence a verification collects. They decide *what* is
  asked for, which the models leave open.
* **Controlled run**: preparation, JSONL progress, process handling, reports, and a death of
  the launcher, after which nothing decides the run.
* **Claim grants**: the legacy sweep-and-arbitrate transaction over tables no modelled
  part reads. **Observation sessions**: their correctness is that of a hash chain.
* **Verifiers, semantic analysis, routing, project files, reports, CLI, console, MCP,
  validation and experiments**: stateless, or front ends whose every call is an operation
  of a modelled part.
