------------------------------ MODULE MergeQueue ------------------------------
(***************************************************************************)
(* The deterministic merge queue of a swarm session and the git branch it  *)
(* speaks about: swarm/merge_service.py, swarm/merge_queue.py, the queue   *)
(* transactions of swarm/store.py, swarm/rescue.py and the queue checks of *)
(* swarm/verification.py.                                                  *)
(*                                                                         *)
(* Integrators ("merge-next", "merge-drain", "swarm start"), planners      *)
(* ("merge-plan", "merge-queue"), rescuers and a verifier are processes    *)
(* that read the queue, work on git and write the queue back.  All share   *)
(* one integration worktree.  A commit is abstracted to the run whose      *)
(* change it carries and a head to the sequence of them above the base.    *)
(*                                                                         *)
(* SwarmRuns has the life of a run; here a run is launched and ends in one *)
(* step each.  The graph, the budget and the admission do not change, and  *)
(* what a failed run leaves behind is discarded before the next one.       *)
(***************************************************************************)
EXTENDS Integers, Sequences, FiniteSets

CONSTANTS
    Work,          \* work items of the graph
    Deps,          \* Deps[w]: effective dependencies
    Rank,          \* Rank[w]: place in the topological order
    Integrators, Planners, Rescuers,
    NoWork,        \* no work item
    MaxAttempts,   \* runs a work item may have
    MaxRepairs     \* retries.max_repairs_per_work_item

ASSUME MergeAssumption ==
    /\ Deps \in [Work -> SUBSET Work]
    /\ Rank \in [Work -> Nat]
    /\ Integrators \cap Planners = {} /\ NoWork \notin Work
    /\ MaxAttempts \in Nat \ {0} /\ MaxRepairs \in Nat

VARIABLES
    queue,    \* swarm_merge_queues: integration head and entries
    run,      \* the runs of a work item: state, base commit, changed anything
    tree,     \* integration worktree: branch and what is staged
    worker,   \* worker worktrees: HEAD and the result of a run above it
    events,   \* integration_rescue events of a work item
    plan,     \* pc and computed queue of integrators and planners
    claim,    \* the entry an integrator works on
    rescue,   \* decision of a rescuer
    verifier, \* pc and queue of verify_swarm_session
    report    \* swarm_verifications

mergeVars == <<queue, run, tree, worker, events, plan, claim, rescue, verifier, report>>

Procs    == Integrators \cup Planners
Attempts == 1..MaxAttempts
Settled  == {"integrated", "conflict"}   \* variant of Kept: abandoned reservations reopen
Kept     == {"integrated", "conflict", "integrating"}

NoEntry  == [state |-> "pending", run |-> 0, source |-> FALSE, why |-> "none"]
NoQueue  == [head |-> <<>>, entry |-> [w \in Work |-> NoEntry]]
NoPlan   == [pc |-> "idle", queue |-> NoQueue]
NoClaim  == [work |-> NoWork, entry |-> NoEntry, head |-> <<>>]
NoRescue == [pc |-> "idle", work |-> NoWork, queue |-> NoQueue, kind |-> "none", attempt |-> 0]

On(branch, change) == \E k \in DOMAIN branch : branch[k] = change

(* The last run of a set of attempts, 0 without one. *)
LastOf(w, attempts) ==
    LET begun == { n \in attempts : run[w][n].state # "none" } IN
    IF begun = {} THEN 0 ELSE CHOOSE n \in begun : \A m \in begun : m <= n

MergeInit ==
    /\ queue = NoQueue
    /\ run = [w \in Work |-> [n \in Attempts |->
                [state |-> "none", base |-> <<>>, changed |-> FALSE]]]
    /\ tree = [branch |-> <<>>, stage |-> {}]
    /\ worker = [w \in Work |-> [head |-> <<>>, dirty |-> 0, snapshot |-> 0]]
    /\ events = [w \in Work |-> [count |-> 0, prepared |-> 0, superseded |-> {}]]
    /\ plan = [p \in Procs |-> NoPlan]
    /\ claim = [i \in Integrators |-> NoClaim]
    /\ rescue = [r \in Rescuers |-> NoRescue]
    /\ verifier = NoPlan
    /\ report = "none"

-----------------------------------------------------------------------------
(* compute_merge_queue: published, conflicting and reserved entries of the *)
(* previous queue are kept, the others follow from the latest run that no  *)
(* rescue superseded.                                                      *)

Effective(w) == LastOf(w, Attempts \ events[w].superseded)
Successful(w) ==
    LET n == Effective(w) IN
    IF n # 0 /\ run[w][n].state = "succeeded" THEN n ELSE 0

(* Variant: the dependencies need only have succeeded. *)
MissingSuccess(q, w) == { d \in Deps[w] : Successful(d) = 0 }

MissingIntegrations(q, w) == { d \in Deps[w] : q.entry[d].state # "integrated" }

PlannedEntry(q, w) ==
    LET old   == q.entry[w]
        n     == Successful(w)
        state == IF n = 0 THEN "pending"
                 ELSE IF MissingIntegrations(q, w) # {} THEN "blocked" ELSE "ready"
    IN  IF old.state \in Kept THEN old
        ELSE [state |-> state, run |-> n, why |-> "none",
              source |-> old.source /\ old.run = n /\ state = "ready"]

(* plan_swarm_merge_queue: the store is read, then the head of the branch, *)
(* then the queue is written over whatever the store holds by now.         *)
ReadStore(p) ==
    /\ plan[p].pc = "idle"
    /\ plan' = [plan EXCEPT ![p] = [pc |-> "read",
                  queue |-> [head |-> queue.head,
                             entry |-> [w \in Work |-> PlannedEntry(queue, w)]]]]
    /\ UNCHANGED <<queue, run, tree, worker, events, claim, rescue, verifier, report>>

ReadIntegrationHead(p) ==
    /\ plan[p].pc = "read"
    /\ plan' = [plan EXCEPT ![p] = [pc |-> "head",
                  queue |-> [head |-> tree.branch, entry |-> plan[p].queue.entry]]]
    /\ UNCHANGED <<queue, run, tree, worker, events, claim, rescue, verifier, report>>

SaveMergeQueue(p) ==
    /\ plan[p].pc = "head"
    /\ queue' = plan[p].queue
    /\ plan' = [plan EXCEPT ![p] = IF p \in Integrators
                                   THEN [pc |-> "planned", queue |-> plan[p].queue] ELSE NoPlan]
    /\ UNCHANGED <<run, tree, worker, events, claim, rescue, verifier, report>>

-----------------------------------------------------------------------------
(* integrate_next_swarm_result, by integrator i.                           *)

ReadyWork(q) == { w \in Work : q.entry[w].state = "ready" }

GoTo(i, pc) == plan' = [plan EXCEPT ![i] = [pc |-> pc, queue |-> NoQueue]]

(* claim_merge_entry: the first ready entry, if the queue is the planned one. *)
ClaimMergeEntry(i, w) ==
    LET e == [plan[i].queue.entry[w] EXCEPT !.state = "integrating"] IN
    /\ plan[i].pc = "planned" /\ queue = plan[i].queue
    /\ w \in ReadyWork(queue) /\ \A v \in ReadyWork(queue) : Rank[w] <= Rank[v]
    /\ queue' = [head |-> queue.head, entry |-> [queue.entry EXCEPT ![w] = e]]
    /\ claim' = [claim EXCEPT ![i] = [work |-> w, entry |-> e, head |-> queue.head]]
    /\ GoTo(i, "claimed")
    /\ UNCHANGED <<run, tree, worker, events, rescue, verifier, report>>

(* Nothing is ready, or the queue changed concurrently. *)
ClaimRefused(i) ==
    /\ plan[i].pc = "planned"
    /\ queue # plan[i].queue \/ ReadyWork(queue) = {}
    /\ plan' = [plan EXCEPT ![i] = NoPlan]
    /\ UNCHANGED <<queue, run, tree, worker, events, claim, rescue, verifier, report>>

(* _ensure_integration_worktree: clean and at the head of the claimed queue. *)
WorktreeUsable(i) == tree.stage = {} /\ tree.branch = claim[i].head

(* Outside the try block: the entry stays reserved when it raises. *)
EnsureIntegrationWorktree(i) ==
    /\ plan[i].pc = "claimed"
    /\ IF WorktreeUsable(i) THEN GoTo(i, "open") /\ UNCHANGED claim
       ELSE plan' = [plan EXCEPT ![i] = NoPlan] /\ claim' = [claim EXCEPT ![i] = NoClaim]
    /\ UNCHANGED <<queue, run, tree, worker, events, rescue, verifier, report>>

(* The entry finish_merge_entry will store. *)
Finishing(i, state, source, why, head) ==
    /\ claim' = [claim EXCEPT ![i] =
                   [work |-> claim[i].work, head |-> head,
                    entry |-> [state |-> state, run |-> claim[i].entry.run,
                               source |-> source, why |-> why]]]
    /\ GoTo(i, "finish")

Conflict(i, why) == Finishing(i, "conflict", claim[i].entry.source, why, claim[i].head)

(* Variant: reset to the commit the run started from. *)
RestoreToBase(i) ==
    tree' = [branch |-> run[claim[i].work][claim[i].entry.run].base, stage |-> {}]

(* reset --hard to the head of the claimed queue. *)
RestoreWorktree(i) == tree' = [branch |-> claim[i].head, stage |-> {}]

(* The exception handler, whatever raised. *)
IntegrationError(i) ==
    /\ plan[i].pc \in {"open", "source", "staged"}
    /\ RestoreWorktree(i) /\ Conflict(i, "error")
    /\ UNCHANGED <<queue, run, worker, events, rescue, verifier, report>>

(* _snapshot_worker refuses unless the run is the latest one, succeeded,   *)
(* and the worker is still at its base.                                    *)
SnapshotAllowed(w, n) ==
    /\ LastOf(w, Attempts) = n /\ run[w][n].state = "succeeded"
    /\ worker[w].snapshot = 0 /\ worker[w].head = run[w][n].base

(* A stored source commit is used again; a clean worker is recorded        *)
(* without a commit; its changes are committed; otherwise it raises.       *)
SnapshotWorker(i) ==
    LET w == claim[i].work
        n == claim[i].entry.run
    IN
    /\ plan[i].pc = "open"
    /\ \/ /\ claim[i].entry.source
          /\ GoTo(i, "source")
          /\ UNCHANGED <<claim, worker>>
       \/ /\ ~claim[i].entry.source /\ SnapshotAllowed(w, n) /\ worker[w].dirty = 0
          /\ Finishing(i, "integrated", FALSE, "none", claim[i].head)
          /\ UNCHANGED worker
       \/ /\ ~claim[i].entry.source /\ SnapshotAllowed(w, n) /\ worker[w].dirty # 0
          /\ worker' = [worker EXCEPT ![w] =
                [head |-> worker[w].head, dirty |-> 0, snapshot |-> worker[w].dirty]]
          /\ claim' = [claim EXCEPT ![i] = [work |-> w, head |-> claim[i].head,
                entry |-> [claim[i].entry EXCEPT !.source = TRUE]]]
          /\ GoTo(i, "source")
    /\ UNCHANGED <<queue, run, tree, events, rescue, verifier, report>>

ChangeOf(i) == <<claim[i].work, claim[i].entry.run>>
BaseOf(i)   == run[claim[i].work][claim[i].entry.run].base

(* A change conflicts with the commits since its base, not with itself. *)
MayConflict(i) ==
    LET branch == tree.branch IN
    BaseOf(i) # branch /\ (branch # <<>> => branch[Len(branch)] # ChangeOf(i))

(* build_integration_preflight and _apply_snapshot.  A change that the     *)
(* branch holds already stages nothing.                                    *)
ApplySnapshot(i) ==
    /\ plan[i].pc = "source"
    /\ \/ Conflict(i, "authority") /\ UNCHANGED tree
       \/ /\ tree' = [branch |-> tree.branch,
                      stage |-> IF On(tree.branch, ChangeOf(i)) THEN tree.stage
                                ELSE tree.stage \cup {ChangeOf(i)}]
          /\ GoTo(i, "staged") /\ UNCHANGED claim
       \/ /\ MayConflict(i)
          /\ RestoreWorktree(i) /\ Conflict(i, "text")
    /\ UNCHANGED <<queue, run, worker, events, rescue, verifier, report>>

(* verify_staged_integration and _commit_applied_snapshot: what is staged  *)
(* must be the source's paths; other checks may refuse it too, an ordered  *)
(* premise only when the source was not made on the head.                  *)
CommitApplied(i) ==
    LET branch == Append(tree.branch, ChangeOf(i)) IN
    /\ plan[i].pc = "staged"
    /\ \/ /\ tree.stage = {ChangeOf(i)}
          /\ tree' = [branch |-> branch, stage |-> {}]
          /\ Finishing(i, "integrated", TRUE, "none", branch)
       \/ \E why \in {"postapply", "semantic", "stale"} :
            /\ tree.stage # {ChangeOf(i)} => why = "postapply"
            /\ why = "stale" => BaseOf(i) # claim[i].head
            /\ RestoreWorktree(i) /\ Conflict(i, why)
    /\ UNCHANGED <<queue, run, worker, events, rescue, verifier, report>>

(* finish_merge_entry: refused unless the entry is reserved, by whomever. *)
FinishMergeEntry(i) ==
    LET w == claim[i].work IN
    /\ plan[i].pc = "finish"
    /\ queue' = IF queue.entry[w].state = "integrating"
                THEN [head |-> claim[i].head,
                      entry |-> [queue.entry EXCEPT ![w] = claim[i].entry]]
                ELSE queue
    /\ plan' = [plan EXCEPT ![i] = NoPlan]
    /\ claim' = [claim EXCEPT ![i] = NoClaim]
    /\ UNCHANGED <<run, tree, worker, events, rescue, verifier, report>>

(* A process dies between any two steps; what git and the store hold stays. *)
ProcCrash(p) ==
    /\ plan[p].pc # "idle"
    /\ plan' = [plan EXCEPT ![p] = NoPlan]
    /\ claim' = [i \in Integrators |-> IF i = p THEN NoClaim ELSE claim[i]]
    /\ UNCHANGED <<queue, run, tree, worker, events, rescue, verifier, report>>

-----------------------------------------------------------------------------
(* Runs, as far as the queue is concerned.                                 *)

ActiveIn(w) == \E n \in Attempts : run[w][n].state = "running"

HeadOf(w) == IF worker[w].snapshot = 0 THEN worker[w].head
             ELSE Append(worker[w].head, <<w, worker[w].snapshot>>)

Ancestor(a, b) == Len(a) <= Len(b) /\ \A k \in DOMAIN a : a[k] = b[k]

(* A dependent is advanced to the integration head, if that loses nothing. *)
LaunchRun(w, n) ==
    LET start == IF Deps[w] = {} THEN HeadOf(w) ELSE queue.head IN
    /\ n = LastOf(w, Attempts) + 1 /\ ~ActiveIn(w) /\ Successful(w) = 0
    /\ MissingIntegrations(queue, w) = {}
    /\ Deps[w] # {} => worker[w].dirty = 0 /\ Ancestor(HeadOf(w), queue.head)
    /\ run' = [run EXCEPT ![w] = [@ EXCEPT ![n] =
                 [state |-> "running", base |-> start, changed |-> FALSE]]]
    /\ worker' = [worker EXCEPT ![w] =
                    [head |-> start, dirty |-> worker[w].dirty, snapshot |-> 0]]
    /\ UNCHANGED <<queue, tree, events, plan, claim, rescue, verifier, report>>

EndRun(w, n, state, changed) ==
    /\ run[w][n].state = "running"
    /\ run' = [run EXCEPT ![w] = [@ EXCEPT ![n] =
                 [state |-> state, base |-> run[w][n].base,
                  changed |-> state = "succeeded" /\ changed]]]
    /\ worker' = [worker EXCEPT ![w] =
                    [head |-> worker[w].head, snapshot |-> worker[w].snapshot,
                     dirty |-> IF state = "succeeded" /\ changed THEN n ELSE 0]]
    /\ UNCHANGED <<queue, tree, events, plan, claim, rescue, verifier, report>>

-----------------------------------------------------------------------------
(* rescue_swarm_integration.                                               *)

(* _classify, from the conflict evidence of an entry. *)
Classify(why) ==
    CASE why = "error"             -> "retry_snapshot"
      [] why \in {"stale", "text"} -> "serial_rerun"
      [] why = "semantic"          -> "replan_required"
      [] OTHER                     -> "manual"

(* Variant: only the reruns count. *)
AttemptOfReruns(w) == Cardinality(events[w].superseded) + 1

(* _attempt_count: every recorded rescue counts, prepared or not. *)
Attempt(w) == events[w].count + 1

(* plan_integration_rescue: queue and events are read together. *)
PlanRescue(r, w) ==
    LET attempt == Attempt(w) IN
    /\ rescue[r].pc = "idle" /\ queue.entry[w].state = "conflict"
    /\ rescue' = [rescue EXCEPT ![r] =
         [pc |-> "decided", work |-> w, queue |-> queue, attempt |-> attempt,
          kind |-> IF attempt > MaxRepairs THEN "manual" ELSE Classify(queue.entry[w].why)]]
    /\ UNCHANGED <<queue, run, tree, worker, events, plan, claim, verifier, report>>

EndRescue(r) == rescue' = [rescue EXCEPT ![r] = NoRescue]

(* More events than exhaust the budget are not counted (bound). *)
Counted(n) == IF n > MaxRepairs THEN n ELSE n + 1

(* A decision for a human is only recorded. *)
RecordDecision(r) ==
    LET w == rescue[r].work IN
    /\ rescue[r].pc = "decided" /\ rescue[r].kind \in {"manual", "replan_required"}
    /\ events' = [events EXCEPT ![w] =
                    [@ EXCEPT !.count = Counted(events[w].count)]]
    /\ EndRescue(r)
    /\ UNCHANGED <<queue, run, tree, worker, plan, claim, verifier, report>>

(* The queue is compared with the one decided on, before the worker is reset. *)
CheckDecision(r) ==
    /\ rescue[r].pc = "decided" /\ rescue[r].kind \in {"retry_snapshot", "serial_rerun"}
    /\ IF queue = rescue[r].queue
       THEN rescue' = [rescue EXCEPT ![r] =
                         [@ EXCEPT !.pc = IF rescue[r].kind = "serial_rerun"
                                          THEN "checked" ELSE "reset"]]
       ELSE EndRescue(r)
    /\ UNCHANGED <<queue, run, tree, worker, events, plan, claim, verifier, report>>

(* _reset_managed_worker: git reset --hard to the integration head. *)
ResetManagedWorker(r) ==
    LET w == rescue[r].work IN
    /\ rescue[r].pc = "checked"
    /\ IF ActiveIn(w) THEN EndRescue(r) /\ UNCHANGED worker
       ELSE /\ worker' = [worker EXCEPT ![w] =
                  [head |-> rescue[r].queue.head, dirty |-> 0, snapshot |-> 0]]
            /\ rescue' = [rescue EXCEPT ![r] = [@ EXCEPT !.pc = "reset"]]
    /\ UNCHANGED <<queue, run, tree, events, plan, claim, verifier, report>>

(* apply_merge_rescue: the conflict is reopened and the event recorded. *)
ApplyMergeRescue(r) ==
    LET w      == rescue[r].work
        old    == queue.entry[w]
        serial == rescue[r].kind = "serial_rerun"
    IN
    /\ rescue[r].pc = "reset"
    /\ IF queue = rescue[r].queue
       THEN /\ queue' = [head |-> queue.head, entry |-> [queue.entry EXCEPT ![w] =
                  IF serial THEN NoEntry
                  ELSE [state |-> "ready", run |-> old.run, source |-> old.source,
                        why |-> "none"]]]
            /\ events' = [events EXCEPT ![w] =
                  [count |-> Counted(events[w].count), prepared |-> Counted(events[w].prepared),
                   superseded |-> IF serial THEN events[w].superseded \cup {old.run}
                                  ELSE events[w].superseded]]
       ELSE UNCHANGED <<queue, events>>
    /\ EndRescue(r)
    /\ UNCHANGED <<run, tree, worker, plan, claim, verifier, report>>

RescueCrash(r) ==
    /\ rescue[r].pc # "idle"
    /\ EndRescue(r)
    /\ UNCHANGED <<queue, run, tree, worker, events, plan, claim, verifier, report>>

-----------------------------------------------------------------------------
(* verify_swarm_session.                                                   *)

(* Variant: nothing is left to integrate, conflicts or not. *)
CompletedOrStuck(q) == ReadyWork(q) = {}

Completed(q) == \A w \in Work : q.entry[w].state = "integrated"

(* The queue is complete and the worktree clean at its head. *)
CheckQueue ==
    /\ verifier.pc = "idle"
    /\ Completed(queue) /\ tree.branch = queue.head /\ tree.stage = {}
    /\ verifier' = [pc |-> "checked", queue |-> queue]
    /\ UNCHANGED <<queue, run, tree, worker, events, plan, claim, rescue, report>>

BeginVerification ==
    /\ verifier.pc = "checked"
    /\ verifier' = IF queue = verifier.queue /\ \A w \in Work : ~ActiveIn(w)
                   THEN [verifier EXCEPT !.pc = "begun"] ELSE NoPlan
    /\ UNCHANGED <<queue, run, tree, worker, events, plan, claim, rescue, report>>

SaveVerification(result) ==
    /\ verifier.pc = "begun"
    /\ report' = IF queue = verifier.queue THEN result ELSE report
    /\ verifier' = NoPlan
    /\ UNCHANGED <<queue, run, tree, worker, events, plan, claim, rescue>>

VerifierCrash ==
    /\ verifier.pc # "idle"
    /\ verifier' = NoPlan
    /\ UNCHANGED <<queue, run, tree, worker, events, plan, claim, rescue, report>>

-----------------------------------------------------------------------------
IntegratorStep(i) ==
    \/ \E w \in Work : ClaimMergeEntry(i, w)
    \/ ClaimRefused(i) \/ EnsureIntegrationWorktree(i) \/ SnapshotWorker(i)
    \/ ApplySnapshot(i) \/ CommitApplied(i) \/ IntegrationError(i) \/ FinishMergeEntry(i)

RescueStep(r) ==
    \/ \E w \in Work : PlanRescue(r, w)
    \/ RecordDecision(r) \/ CheckDecision(r) \/ ResetManagedWorker(r)
    \/ ApplyMergeRescue(r) \/ RescueCrash(r)

VerifierStep ==
    \/ CheckQueue \/ BeginVerification \/ VerifierCrash
    \/ \E result \in {"verified", "failed"} : SaveVerification(result)

MergeNext ==
    \/ \E p \in Procs :
         ReadStore(p) \/ ReadIntegrationHead(p) \/ SaveMergeQueue(p) \/ ProcCrash(p)
    \/ \E i \in Integrators : IntegratorStep(i)
    \/ \E r \in Rescuers : RescueStep(r)
    \/ \E w \in Work, n \in Attempts :
         \/ LaunchRun(w, n)
         \/ \E state \in {"succeeded", "failed"}, changed \in BOOLEAN :
              EndRun(w, n, state, changed)
    \/ VerifierStep

MergeSpec == MergeInit /\ [][MergeNext]_mergeVars

(* The processes take turns at the queue, as the steps of one "swarm start" *)
(* and the commands of one operator do.  Runs and the verifier do not.     *)
OneOperator ==
    /\ \A p, q \in Procs : plan[p].pc = "idle" \/ plan[q].pc = "idle" \/ p = q
    /\ \A r, s \in Rescuers : rescue[r].pc = "idle" \/ rescue[s].pc = "idle" \/ r = s
    /\ \A p \in Procs, r \in Rescuers : plan[p].pc = "idle" \/ rescue[r].pc = "idle"

-----------------------------------------------------------------------------
(* What "integrated" promises: the change of the run is on the integration *)
(* branch, unless the run changed nothing - whatever stale plan, rescue or *)
(* death of a process came between the steps of an integration.            *)
IntegratedOnBranch ==
    \A w \in Work :
        LET e == queue.entry[w] IN
        e.state = "integrated" =>
            \/ On(tree.branch, <<w, e.run>>)
            \/ e.run \in Attempts /\ ~run[w][e.run].changed

(* At most one run of a work item gets onto the branch: a rerun replaces a *)
(* result, it is not added to it.                                          *)
OneRunPerWork ==
    \A j, k \in DOMAIN tree.branch : tree.branch[j][1] = tree.branch[k][1] => j = k

(* The branch is composed in dependency order.                             *)
DependenciesFirst ==
    \A k \in DOMAIN tree.branch : \A d \in Deps[tree.branch[k][1]] :
        \/ \E j \in 1..(k - 1) : tree.branch[j][1] = d
        \/ \E n \in Attempts : run[d][n].state = "succeeded" /\ ~run[d][n].changed

(* A report "verified" speaks of every work item: each has a successful    *)
(* run whose change is on the branch or that changed nothing.              *)
VerifiedComposed ==
    report = "verified" => \A w \in Work : \E n \in Attempts :
        /\ run[w][n].state = "succeeded"
        /\ On(tree.branch, <<w, n>>) \/ ~run[w][n].changed

(* A run is superseded by a rescue only when its change is not published. *)
SupersededUnpublished ==
    \A w \in Work : \A n \in events[w].superseded : ~On(tree.branch, <<w, n>>)

(* max_repairs_per_work_item bounds the prepared repairs.                  *)
RepairsBounded == \A w \in Work : events[w].prepared <= MaxRepairs
=============================================================================
