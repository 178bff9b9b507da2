--------------------------- MODULE MergeQueueProofs ---------------------------
(***************************************************************************)
(* What the merge queue promises while its processes take turns, for every *)
(* graph of work items, any number of processes and any bounds.            *)
(***************************************************************************)
EXTENDS MergeQueue, WellFoundedInduction, TLAPS

Changes == Work \X Attempts
Heads   == Seq(Changes)

EntryStates == {"pending", "blocked", "ready", "integrating", "integrated", "conflict"}
Whys        == {"none", "error", "authority", "text", "postapply", "semantic", "stale"}
EntryType   == [state : EntryStates, run : 0..MaxAttempts, source : BOOLEAN, why : Whys]
QueueType   == [head : Heads, entry : [Work -> EntryType]]
RunType     == [state : {"none", "running", "succeeded", "failed"}, base : Heads, changed : BOOLEAN]
Claiming    == {"claimed", "open", "source", "staged", "finish"}

StoreTypeOK ==
    /\ queue \in QueueType
    /\ run \in [Work -> [Attempts -> RunType]]
    /\ tree \in [branch : Heads, stage : SUBSET Changes]
    /\ worker \in [Work -> [head : Heads, dirty : 0..MaxAttempts, snapshot : 0..MaxAttempts]]
    /\ events \in [Work -> [count : Nat, prepared : Nat, superseded : SUBSET Attempts]]
    /\ report \in {"none", "verified", "failed"}

ProcTypeOK ==
    /\ plan \in [Procs -> [pc : {"idle", "read", "head", "planned"} \cup Claiming,
                           queue : QueueType]]
    /\ claim \in [Integrators -> [work : Work \cup {NoWork}, entry : EntryType, head : Heads]]
    /\ rescue \in [Rescuers -> [pc : {"idle", "decided", "checked", "reset"},
                                work : Work \cup {NoWork}, queue : QueueType,
                                kind : {"none", "retry_snapshot", "serial_rerun",
                                        "replan_required", "manual"},
                                attempt : Nat]]
    /\ verifier \in [pc : {"idle", "checked", "begun"}, queue : QueueType]

MergeTypeOK == StoreTypeOK /\ ProcTypeOK

(* A run that is under way is the last of its item, and only successful    *)
(* runs are superseded.                                                    *)
RunsInv ==
    \A w \in Work :
        /\ \A n, m \in Attempts :
              run[w][n].state = "running" /\ run[w][m].state # "none" => m <= n
        /\ \A n \in events[w].superseded : run[w][n].state = "succeeded"

Standing == {"ready"} \cup Kept

(* An entry that got as far as "ready" speaks of the item's effective,     *)
(* successful run, and the dependencies are integrated.                    *)
EntryFits(e, w) ==
    e.state \in Standing =>
        /\ e.run # 0 /\ e.run = Successful(w)
        /\ MissingIntegrations(queue, w) = {}

EntriesFit(q) == \A w \in Work : EntryFits(q.entry[w], w)

(* A computed queue keeps what the store keeps, and nothing else.          *)
PlanFits(p) ==
    /\ plan[p].pc \in {"read", "head"} =>
          /\ EntriesFit(plan[p].queue)
          /\ \A w \in Work :
                queue.entry[w].state \in Kept \/ plan[p].queue.entry[w].state \in Kept
                  => plan[p].queue.entry[w] = queue.entry[w]
    /\ plan[p].pc = "planned" => plan[p].queue = queue

(* The branch holds a work item's change only once its entry is reserved,  *)
(* and then no integrator is about to apply it.                            *)
BranchFits ==
    \A w \in Work, n \in Attempts : On(tree.branch, <<w, n>>) =>
        /\ queue.entry[w].state \in {"integrating", "integrated"}
        /\ queue.entry[w].run = n
        /\ \A i \in Integrators : claim[i].work = w =>
              plan[i].pc = "finish" /\ claim[i].entry.state = "integrated"

(* The work of an integrator at its entry, worktree and branch.            *)
ClaimFits(i) ==
    LET pc == plan[i].pc
        w  == claim[i].work
        n  == claim[i].entry.run
    IN  /\ pc \notin Claiming => w = NoWork
        /\ pc \in Claiming =>
              w \in Work /\ queue.entry[w].state = "integrating" /\ queue.entry[w].run = n
        /\ pc \in Claiming \ {"claimed"} => tree.branch = claim[i].head
        /\ pc \in {"open", "source"} => tree.stage = {}
        /\ pc = "staged" => tree.stage \subseteq {<<w, n>>}
        /\ pc = "finish" =>
              \/ claim[i].entry.state = "conflict"
              \/ /\ claim[i].entry.state = "integrated"
                 /\ On(tree.branch, <<w, n>>) \/ ~run[w][n].changed

(* What the last run changed is still in the worker's worktree, unless it  *)
(* was committed, superseded, or is about to be run again.                 *)
WorkerFits ==
    \A w \in Work, n \in Attempts :
        /\ n = LastOf(w, Attempts) /\ n \notin events[w].superseded
        /\ run[w][n].state = "succeeded" /\ run[w][n].changed
        /\ worker[w].snapshot = 0
        => \/ worker[w].dirty = n
           \/ queue.entry[w].state = "conflict" /\ queue.entry[w].why \in {"stale", "text"}

(* A rescuer at work decided on the queue as it is.                        *)
RescueFits(r) ==
    LET w == rescue[r].work IN
    rescue[r].pc # "idle" =>
        /\ w \in Work /\ rescue[r].queue = queue /\ queue.entry[w].state = "conflict"
        /\ rescue[r].attempt = Attempt(w)
        /\ rescue[r].kind \in {"retry_snapshot", "serial_rerun"} =>
              rescue[r].kind = Classify(queue.entry[w].why) /\ rescue[r].attempt <= MaxRepairs
        /\ rescue[r].pc = "checked" => rescue[r].kind = "serial_rerun"
        /\ rescue[r].pc = "reset" => rescue[r].kind \in {"retry_snapshot", "serial_rerun"}

RepairsCounted == \A w \in Work : events[w].prepared <= events[w].count

VerifierFits == verifier.pc # "idle" => Completed(verifier.queue)

MergeInv ==
    /\ MergeTypeOK /\ RunsInv /\ EntriesFit(queue)
    /\ \A p \in Procs : PlanFits(p)
    /\ BranchFits
    /\ \A i \in Integrators : ClaimFits(i)
    /\ WorkerFits
    /\ \A r \in Rescuers : RescueFits(r)
    /\ RepairsCounted /\ VerifierFits

-----------------------------------------------------------------------------
(* The last of a set of runs.                                              *)

LEMMA Minimum ==
    ASSUME NEW S \in SUBSET Nat, S # {}
    PROVE  \E n \in S : \A m \in S : n <= m
<1>1. PICK x \in S : \A y \in S : ~(<<y, x>> \in OpToRel(<, Nat))
  BY NatLessThanWellFounded, WFMin
<1>2. \A y \in S : ~(y < x)
  BY <1>1 DEF OpToRel
<1> QED
  BY <1>2

LEMMA Maximum ==
    ASSUME NEW N \in Nat, NEW S \in SUBSET (1..N), S # {}
    PROVE  \E n \in S : \A m \in S : m <= n
<1> DEFINE T == { k \in Nat : \A m \in S : m <= k }
<1>1. N \in T
  OBVIOUS
<1>2. PICK t \in T : \A u \in T : t <= u
  BY <1>1, Minimum
<1>3. CASE t \in S
  BY <1>3
<1>4. CASE t \notin S
  <2>1. PICK s \in S : TRUE
    OBVIOUS
  <2>2. t - 1 \in T
    BY <1>4, <2>1
  <2> QED
    BY <1>2, <2>2
<1> QED
  BY <1>3, <1>4

(* LastOf finds the greatest number of a run that has begun. *)
LEMMA LastOfIsLast ==
    ASSUME NEW w \in Work, NEW S \in SUBSET Attempts
    PROVE  /\ LastOf(w, S) \in {0} \cup S
           /\ LastOf(w, S) # 0 => run[w][LastOf(w, S)].state # "none"
           /\ \A m \in S : run[w][m].state # "none" => m <= LastOf(w, S)
<1> DEFINE begun == { n \in S : run[w][n].state # "none" }
<1>1. CASE begun = {}
  <2>1. LastOf(w, S) = 0
    BY <1>1 DEF LastOf
  <2> QED
    BY <1>1, <2>1
<1>2. CASE begun # {}
  <2>1. \E n \in begun : \A m \in begun : m <= n
    BY <1>2, Maximum, MergeAssumption DEF Attempts
  <2>2. LastOf(w, S) = CHOOSE n \in begun : \A m \in begun : m <= n
    BY <1>2 DEF LastOf
  <2> HIDE DEF begun
  <2>3. LastOf(w, S) \in begun /\ \A m \in begun : m <= LastOf(w, S)
    BY <2>1, <2>2
  <2> QED
    BY <2>3 DEF begun
<1> QED
  BY <1>1, <1>2

(* Successful picks a run that succeeded and was not superseded. *)
LEMMA SuccessfulRun ==
    ASSUME NEW w \in Work
    PROVE  /\ Effective(w) \in 0..MaxAttempts
           /\ Successful(w) \in 0..MaxAttempts
           /\ Successful(w) # 0 =>
                 /\ Successful(w) = Effective(w) /\ Successful(w) \in Attempts
                 /\ Successful(w) \notin events[w].superseded
                 /\ run[w][Successful(w)].state = "succeeded"
           /\ \A m \in Attempts \ events[w].superseded :
                 run[w][m].state # "none" => m <= Effective(w)
<1> DEFINE S == Attempts \ events[w].superseded
<1>1. /\ Effective(w) \in {0} \cup S
      /\ \A m \in S : run[w][m].state # "none" => m <= Effective(w)
  BY LastOfIsLast DEF Effective
<1>2. S \subseteq 0..MaxAttempts /\ 0 \in 0..MaxAttempts /\ 0 \notin Attempts
  BY MergeAssumption DEF Attempts
<1> QED
  BY <1>1, <1>2 DEF Successful

(* What is not touched keeps its effective run. *)
LEMMA SuccessfulStays ==
    ASSUME NEW w \in Work, run'[w] = run[w], events'[w].superseded = events[w].superseded
    PROVE  Successful(w)' = Successful(w)
BY DEF Successful, Effective, LastOf
-----------------------------------------------------------------------------
(* Types.                                                                  *)

LEMMA EmptyTypes ==
    /\ NoEntry \in EntryType /\ NoQueue \in QueueType
    /\ <<>> \in Heads
<1>1. 0 \in 0..MaxAttempts
  BY MergeAssumption
<1>2. <<>> \in Heads
  BY DEF Heads
<1> QED
  BY <1>1, <1>2 DEF NoEntry, NoQueue, EntryType, EntryStates, Whys, QueueType

LEMMA TypesInitially == MergeInit => MergeTypeOK
<1> SUFFICES ASSUME MergeInit PROVE MergeTypeOK
  OBVIOUS
<1>0. 0 \in 0..MaxAttempts
  BY MergeAssumption
<1>1. queue \in QueueType /\ report \in {"none", "verified", "failed"}
  BY EmptyTypes DEF MergeInit
<1>2. run \in [Work -> [Attempts -> RunType]]
  BY EmptyTypes DEF MergeInit, RunType
<1>3. /\ tree \in [branch : Heads, stage : SUBSET Changes]
      /\ worker \in [Work -> [head : Heads, dirty : 0..MaxAttempts, snapshot : 0..MaxAttempts]]
      /\ events \in [Work -> [count : Nat, prepared : Nat, superseded : SUBSET Attempts]]
  BY <1>0, EmptyTypes DEF MergeInit
<1>4. ProcTypeOK
  BY EmptyTypes DEF MergeInit, ProcTypeOK, NoPlan, NoClaim, NoRescue
<1> QED
  BY <1>1, <1>2, <1>3, <1>4 DEF MergeTypeOK, StoreTypeOK

(* compute_merge_queue yields entries. *)
LEMMA PlannedEntryType ==
    ASSUME NEW q \in QueueType, NEW w \in Work
    PROVE  PlannedEntry(q, w) \in EntryType
<1>1. q.entry[w] \in EntryType
  BY DEF QueueType
<1>2. Successful(w) \in 0..MaxAttempts
  BY SuccessfulRun
<1> QED
  BY <1>1, <1>2 DEF PlannedEntry, EntryType, EntryStates, Whys

(* A planned, reserved, finished or reopened entry is put into a queue. *)
LEMMA QueueWith ==
    ASSUME NEW q \in QueueType, NEW w \in Work, NEW e \in EntryType, NEW h \in Heads
    PROVE  [head |-> h, entry |-> [q.entry EXCEPT ![w] = e]] \in QueueType
BY DEF QueueType

LEMMA PlanStepTypes ==
    ASSUME MergeTypeOK, NEW p \in Procs,
           ReadStore(p) \/ ReadIntegrationHead(p) \/ SaveMergeQueue(p) \/ ProcCrash(p)
    PROVE  MergeTypeOK'
<1>1. CASE ReadStore(p)
  <2>1. [head |-> queue.head, entry |-> [w \in Work |-> PlannedEntry(queue, w)]] \in QueueType
    BY PlannedEntryType DEF MergeTypeOK, StoreTypeOK, QueueType
  <2> QED
    BY <1>1, <2>1 DEF ReadStore, MergeTypeOK, StoreTypeOK, ProcTypeOK
<1>2. CASE ReadIntegrationHead(p)
  <2>1. [head |-> tree.branch, entry |-> plan[p].queue.entry] \in QueueType
    BY DEF MergeTypeOK, StoreTypeOK, ProcTypeOK, QueueType
  <2> QED
    BY <1>2, <2>1 DEF ReadIntegrationHead, MergeTypeOK, StoreTypeOK, ProcTypeOK
<1>3. CASE SaveMergeQueue(p)
  BY <1>3, EmptyTypes DEF SaveMergeQueue, NoPlan, MergeTypeOK, StoreTypeOK, ProcTypeOK
<1>4. CASE ProcCrash(p)
  BY <1>4, EmptyTypes DEF ProcCrash, NoPlan, NoClaim, MergeTypeOK, StoreTypeOK, ProcTypeOK
<1> QED
  BY <1>1, <1>2, <1>3, <1>4

(* Where an integrator goes next, and what it will store. *)
LEMMA IntegratorTypes ==
    ASSUME MergeTypeOK, NEW i \in Integrators
    PROVE  /\ \A pc \in Claiming : GoTo(i, pc) => plan' \in [Procs ->
                [pc : {"idle", "read", "head", "planned"} \cup Claiming, queue : QueueType]]
           /\ \A e \in EntryType, h \in Heads, w \in Work \cup {NoWork} :
                claim' = [claim EXCEPT ![i] = [work |-> w, head |-> h, entry |-> e]]
                => claim' \in [Integrators ->
                     [work : Work \cup {NoWork}, entry : EntryType, head : Heads]]
           /\ claim[i].entry \in EntryType /\ claim[i].head \in Heads
           /\ claim[i].work \in Work \cup {NoWork}
           /\ \A s \in EntryStates, b \in BOOLEAN, y \in Whys :
                [state |-> s, run |-> claim[i].entry.run, source |-> b, why |-> y] \in EntryType
<1>1. claim[i] \in [work : Work \cup {NoWork}, entry : EntryType, head : Heads]
  BY DEF MergeTypeOK, ProcTypeOK
<1>2. \A pc \in Claiming : GoTo(i, pc) => plan' \in [Procs ->
         [pc : {"idle", "read", "head", "planned"} \cup Claiming, queue : QueueType]]
  BY EmptyTypes DEF MergeTypeOK, ProcTypeOK, GoTo, Procs
<1>3. \A e \in EntryType, h \in Heads, w \in Work \cup {NoWork} :
         claim' = [claim EXCEPT ![i] = [work |-> w, head |-> h, entry |-> e]]
         => claim' \in [Integrators -> [work : Work \cup {NoWork}, entry : EntryType, head : Heads]]
  BY DEF MergeTypeOK, ProcTypeOK
<1>4. claim[i].entry \in EntryType
  BY <1>1
<1>5. \A s \in EntryStates, b \in BOOLEAN, y \in Whys :
         [state |-> s, run |-> claim[i].entry.run, source |-> b, why |-> y] \in EntryType
  BY <1>4 DEF EntryType
<1> QED
  BY <1>1, <1>2, <1>3, <1>4, <1>5

LEMMA FinishingTypes ==
    ASSUME MergeTypeOK, NEW i \in Integrators, NEW s \in EntryStates, NEW b \in BOOLEAN,
           NEW y \in Whys, NEW h \in Heads, Finishing(i, s, b, y, h)
    PROVE  /\ plan' \in [Procs -> [pc : {"idle", "read", "head", "planned"} \cup Claiming,
                                   queue : QueueType]]
           /\ claim' \in [Integrators ->
                            [work : Work \cup {NoWork}, entry : EntryType, head : Heads]]
BY IntegratorTypes DEF Finishing, Claiming

LEMMA IntegratorStepTypes ==
    ASSUME MergeTypeOK, NEW i \in Integrators, IntegratorStep(i),
           plan[i].pc \in Claiming => ChangeOf(i) \in Changes
    PROVE  MergeTypeOK'
<1> DEFINE PlanType  == [Procs -> [pc : {"idle", "read", "head", "planned"} \cup Claiming,
                                   queue : QueueType]]
           ClaimType == [Integrators -> [work : Work \cup {NoWork}, entry : EntryType, head : Heads]]
<1>0. /\ i \in Procs
      /\ plan \in PlanType /\ claim \in ClaimType
      /\ claim[i].entry \in EntryType /\ claim[i].head \in Heads
      /\ claim[i].entry.source \in BOOLEAN
      /\ tree.branch \in Heads /\ tree.stage \in SUBSET Changes
  BY IntegratorTypes DEF MergeTypeOK, StoreTypeOK, ProcTypeOK, Procs, EntryType
<1>1. ASSUME plan' \in PlanType, claim' \in ClaimType, queue' \in QueueType,
             tree' \in [branch : Heads, stage : SUBSET Changes],
             worker' \in [Work -> [head : Heads, dirty : 0..MaxAttempts, snapshot : 0..MaxAttempts]],
             UNCHANGED <<run, events, rescue, verifier, report>>
      PROVE  MergeTypeOK'
  BY <1>1 DEF MergeTypeOK, StoreTypeOK, ProcTypeOK
<1>2. /\ queue \in QueueType /\ tree \in [branch : Heads, stage : SUBSET Changes]
      /\ worker \in [Work -> [head : Heads, dirty : 0..MaxAttempts, snapshot : 0..MaxAttempts]]
  BY DEF MergeTypeOK, StoreTypeOK
<1>3. [branch |-> claim[i].head, stage |-> {}] \in [branch : Heads, stage : SUBSET Changes]
  BY <1>0
<1>4. ASSUME NEW y \in Whys, Conflict(i, y) PROVE plan' \in PlanType /\ claim' \in ClaimType
  BY <1>0, <1>4, FinishingTypes DEF Conflict, EntryStates
<1>5. ASSUME NEW w \in Work, ClaimMergeEntry(i, w) PROVE MergeTypeOK'
  <2> DEFINE e == [plan[i].queue.entry[w] EXCEPT !.state = "integrating"]
  <2>1. e \in EntryType
    BY <1>0 DEF QueueType, EntryType, EntryStates
  <2>2. queue' = [head |-> queue.head, entry |-> [queue.entry EXCEPT ![w] = e]]
        /\ claim' = [claim EXCEPT ![i] = [work |-> w, entry |-> e, head |-> queue.head]]
        /\ GoTo(i, "claimed")
    BY <1>5 DEF ClaimMergeEntry
  <2> HIDE DEF e
  <2>3. queue' \in QueueType /\ claim' \in ClaimType
    BY <1>0, <1>2, <2>1, <2>2 DEF QueueType
  <2>4. plan' \in PlanType
    BY <2>2, IntegratorTypes DEF Claiming
  <2> QED
    BY <1>1, <1>2, <1>5, <2>3, <2>4 DEF ClaimMergeEntry
<1>6. CASE ClaimRefused(i)
  BY <1>0, <1>1, <1>2, <1>6, EmptyTypes DEF ClaimRefused, NoPlan
<1>7. CASE EnsureIntegrationWorktree(i)
  <2>1. CASE WorktreeUsable(i)
    <3>1. plan' \in PlanType
      BY <1>7, <2>1, IntegratorTypes DEF EnsureIntegrationWorktree, Claiming
    <3> QED
      BY <1>0, <1>1, <1>2, <1>7, <2>1, <3>1 DEF EnsureIntegrationWorktree
  <2>2. CASE ~WorktreeUsable(i)
    <3>1. /\ plan' = [plan EXCEPT ![i] = NoPlan] /\ claim' = [claim EXCEPT ![i] = NoClaim]
          /\ UNCHANGED <<queue, run, tree, worker, events, rescue, verifier, report>>
      BY <1>7, <2>2 DEF EnsureIntegrationWorktree
    <3>2. plan' \in PlanType /\ claim' \in ClaimType
      BY <1>0, <3>1, EmptyTypes DEF NoPlan, NoClaim
    <3> QED
      BY <1>1, <1>2, <3>1, <3>2
  <2> QED
    BY <2>1, <2>2
<1>8. CASE IntegrationError(i)
  <2>1. plan' \in PlanType /\ claim' \in ClaimType
    BY <1>4, <1>8 DEF IntegrationError, Whys
  <2>2. tree' \in [branch : Heads, stage : SUBSET Changes]
    BY <1>3, <1>8 DEF IntegrationError, RestoreWorktree
  <2> QED
    BY <1>1, <1>2, <1>8, <2>1, <2>2 DEF IntegrationError
<1>9. CASE SnapshotWorker(i)
  <2> DEFINE w == claim[i].work
  <2>1. CASE claim[i].entry.source /\ GoTo(i, "source") /\ UNCHANGED <<claim, worker>>
    <3>1. plan' \in PlanType
      BY <2>1, IntegratorTypes DEF Claiming
    <3> QED
      BY <1>0, <1>1, <1>2, <1>9, <2>1, <3>1 DEF SnapshotWorker
  <2>2. CASE Finishing(i, "integrated", FALSE, "none", claim[i].head) /\ UNCHANGED worker
    <3>1. plan' \in PlanType /\ claim' \in ClaimType
      BY <1>0, <2>2, FinishingTypes DEF EntryStates, Whys
    <3> QED
      BY <1>1, <1>2, <1>9, <2>2, <3>1 DEF SnapshotWorker
  <2>3. CASE /\ worker' = [worker EXCEPT ![w] =
                   [head |-> worker[w].head, dirty |-> 0, snapshot |-> worker[w].dirty]]
             /\ claim' = [claim EXCEPT ![i] = [work |-> w, head |-> claim[i].head,
                   entry |-> [claim[i].entry EXCEPT !.source = TRUE]]]
             /\ GoTo(i, "source")
    <3>1. plan' \in PlanType
      BY <2>3, IntegratorTypes DEF Claiming
    <3>2. [claim[i].entry EXCEPT !.source = TRUE] \in EntryType
      BY <1>0 DEF EntryType
    <3>3. claim' \in ClaimType
      BY <1>0, <2>3, <3>2, IntegratorTypes
    <3>4. worker' \in [Work -> [head : Heads, dirty : 0..MaxAttempts, snapshot : 0..MaxAttempts]]
      <4>1. 0 \in 0..MaxAttempts
        BY MergeAssumption
      <4>2. ASSUME w \in Work PROVE worker[w].head \in Heads /\ worker[w].dirty \in 0..MaxAttempts
        BY <1>2, <4>2
      <4> QED
        BY <1>2, <2>3, <4>1, <4>2
    <3> QED
      BY <1>1, <1>2, <1>9, <3>1, <3>3, <3>4 DEF SnapshotWorker
  <2> QED
    BY <1>9, <2>1, <2>2, <2>3 DEF SnapshotWorker
<1>10. CASE ApplySnapshot(i)
  <2>1. ASSUME NEW y \in Whys, Conflict(i, y), UNCHANGED tree \/ RestoreWorktree(i)
        PROVE  MergeTypeOK'
    BY <1>1, <1>2, <1>3, <1>4, <1>10, <2>1 DEF ApplySnapshot, RestoreWorktree
  <2>2. CASE /\ tree' = [branch |-> tree.branch,
                         stage |-> IF On(tree.branch, ChangeOf(i)) THEN tree.stage
                                   ELSE tree.stage \cup {ChangeOf(i)}]
             /\ GoTo(i, "staged") /\ UNCHANGED claim
    <3>1. plan' \in PlanType
      BY <2>2, IntegratorTypes DEF Claiming
    <3>2. ChangeOf(i) \in Changes
      BY <1>10 DEF ApplySnapshot, Claiming
    <3>3. tree' \in [branch : Heads, stage : SUBSET Changes]
      BY <1>0, <2>2, <3>2
    <3> QED
      BY <1>0, <1>1, <1>2, <1>10, <2>2, <3>1, <3>3 DEF ApplySnapshot
  <2> QED
    BY <1>10, <2>1, <2>2 DEF ApplySnapshot, Whys
<1>11. CASE CommitApplied(i)
  <2> DEFINE branch == Append(tree.branch, ChangeOf(i))
  <2>1. CASE tree' = [branch |-> branch, stage |-> {}] /\ Finishing(i, "integrated", TRUE, "none", branch)
    <3>1. ChangeOf(i) \in Changes
      BY <1>11 DEF CommitApplied, Claiming
    <3>2. branch \in Heads
      BY <1>0, <3>1 DEF Heads
    <3> HIDE DEF branch
    <3>3. plan' \in PlanType /\ claim' \in ClaimType
      BY <2>1, <3>2, FinishingTypes DEF EntryStates, Whys
    <3>4. tree' \in [branch : Heads, stage : SUBSET Changes]
      BY <2>1, <3>2
    <3> QED
      BY <1>1, <1>2, <1>11, <3>3, <3>4 DEF CommitApplied
  <2>2. ASSUME NEW y \in Whys, Conflict(i, y), RestoreWorktree(i) PROVE MergeTypeOK'
    BY <1>1, <1>2, <1>3, <1>4, <1>11, <2>2 DEF CommitApplied, RestoreWorktree
  <2> QED
    BY <1>11, <2>1, <2>2 DEF CommitApplied, Whys
<1>12. CASE FinishMergeEntry(i)
  <2>1. queue' \in QueueType
    BY <1>0, <1>2, <1>12 DEF FinishMergeEntry, QueueType
  <2>2. plan' \in PlanType /\ claim' \in ClaimType
    BY <1>0, <1>12, EmptyTypes DEF FinishMergeEntry, NoPlan, NoClaim
  <2> QED
    BY <1>1, <1>2, <1>12, <2>1, <2>2 DEF FinishMergeEntry
<1> QED
  BY <1>5, <1>6, <1>7, <1>8, <1>9, <1>10, <1>11, <1>12 DEF IntegratorStep

LEMMA RunStepTypes ==
    ASSUME MergeTypeOK, NEW w \in Work, NEW n \in Attempts,
           \/ LaunchRun(w, n)
           \/ \E s \in {"succeeded", "failed"}, c \in BOOLEAN : EndRun(w, n, s, c)
    PROVE  MergeTypeOK'
<1> DEFINE WorkerType == [Work -> [head : Heads, dirty : 0..MaxAttempts, snapshot : 0..MaxAttempts]]
<1>0. /\ run \in [Work -> [Attempts -> RunType]] /\ worker \in WorkerType
      /\ queue \in QueueType /\ queue.head \in Heads
      /\ 0 \in 0..MaxAttempts /\ n \in 0..MaxAttempts
  BY MergeAssumption DEF MergeTypeOK, StoreTypeOK, QueueType, Attempts
<1>1. ASSUME run' \in [Work -> [Attempts -> RunType]], worker' \in WorkerType,
             UNCHANGED <<queue, tree, events, plan, claim, rescue, verifier, report>>
      PROVE  MergeTypeOK'
  BY <1>1 DEF MergeTypeOK, StoreTypeOK, ProcTypeOK
<1>2. ASSUME NEW e \in RunType, run' = [run EXCEPT ![w] = [@ EXCEPT ![n] = e]]
      PROVE  run' \in [Work -> [Attempts -> RunType]]
  BY <1>0, <1>2
<1>3. CASE LaunchRun(w, n)
  <2>1. HeadOf(w) \in Heads
    <3>1. worker[w].head \in Heads /\ worker[w].snapshot \in 0..MaxAttempts
      BY <1>0
    <3>2. worker[w].snapshot # 0 => <<w, worker[w].snapshot>> \in Changes
      BY <3>1, MergeAssumption DEF Changes, Attempts
    <3> QED
      BY <3>1, <3>2 DEF HeadOf, Heads
  <2> DEFINE start == IF Deps[w] = {} THEN HeadOf(w) ELSE queue.head
             e     == [state |-> "running", base |-> start, changed |-> FALSE]
  <2>2. start \in Heads
    BY <1>0, <2>1
  <2>3. e \in RunType
    BY <2>2 DEF RunType
  <2>4. /\ run' = [run EXCEPT ![w] = [@ EXCEPT ![n] = e]]
        /\ worker' = [worker EXCEPT ![w] =
                        [head |-> start, dirty |-> worker[w].dirty, snapshot |-> 0]]
        /\ UNCHANGED <<queue, tree, events, plan, claim, rescue, verifier, report>>
    BY <1>3 DEF LaunchRun
  <2> HIDE DEF e, start
  <2>5. worker' \in WorkerType
    BY <1>0, <2>2, <2>4
  <2> QED
    BY <1>1, <1>2, <2>3, <2>4, <2>5
<1>4. ASSUME NEW s \in {"succeeded", "failed"}, NEW c \in BOOLEAN, EndRun(w, n, s, c)
      PROVE  MergeTypeOK'
  <2> DEFINE e == [state |-> s, base |-> run[w][n].base, changed |-> s = "succeeded" /\ c]
  <2>1. e \in RunType
    BY <1>0 DEF RunType
  <2>2. /\ run' = [run EXCEPT ![w] = [@ EXCEPT ![n] = e]]
        /\ worker' = [worker EXCEPT ![w] =
              [head |-> worker[w].head, snapshot |-> worker[w].snapshot,
               dirty |-> IF s = "succeeded" /\ c THEN n ELSE 0]]
        /\ UNCHANGED <<queue, tree, events, plan, claim, rescue, verifier, report>>
    BY <1>4 DEF EndRun
  <2> HIDE DEF e
  <2>3. worker' \in WorkerType
    BY <1>0, <2>2
  <2> QED
    BY <1>1, <1>2, <2>1, <2>2, <2>3
<1> QED
  BY <1>3, <1>4

LEMMA RescueStepTypes ==
    ASSUME MergeTypeOK, EntriesFit(queue), NEW r \in Rescuers, RescueFits(r), RescueStep(r)
    PROVE  MergeTypeOK'
<1> DEFINE RescueRow  == [pc : {"idle", "decided", "checked", "reset"},
                          work : Work \cup {NoWork}, queue : QueueType,
                          kind : {"none", "retry_snapshot", "serial_rerun",
                                  "replan_required", "manual"},
                          attempt : Nat]
           EventsType == [Work -> [count : Nat, prepared : Nat, superseded : SUBSET Attempts]]
           WorkerType == [Work -> [head : Heads, dirty : 0..MaxAttempts, snapshot : 0..MaxAttempts]]
<1>0. /\ queue \in QueueType /\ events \in EventsType /\ worker \in WorkerType
      /\ rescue \in [Rescuers -> RescueRow] /\ NoRescue \in RescueRow /\ 0 \in 0..MaxAttempts
  BY EmptyTypes, MergeAssumption DEF MergeTypeOK, StoreTypeOK, ProcTypeOK, NoRescue
<1>1. ASSUME rescue' \in [Rescuers -> RescueRow], queue' \in QueueType, events' \in EventsType,
             worker' \in WorkerType, UNCHANGED <<run, tree, plan, claim, verifier, report>>
      PROVE  MergeTypeOK'
  BY <1>1 DEF MergeTypeOK, StoreTypeOK, ProcTypeOK
<1>2. EndRescue(r) => rescue' \in [Rescuers -> RescueRow]
  BY <1>0 DEF EndRescue
<1>3. \A n \in Nat : Counted(n) \in Nat
  BY DEF Counted
<1>4. ASSUME NEW w \in Work, PlanRescue(r, w) PROVE MergeTypeOK'
  <2>1. Attempt(w) \in Nat
    BY <1>0 DEF Attempt
  <2>2. Classify(queue.entry[w].why) \in {"retry_snapshot", "serial_rerun", "replan_required", "manual"}
    BY DEF Classify
  <2>3. rescue' \in [Rescuers -> RescueRow]
    BY <1>0, <1>4, <2>1, <2>2 DEF PlanRescue
  <2> QED
    BY <1>0, <1>1, <1>4, <2>3 DEF PlanRescue
<1>5. CASE RecordDecision(r)
  <2>1. events' \in EventsType
    BY <1>0, <1>3, <1>5 DEF RecordDecision
  <2> QED
    BY <1>0, <1>1, <1>2, <1>5, <2>1 DEF RecordDecision
<1>6. CASE CheckDecision(r)
  <2>0. rescue[r] \in RescueRow
    BY <1>0
  <2>1. rescue' \in [Rescuers -> RescueRow]
    <3> DEFINE pc == IF rescue[r].kind = "serial_rerun" THEN "checked" ELSE "reset"
    <3>1. EndRescue(r) \/ rescue' = [rescue EXCEPT ![r] = [rescue[r] EXCEPT !.pc = pc]]
      BY <1>6 DEF CheckDecision
    <3>2. pc \in {"checked", "reset"}
      OBVIOUS
    <3> HIDE DEF pc
    <3>3. [rescue[r] EXCEPT !.pc = pc] \in RescueRow
      BY <2>0, <3>2
    <3> QED
      BY <1>0, <1>2, <3>1, <3>3
  <2> QED
    BY <1>0, <1>1, <1>6, <2>1 DEF CheckDecision
<1>7. CASE ResetManagedWorker(r)
  <2>1. rescue' \in [Rescuers -> RescueRow]
    <3>1. EndRescue(r) \/ rescue' = [rescue EXCEPT ![r] = [rescue[r] EXCEPT !.pc = "reset"]]
      BY <1>7 DEF ResetManagedWorker
    <3>2. rescue[r] \in RescueRow
      BY <1>0
    <3>3. [rescue[r] EXCEPT !.pc = "reset"] \in RescueRow
      BY <3>2
    <3> QED
      BY <1>0, <1>2, <3>1, <3>3
  <2>2. rescue[r].queue.head \in Heads
    BY <1>0 DEF QueueType
  <2>3. worker' \in WorkerType
    BY <1>0, <1>7, <2>2 DEF ResetManagedWorker
  <2> QED
    BY <1>0, <1>1, <1>7, <2>1, <2>3 DEF ResetManagedWorker
<1>8. CASE ApplyMergeRescue(r)
  <2> DEFINE w == rescue[r].work
             e == [state |-> "ready", run |-> queue.entry[w].run,
                   source |-> queue.entry[w].source, why |-> "none"]
  <2>1. /\ w \in Work /\ queue.entry[w] \in EntryType /\ queue.entry[w].run \in Attempts
    <3>1. w \in Work /\ queue.entry[w].state = "conflict"
      BY <1>8 DEF ApplyMergeRescue, RescueFits
    <3>2. queue.entry[w] \in EntryType /\ queue.entry[w].run # 0
      BY <1>0, <3>1 DEF EntriesFit, EntryFits, Standing, Kept, QueueType
    <3> QED
      BY <3>1, <3>2, MergeAssumption DEF EntryType, Attempts
  <2>2. e \in EntryType
    BY <2>1 DEF EntryType, EntryStates, Whys
  <2>3. \/ UNCHANGED <<queue, events>>
        \/ /\ \/ queue' = [head |-> queue.head, entry |-> [queue.entry EXCEPT ![w] = NoEntry]]
              \/ queue' = [head |-> queue.head, entry |-> [queue.entry EXCEPT ![w] = e]]
           /\ events' = [events EXCEPT ![w] =
                [count |-> Counted(events[w].count), prepared |-> Counted(events[w].prepared),
                 superseded |-> IF rescue[r].kind = "serial_rerun"
                                THEN events[w].superseded \cup {queue.entry[w].run}
                                ELSE events[w].superseded]]
    BY <1>8 DEF ApplyMergeRescue
  <2> HIDE DEF e
  <2>4. queue' \in QueueType
    <3>1. \A x \in EntryType :
             [head |-> queue.head, entry |-> [queue.entry EXCEPT ![w] = x]] \in QueueType
      BY <1>0 DEF QueueType
    <3> QED
      BY <1>0, <2>2, <2>3, <3>1, EmptyTypes
  <2>5. events' \in EventsType
    BY <1>0, <1>3, <2>1, <2>3
  <2> QED
    BY <1>0, <1>1, <1>2, <1>8, <2>4, <2>5 DEF ApplyMergeRescue
<1>9. CASE RescueCrash(r)
  BY <1>0, <1>1, <1>2, <1>9 DEF RescueCrash
<1> QED
  BY <1>4, <1>5, <1>6, <1>7, <1>8, <1>9 DEF RescueStep

LEMMA VerifierStepTypes ==
    ASSUME MergeTypeOK, VerifierStep
    PROVE  MergeTypeOK'
<1>1. NoPlan \in [pc : {"idle", "checked", "begun"}, queue : QueueType]
  BY EmptyTypes DEF NoPlan
<1>2. verifier' \in [pc : {"idle", "checked", "begun"}, queue : QueueType]
  <2>1. CASE CheckQueue
    BY <2>1 DEF CheckQueue, MergeTypeOK, StoreTypeOK
  <2>2. CASE BeginVerification
    BY <1>1, <2>2 DEF BeginVerification, MergeTypeOK, ProcTypeOK
  <2>3. CASE VerifierCrash \/ \E result \in {"verified", "failed"} : SaveVerification(result)
    BY <1>1, <2>3 DEF VerifierCrash, SaveVerification
  <2> QED
    BY <2>1, <2>2, <2>3 DEF VerifierStep
<1>3. report' \in {"none", "verified", "failed"}
  BY DEF VerifierStep, CheckQueue, BeginVerification, VerifierCrash, SaveVerification,
         MergeTypeOK, StoreTypeOK
<1>4. UNCHANGED <<queue, run, tree, worker, events, plan, claim, rescue>>
  BY DEF VerifierStep, CheckQueue, BeginVerification, VerifierCrash, SaveVerification
<1> QED
  BY <1>2, <1>3, <1>4 DEF MergeTypeOK, StoreTypeOK, ProcTypeOK
-----------------------------------------------------------------------------
(* What steps leave alone.                                                 *)

LEMMA FitsInitially == MergeInit => MergeInv
<1> SUFFICES ASSUME MergeInit PROVE MergeInv
  OBVIOUS
<1>1. /\ \A w \in Work : queue.entry[w].state = "pending"
      /\ \A p \in Procs : plan[p].pc = "idle"
      /\ \A i \in Integrators : claim[i].work = NoWork /\ plan[i].pc = "idle"
      /\ \A r \in Rescuers : rescue[r].pc = "idle"
      /\ verifier.pc = "idle"
  BY DEF MergeInit, NoQueue, NoEntry, NoPlan, NoClaim, NoRescue, Procs
<1>2. RunsInv
  BY DEF MergeInit, RunsInv
<1>3. EntriesFit(queue)
  BY <1>1 DEF EntriesFit, EntryFits, Standing, Kept
<1>4. \A p \in Procs : PlanFits(p)
  BY <1>1 DEF PlanFits
<1>5. BranchFits
  BY DEF MergeInit, BranchFits, On
<1>6. \A i \in Integrators : ClaimFits(i)
  BY <1>1 DEF ClaimFits, Claiming
<1>7. WorkerFits
  BY DEF MergeInit, WorkerFits
<1>8. (\A r \in Rescuers : RescueFits(r)) /\ VerifierFits
  BY <1>1 DEF RescueFits, VerifierFits
<1>9. RepairsCounted
  BY DEF MergeInit, RepairsCounted
<1> QED
  BY <1>2, <1>3, <1>4, <1>5, <1>6, <1>7, <1>8, <1>9, TypesInitially DEF MergeInv

(* An entry fits as long as its item's runs and the integrated entries stay. *)
LEMMA EntryStays ==
    ASSUME NEW w \in Work, NEW e, EntryFits(e, w),
           run'[w] = run[w], events'[w].superseded = events[w].superseded,
           \A d \in Work : queue.entry[d].state = "integrated" => queue'.entry[d].state = "integrated"
    PROVE  e.state \in Standing =>
              /\ e.run # 0 /\ e.run = Successful(w)'
              /\ MissingIntegrations(queue, w)' = {}
BY SuccessfulStays, MergeAssumption DEF EntryFits, MissingIntegrations

(* What is in the workers stays accounted for while conflicts stay. *)
LEMMA WorkerStays ==
    ASSUME WorkerFits, UNCHANGED <<run, worker, events>>,
           \A w \in Work : queue.entry[w].state = "conflict" => queue'.entry[w] = queue.entry[w]
    PROVE  WorkerFits'
<1> SUFFICES ASSUME NEW w \in Work, NEW n \in Attempts,
                    n = LastOf(w, Attempts)', n \notin events[w].superseded,
                    run[w][n].state = "succeeded", run[w][n].changed, worker[w].snapshot = 0
             PROVE  \/ worker[w].dirty = n
                    \/ queue'.entry[w].state = "conflict" /\ queue'.entry[w].why \in {"stale", "text"}
  BY DEF WorkerFits
<1>1. n = LastOf(w, Attempts)
  BY DEF LastOf
<1> QED
  BY <1>1 DEF WorkerFits

(* Steps that change neither queue, runs, workers nor rescue events. *)
LEMMA StoreStays ==
    ASSUME RunsInv, EntriesFit(queue), WorkerFits, RepairsCounted,
           UNCHANGED <<queue, run, worker, events>>
    PROVE  RunsInv' /\ EntriesFit(queue)' /\ WorkerFits' /\ RepairsCounted'
<1>1. EntriesFit(queue)'
  BY EntryStays DEF EntriesFit, EntryFits
<1>2. WorkerFits'
  BY DEF WorkerFits, LastOf
<1> QED
  BY <1>1, <1>2 DEF RunsInv, RepairsCounted

(* A process at work is alone. *)
LEMMA Alone ==
    ASSUME OneOperator, NEW p \in Procs, plan[p].pc # "idle"
    PROVE  /\ \A q \in Procs : q # p => plan[q].pc = "idle"
           /\ \A r \in Rescuers : rescue[r].pc = "idle"
BY DEF OneOperator

LEMMA AloneNext ==
    ASSUME OneOperator', NEW p \in Procs, plan'[p].pc # "idle"
    PROVE  /\ \A q \in Procs : q # p => plan'[q].pc = "idle"
           /\ \A r \in Rescuers : rescue'[r].pc = "idle"
BY DEF OneOperator

(* What an integrator is working on. *)
LEMMA ClaimedWork ==
    ASSUME MergeInv, NEW i \in Integrators, plan[i].pc \in Claiming
    PROVE  /\ claim[i].work \in Work /\ claim[i].entry.run \in Attempts
           /\ ChangeOf(i) \in Changes
           /\ queue.entry[claim[i].work].state = "integrating"
           /\ queue.entry[claim[i].work].run = claim[i].entry.run
           /\ claim[i].entry.run = Successful(claim[i].work)
           /\ MissingIntegrations(queue, claim[i].work) = {}
<1> DEFINE w == claim[i].work
<1>1. /\ w \in Work /\ queue.entry[w].state = "integrating"
      /\ queue.entry[w].run = claim[i].entry.run
  BY DEF MergeInv, ClaimFits
<1>2. /\ claim[i].entry.run # 0 /\ claim[i].entry.run = Successful(w)
      /\ MissingIntegrations(queue, w) = {}
  BY <1>1 DEF MergeInv, EntriesFit, EntryFits, Standing, Kept
<1>3. claim[i].entry.run \in Attempts
  BY <1>1, <1>2, SuccessfulRun
<1> QED
  BY <1>1, <1>2, <1>3 DEF ChangeOf, Changes

-----------------------------------------------------------------------------
(* Planning.                                                               *)

LEMMA PlanStepFits ==
    ASSUME MergeInv, OneOperator, OneOperator', MergeTypeOK', NEW p \in Procs,
           ReadStore(p) \/ ReadIntegrationHead(p) \/ ProcCrash(p)
    PROVE  MergeInv'
<1>1. RunsInv' /\ EntriesFit(queue)' /\ WorkerFits' /\ RepairsCounted' /\ VerifierFits'
  <2>1. UNCHANGED <<queue, run, worker, events, verifier>>
    BY DEF ReadStore, ReadIntegrationHead, ProcCrash
  <2> QED
    BY <2>1, StoreStays DEF MergeInv, VerifierFits
<1>2. plan \in [Procs -> [pc : {"idle", "read", "head", "planned"} \cup Claiming, queue : QueueType]]
  BY DEF MergeInv, MergeTypeOK, ProcTypeOK
<1>3. CASE ReadStore(p) \/ ReadIntegrationHead(p)
  <2>1. /\ plan'[p].pc \in {"read", "head"} /\ plan[p].pc \in {"idle", "read"}
        /\ \A q \in Procs : q # p => plan'[q] = plan[q]
        /\ UNCHANGED <<queue, run, tree, worker, events, claim, rescue, verifier, report>>
    BY <1>2, <1>3 DEF ReadStore, ReadIntegrationHead
  <2>2. /\ \A q \in Procs : q # p => plan'[q].pc = "idle"
        /\ \A r \in Rescuers : rescue'[r].pc = "idle"
    BY <2>1, AloneNext
  <2>3. ASSUME NEW w \in Work
        PROVE  /\ EntryFits(plan'[p].queue.entry[w], w)
               /\ \/ queue.entry[w].state \in Kept
                  \/ plan'[p].queue.entry[w].state \in Kept
                  => plan'[p].queue.entry[w] = queue.entry[w]
    <3>1. CASE ReadStore(p)
      <4>1. plan'[p].queue.entry[w] = PlannedEntry(queue, w)
        BY <1>2, <3>1 DEF ReadStore
      <4>2. EntryFits(queue.entry[w], w)
        BY DEF MergeInv, EntriesFit
      <4>3. CASE queue.entry[w].state \in Kept
        BY <4>1, <4>2, <4>3 DEF PlannedEntry
      <4>4. CASE queue.entry[w].state \notin Kept
        <5> DEFINE e == PlannedEntry(queue, w)
        <5>1. /\ e.run = Successful(w) /\ e.state \in {"pending", "blocked", "ready"}
              /\ e.state = "ready" => Successful(w) # 0 /\ MissingIntegrations(queue, w) = {}
          BY <4>4 DEF PlannedEntry
        <5> QED
          BY <4>1, <4>4, <5>1 DEF EntryFits, Standing, Kept
      <4> QED
        BY <4>3, <4>4
    <3>2. CASE ReadIntegrationHead(p)
      <4>1. plan'[p].queue.entry = plan[p].queue.entry /\ plan[p].pc = "read"
        BY <1>2, <3>2 DEF ReadIntegrationHead
      <4> QED
        BY <4>1 DEF MergeInv, PlanFits, EntriesFit
    <3> QED
      BY <1>3, <3>1, <3>2
  <2>4. ASSUME NEW q \in Procs PROVE PlanFits(q)'
    <3>1. CASE q = p
      <4>1. \A w \in Work : EntryFits(plan[p].queue.entry[w], w)'
        BY <2>1, <2>3, EntryStays DEF EntryFits
      <4> QED
        BY <2>1, <2>3, <3>1, <4>1 DEF PlanFits, EntriesFit
    <3>2. CASE q # p
      BY <2>2, <3>2 DEF PlanFits
    <3> QED
      BY <3>1, <3>2
  <2>5. BranchFits'
    BY <2>1 DEF MergeInv, BranchFits, Procs
  <2>6. ASSUME NEW i \in Integrators PROVE ClaimFits(i)'
    BY <2>1 DEF MergeInv, ClaimFits, Claiming, Procs
  <2>7. \A r \in Rescuers : RescueFits(r)'
    BY <2>2 DEF RescueFits
  <2> QED
    BY <1>1, <2>4, <2>5, <2>6, <2>7 DEF MergeInv
<1>4. CASE ProcCrash(p)
  <2>1. /\ plan'[p].pc = "idle" /\ \A q \in Procs : q # p => plan'[q] = plan[q]
        /\ \A i \in Integrators : claim'[i] = IF i = p THEN NoClaim ELSE claim[i]
        /\ UNCHANGED <<queue, run, tree, worker, events, rescue, verifier, report>>
    BY <1>2, <1>4 DEF ProcCrash, NoPlan
  <2>2. /\ \A q \in Procs : plan'[q].pc = "idle"
        /\ \A r \in Rescuers : rescue'[r].pc = "idle"
    BY <1>4, <2>1, Alone DEF ProcCrash
  <2>3. \A i \in Integrators : claim'[i].work = NoWork
    <3> SUFFICES ASSUME NEW i \in Integrators PROVE claim'[i].work = NoWork
      OBVIOUS
    <3>1. i \in Procs /\ ClaimFits(i)
      BY DEF MergeInv, Procs
    <3> QED
      BY <2>1, <2>2, <3>1 DEF ClaimFits, NoClaim, Claiming
  <2>4. \A q \in Procs : PlanFits(q)'
    BY <2>2 DEF PlanFits
  <2>5. BranchFits'
    BY <2>1, <2>3, MergeAssumption DEF MergeInv, BranchFits
  <2>6. \A i \in Integrators : ClaimFits(i)'
    BY <2>2, <2>3 DEF ClaimFits, Claiming, Procs
  <2>7. \A r \in Rescuers : RescueFits(r)'
    BY <2>2 DEF RescueFits
  <2> QED
    BY <1>1, <2>4, <2>5, <2>6, <2>7 DEF MergeInv
<1> QED
  BY <1>3, <1>4

LEMMA SaveFits ==
    ASSUME MergeInv, OneOperator, MergeTypeOK', NEW p \in Procs, SaveMergeQueue(p)
    PROVE  MergeInv'
<1>1. /\ plan[p].pc = "head" /\ queue' = plan[p].queue
      /\ plan'[p] = [pc |-> "planned", queue |-> plan[p].queue] \/ plan'[p].pc = "idle"
      /\ \A q \in Procs : q # p => plan'[q] = plan[q]
      /\ UNCHANGED <<run, tree, worker, events, claim, rescue, verifier, report>>
  BY DEF SaveMergeQueue, NoPlan, MergeInv, MergeTypeOK, ProcTypeOK
<1>2. /\ \A q \in Procs : q # p => plan[q].pc = "idle" /\ plan'[q].pc = "idle"
      /\ \A r \in Rescuers : rescue'[r].pc = "idle"
  BY <1>1, Alone
<1>3. \A w \in Work :
         /\ EntryFits(queue'.entry[w], w)
         /\ queue.entry[w].state \in Kept \/ queue'.entry[w].state \in Kept
               => queue'.entry[w] = queue.entry[w]
  BY <1>1 DEF MergeInv, PlanFits, EntriesFit
<1>4. EntriesFit(queue)'
  BY <1>1, <1>3, EntryStays DEF EntriesFit, EntryFits, Kept
<1>5. WorkerFits'
  BY <1>1, <1>3, WorkerStays DEF MergeInv, Kept
<1>6. RunsInv' /\ RepairsCounted' /\ VerifierFits'
  BY <1>1 DEF MergeInv, RunsInv, RepairsCounted, VerifierFits
<1>7. \A q \in Procs : PlanFits(q)'
  BY <1>1, <1>2 DEF PlanFits
<1>8. \A i \in Integrators : claim[i].work = NoWork /\ plan'[i].pc \notin Claiming
  <2> SUFFICES ASSUME NEW i \in Integrators
               PROVE  claim[i].work = NoWork /\ plan'[i].pc \notin Claiming
    OBVIOUS
  <2>1. i \in Procs /\ ClaimFits(i)
    BY DEF MergeInv, Procs
  <2> QED
    BY <1>1, <1>2, <2>1 DEF ClaimFits, Claiming
<1>9. BranchFits'
  BY <1>1, <1>3, <1>8, MergeAssumption DEF MergeInv, BranchFits, Kept
<1>10. \A i \in Integrators : ClaimFits(i)'
  BY <1>1, <1>8 DEF ClaimFits, Claiming
<1>11. \A r \in Rescuers : RescueFits(r)'
  BY <1>2 DEF RescueFits
<1> QED
  BY <1>4, <1>5, <1>6, <1>7, <1>9, <1>10, <1>11 DEF MergeInv

-----------------------------------------------------------------------------
(* Integrating.                                                            *)

(* What remains to be shown of a step of one integrator. *)
LEMMA IntegratorFrame ==
    ASSUME MergeInv, OneOperator, MergeTypeOK', NEW i \in Integrators,
           plan[i].pc # "idle", plan'[i].pc \in Claiming \cup {"idle"},
           \A q \in Procs : q # i => plan'[q] = plan[q],
           \A j \in Integrators : j # i => claim'[j] = claim[j],
           UNCHANGED <<run, events, rescue, verifier>>,
           EntriesFit(queue)', WorkerFits', BranchFits', ClaimFits(i)'
    PROVE  MergeInv'
<1>0. i \in Procs
  BY DEF Procs
<1>1. /\ \A q \in Procs : q # i => plan'[q].pc = "idle" /\ plan[q].pc = "idle"
      /\ \A r \in Rescuers : rescue'[r].pc = "idle"
  BY <1>0, Alone
<1>2. RunsInv' /\ RepairsCounted' /\ VerifierFits'
  BY DEF MergeInv, RunsInv, RepairsCounted, VerifierFits
<1>3. \A q \in Procs : PlanFits(q)'
  BY <1>1 DEF PlanFits, Claiming
<1>4. ASSUME NEW j \in Integrators, j # i PROVE ClaimFits(j)'
  <2>1. j \in Procs /\ ClaimFits(j)
    BY DEF MergeInv, Procs
  <2> QED
    BY <1>1, <1>4, <2>1 DEF ClaimFits, Claiming
<1>5. \A r \in Rescuers : RescueFits(r)'
  BY <1>1 DEF RescueFits
<1> QED
  BY <1>2, <1>3, <1>4, <1>5 DEF MergeInv

(* Nothing of the item that is being integrated is on the branch yet. *)
LEMMA ClaimUnpublished ==
    ASSUME MergeInv, NEW i \in Integrators, plan[i].pc \in Claiming \ {"finish"}
    PROVE  \A n \in Attempts : ~On(tree.branch, <<claim[i].work, n>>)
BY ClaimedWork DEF MergeInv, BranchFits

(* Steps at the claimed entry that leave store and branch alone. *)
LEMMA BranchStays ==
    ASSUME MergeInv, NEW i \in Integrators,
           plan[i].pc \in Claiming \ {"finish"} \/ claim[i].work = NoWork,
           claim'[i].work \in {claim[i].work, NoWork},
           \A q \in Procs : q # i => plan'[q] = plan[q],
           \A j \in Integrators : j # i => claim'[j] = claim[j],
           UNCHANGED queue, tree'.branch = tree.branch
    PROVE  BranchFits'
<1> SUFFICES ASSUME NEW w \in Work, NEW n \in Attempts, On(tree.branch, <<w, n>>)
             PROVE  /\ queue.entry[w].state \in {"integrating", "integrated"}
                    /\ queue.entry[w].run = n
                    /\ \A j \in Integrators : claim'[j].work = w =>
                          plan'[j].pc = "finish" /\ claim'[j].entry.state = "integrated"
  BY DEF BranchFits
<1>1. /\ queue.entry[w].state \in {"integrating", "integrated"}
      /\ queue.entry[w].run = n
      /\ \A j \in Integrators : claim[j].work = w =>
            plan[j].pc = "finish" /\ claim[j].entry.state = "integrated"
  BY DEF MergeInv, BranchFits
<1>2. claim'[i].work # w
  BY ClaimUnpublished, MergeAssumption
<1> QED
  BY <1>1, <1>2 DEF Procs

LEMMA ClaimStepFits ==
    ASSUME MergeInv, OneOperator, MergeTypeOK', NEW i \in Integrators,
           (\E w \in Work : ClaimMergeEntry(i, w)) \/ ClaimRefused(i)
    PROVE  MergeInv'
<1>0. /\ i \in Procs
      /\ plan \in [Procs -> [pc : {"idle", "read", "head", "planned"} \cup Claiming, queue : QueueType]]
      /\ claim \in [Integrators -> [work : Work \cup {NoWork}, entry : EntryType, head : Heads]]
      /\ queue \in QueueType /\ ClaimFits(i)
  BY DEF MergeInv, MergeTypeOK, StoreTypeOK, ProcTypeOK, Procs
<1>1. ASSUME NEW w \in Work, ClaimMergeEntry(i, w) PROVE MergeInv'
  <2> DEFINE e == [plan[i].queue.entry[w] EXCEPT !.state = "integrating"]
  <2>1. /\ plan[i].pc = "planned" /\ plan[i].queue = queue /\ queue.entry[w].state = "ready"
        /\ queue' = [head |-> queue.head, entry |-> [queue.entry EXCEPT ![w] = e]]
        /\ claim' = [claim EXCEPT ![i] = [work |-> w, entry |-> e, head |-> queue.head]]
        /\ plan' = [plan EXCEPT ![i] = [pc |-> "claimed", queue |-> NoQueue]]
        /\ UNCHANGED <<run, tree, worker, events, rescue, verifier, report>>
    BY <1>1 DEF ClaimMergeEntry, ReadyWork, GoTo
  <2>2. e.state = "integrating" /\ e.run = queue.entry[w].run
    BY <1>0, <2>1 DEF QueueType, EntryType
  <2> HIDE DEF e
  <2>3. /\ plan'[i].pc = "claimed" /\ \A q \in Procs : q # i => plan'[q] = plan[q]
        /\ claim'[i].work = w /\ claim'[i].entry = e
        /\ \A j \in Integrators : j # i => claim'[j] = claim[j]
        /\ queue'.entry[w] = e /\ \A v \in Work : v # w => queue'.entry[v] = queue.entry[v]
    BY <1>0, <2>1 DEF QueueType
  <2>4. EntriesFit(queue)'
    <3> SUFFICES ASSUME NEW v \in Work PROVE EntryFits(queue.entry[v], v)'
      BY DEF EntriesFit
    <3>1. EntryFits(queue.entry[v], v)
      BY DEF MergeInv, EntriesFit
    <3>2. queue.entry[v].state \in Standing =>
             /\ queue.entry[v].run # 0 /\ queue.entry[v].run = Successful(v)'
             /\ MissingIntegrations(queue, v)' = {}
      BY <2>1, <2>3, <3>1, EntryStays
    <3> QED
      BY <2>1, <2>2, <2>3, <3>2 DEF EntryFits, Standing, Kept
  <2>5. WorkerFits'
    BY <2>1, <2>3, WorkerStays DEF MergeInv
  <2>6. BranchFits'
    <3>1. \A j \in Integrators : j # i => claim[j].work = NoWork
      <4> SUFFICES ASSUME NEW j \in Integrators, j # i PROVE claim[j].work = NoWork
        OBVIOUS
      <4>1. j \in Procs /\ ClaimFits(j) /\ plan[j].pc = "idle"
        BY <1>0, <2>1, Alone DEF MergeInv, Procs
      <4> QED
        BY <4>1 DEF ClaimFits, Claiming
    <3>2. \A n \in Attempts : ~On(tree.branch, <<w, n>>)
      BY <2>1 DEF MergeInv, BranchFits
    <3> QED
      BY <2>1, <2>3, <3>1, <3>2, MergeAssumption DEF MergeInv, BranchFits
  <2>7. ClaimFits(i)'
    BY <2>2, <2>3 DEF ClaimFits, Claiming
  <2> QED
    BY <2>1, <2>3, <2>4, <2>5, <2>6, <2>7, IntegratorFrame DEF Claiming
<1>2. CASE ClaimRefused(i)
  <2>1. /\ plan[i].pc = "planned" /\ plan'[i].pc = "idle"
        /\ \A q \in Procs : q # i => plan'[q] = plan[q]
        /\ UNCHANGED <<queue, run, tree, worker, events, claim, rescue, verifier, report>>
    BY <1>0, <1>2 DEF ClaimRefused, NoPlan
  <2>2. claim[i].work = NoWork
    BY <1>0, <2>1 DEF ClaimFits, Claiming
  <2>3. EntriesFit(queue)' /\ WorkerFits'
    BY <2>1, StoreStays DEF MergeInv
  <2>4. BranchFits'
    BY <2>1, <2>2, BranchStays
  <2>5. ClaimFits(i)'
    BY <2>1, <2>2 DEF ClaimFits, Claiming
  <2> QED
    BY <2>1, <2>3, <2>4, <2>5, IntegratorFrame
<1> QED
  BY <1>1, <1>2
(* The entry and the branch an integrator is about to finish with. *)
LEMMA FinishingFits ==
    ASSUME MergeInv, NEW i \in Integrators, plan[i].pc \in Claiming,
           NEW s, NEW b, NEW y, NEW h, Finishing(i, s, b, y, h),
           UNCHANGED <<queue, run>>, tree'.branch = h,
           \/ s = "conflict"
           \/ s = "integrated" /\ (\/ On(tree'.branch, ChangeOf(i))
                                   \/ ~run[claim[i].work][claim[i].entry.run].changed)
    PROVE  /\ plan'[i].pc = "finish" /\ \A q \in Procs : q # i => plan'[q] = plan[q]
           /\ claim'[i].work = claim[i].work /\ claim'[i].entry.state = s
           /\ \A j \in Integrators : j # i => claim'[j] = claim[j]
           /\ ClaimFits(i)'
<1>1. /\ plan' = [plan EXCEPT ![i] = [pc |-> "finish", queue |-> NoQueue]]
      /\ claim' = [claim EXCEPT ![i] =
            [work |-> claim[i].work, head |-> h,
             entry |-> [state |-> s, run |-> claim[i].entry.run, source |-> b, why |-> y]]]
  BY DEF Finishing, GoTo
<1>2. /\ plan \in [Procs -> [pc : {"idle", "read", "head", "planned"} \cup Claiming, queue : QueueType]]
      /\ claim \in [Integrators -> [work : Work \cup {NoWork}, entry : EntryType, head : Heads]]
      /\ i \in Procs
  BY DEF MergeInv, MergeTypeOK, ProcTypeOK, Procs
<1>3. /\ plan'[i].pc = "finish" /\ \A q \in Procs : q # i => plan'[q] = plan[q]
      /\ claim'[i].work = claim[i].work /\ claim'[i].head = h
      /\ claim'[i].entry.state = s /\ claim'[i].entry.run = claim[i].entry.run
      /\ \A j \in Integrators : j # i => claim'[j] = claim[j]
  BY <1>1, <1>2
<1>4. ClaimFits(i)'
  BY <1>3, ClaimedWork DEF ClaimFits, Claiming, ChangeOf, On
<1> QED
  BY <1>3, <1>4

(* Steps within an integration that do not touch the queue or a worker and *)
(* leave the branch as it is.                                              *)
LEMMA WorkingFits ==
    ASSUME MergeInv, OneOperator, MergeTypeOK', NEW i \in Integrators,
           plan[i].pc \in Claiming \ {"finish"}, plan'[i].pc \in Claiming \cup {"idle"},
           \A q \in Procs : q # i => plan'[q] = plan[q],
           \A j \in Integrators : j # i => claim'[j] = claim[j],
           claim'[i].work \in {claim[i].work, NoWork},
           UNCHANGED <<queue, run, worker, events, rescue, verifier>>,
           tree'.branch = tree.branch, ClaimFits(i)'
    PROVE  MergeInv'
<1>1. EntriesFit(queue)' /\ WorkerFits'
  BY StoreStays DEF MergeInv
<1>2. BranchFits'
  BY BranchStays
<1> QED
  BY <1>1, <1>2, IntegratorFrame DEF Claiming

(* An integration that ends in a conflict restores the worktree. *)
LEMMA ConflictFits ==
    ASSUME MergeInv, OneOperator, MergeTypeOK', NEW i \in Integrators, NEW y,
           plan[i].pc \in {"open", "source", "staged"}, Conflict(i, y),
           UNCHANGED tree \/ RestoreWorktree(i),
           UNCHANGED <<queue, run, worker, events, rescue, verifier>>
    PROVE  MergeInv'
<1>1. tree.branch = claim[i].head /\ plan[i].pc \in Claiming \ {"finish"}
  BY DEF MergeInv, ClaimFits, Claiming
<1>2. tree'.branch = claim[i].head
  BY <1>1 DEF RestoreWorktree
<1>3. /\ plan'[i].pc = "finish" /\ \A q \in Procs : q # i => plan'[q] = plan[q]
      /\ claim'[i].work = claim[i].work
      /\ \A j \in Integrators : j # i => claim'[j] = claim[j]
      /\ ClaimFits(i)'
  BY <1>1, <1>2, FinishingFits DEF Conflict
<1> QED
  BY <1>1, <1>2, <1>3, WorkingFits DEF Claiming

LEMMA OpeningFits ==
    ASSUME MergeInv, OneOperator, MergeTypeOK', NEW i \in Integrators,
           EnsureIntegrationWorktree(i) \/ IntegrationError(i)
    PROVE  MergeInv'
<1>1. CASE IntegrationError(i)
  BY <1>1, ConflictFits DEF IntegrationError
<1>2. CASE EnsureIntegrationWorktree(i)
  <2>0. /\ i \in Procs /\ plan[i].pc = "claimed"
        /\ plan \in [Procs -> [pc : {"idle", "read", "head", "planned"} \cup Claiming, queue : QueueType]]
        /\ claim \in [Integrators -> [work : Work \cup {NoWork}, entry : EntryType, head : Heads]]
        /\ UNCHANGED <<queue, run, tree, worker, events, rescue, verifier, report>>
    BY <1>2 DEF EnsureIntegrationWorktree, MergeInv, MergeTypeOK, ProcTypeOK, Procs
  <2>1. CASE WorktreeUsable(i)
    <3>1. /\ plan'[i].pc = "open" /\ \A q \in Procs : q # i => plan'[q] = plan[q]
          /\ UNCHANGED claim /\ tree.stage = {} /\ tree.branch = claim[i].head
      BY <1>2, <2>0, <2>1 DEF EnsureIntegrationWorktree, WorktreeUsable, GoTo
    <3>2. ClaimFits(i)'
      BY <2>0, <3>1, ClaimedWork DEF ClaimFits, Claiming
    <3> QED
      BY <2>0, <3>1, <3>2, WorkingFits DEF Claiming
  <2>2. CASE ~WorktreeUsable(i)
    <3>1. /\ plan'[i].pc = "idle" /\ \A q \in Procs : q # i => plan'[q] = plan[q]
          /\ claim'[i].work = NoWork /\ \A j \in Integrators : j # i => claim'[j] = claim[j]
      BY <1>2, <2>0, <2>2 DEF EnsureIntegrationWorktree, NoPlan, NoClaim
    <3>2. ClaimFits(i)'
      BY <3>1 DEF ClaimFits, Claiming
    <3> QED
      BY <2>0, <3>1, <3>2, WorkingFits DEF Claiming
  <2> QED
    BY <2>1, <2>2
<1> QED
  BY <1>1, <1>2

LEMMA SnapshotFits ==
    ASSUME MergeInv, OneOperator, MergeTypeOK', NEW i \in Integrators, SnapshotWorker(i)
    PROVE  MergeInv'
<1> DEFINE w == claim[i].work
           n == claim[i].entry.run
<1>0. /\ i \in Procs /\ plan[i].pc = "open"
      /\ plan \in [Procs -> [pc : {"idle", "read", "head", "planned"} \cup Claiming, queue : QueueType]]
      /\ claim \in [Integrators -> [work : Work \cup {NoWork}, entry : EntryType, head : Heads]]
      /\ worker \in [Work -> [head : Heads, dirty : 0..MaxAttempts, snapshot : 0..MaxAttempts]]
      /\ UNCHANGED <<queue, run, tree, events, rescue, verifier, report>>
  BY DEF SnapshotWorker, MergeInv, MergeTypeOK, ProcTypeOK, StoreTypeOK, Procs
<1>1. /\ w \in Work /\ n \in Attempts /\ queue.entry[w].state = "integrating"
      /\ queue.entry[w].run = n /\ n = Successful(w)
      /\ tree.stage = {} /\ tree.branch = claim[i].head
  BY <1>0, ClaimedWork DEF MergeInv, ClaimFits, Claiming
<1>2. CASE GoTo(i, "source") /\ UNCHANGED <<claim, worker>>
  <2>1. plan'[i].pc = "source" /\ \A q \in Procs : q # i => plan'[q] = plan[q]
    BY <1>0, <1>2 DEF GoTo
  <2>2. ClaimFits(i)'
    BY <1>0, <1>1, <1>2, <2>1 DEF ClaimFits, Claiming
  <2> QED
    BY <1>0, <1>2, <2>1, <2>2, WorkingFits DEF Claiming
<1>3. CASE /\ SnapshotAllowed(w, n) /\ worker[w].dirty = 0 /\ UNCHANGED worker
           /\ Finishing(i, "integrated", FALSE, "none", claim[i].head)
  <2>1. ~run[w][n].changed
    <3>1. n \notin events[w].superseded /\ n # 0
      BY <1>1, SuccessfulRun, MergeAssumption DEF Attempts
    <3> QED
      BY <1>1, <1>3, <3>1 DEF SnapshotAllowed, MergeInv, WorkerFits
  <2>2. /\ plan'[i].pc = "finish" /\ \A q \in Procs : q # i => plan'[q] = plan[q]
        /\ claim'[i].work = claim[i].work
        /\ \A j \in Integrators : j # i => claim'[j] = claim[j]
        /\ ClaimFits(i)'
    BY <1>0, <1>1, <1>3, <2>1, FinishingFits DEF Claiming
  <2> QED
    BY <1>0, <1>3, <2>2, WorkingFits DEF Claiming
<1>4. CASE /\ worker[w].dirty # 0
           /\ worker' = [worker EXCEPT ![w] =
                [head |-> worker[w].head, dirty |-> 0, snapshot |-> worker[w].dirty]]
           /\ claim' = [claim EXCEPT ![i] = [work |-> w, head |-> claim[i].head,
                entry |-> [claim[i].entry EXCEPT !.source = TRUE]]]
           /\ GoTo(i, "source")
  <2>0. claim[i].entry \in EntryType
    BY <1>0
  <2>1. [claim[i].entry EXCEPT !.source = TRUE].run = n
    BY <2>0 DEF EntryType
  <2>2. /\ plan'[i].pc = "source" /\ \A q \in Procs : q # i => plan'[q] = plan[q]
        /\ claim'[i].work = w /\ claim'[i].head = claim[i].head /\ claim'[i].entry.run = n
        /\ \A j \in Integrators : j # i => claim'[j] = claim[j]
    BY <1>0, <1>4, <2>1 DEF GoTo
  <2>3. /\ worker'[w].snapshot # 0 /\ \A v \in Work : v # w => worker'[v] = worker[v]
    BY <1>0, <1>1, <1>4
  <2>4. WorkerFits'
    <3> SUFFICES ASSUME NEW v \in Work, NEW m \in Attempts,
                        m = LastOf(v, Attempts)', m \notin events[v].superseded,
                        run[v][m].state = "succeeded", run[v][m].changed, worker'[v].snapshot = 0
                 PROVE  \/ worker'[v].dirty = m
                        \/ queue.entry[v].state = "conflict" /\ queue.entry[v].why \in {"stale", "text"}
      BY <1>0 DEF WorkerFits
    <3>1. v # w /\ m = LastOf(v, Attempts)
      BY <1>0, <2>3 DEF LastOf
    <3> QED
      BY <2>3, <3>1 DEF MergeInv, WorkerFits
  <2>5. EntriesFit(queue)'
    BY <1>0, EntryStays DEF MergeInv, EntriesFit, EntryFits
  <2>6. BranchFits'
    BY <1>0, <2>2, BranchStays DEF Claiming
  <2>7. ClaimFits(i)'
    BY <1>0, <1>1, <2>2 DEF ClaimFits, Claiming
  <2> QED
    BY <1>0, <2>2, <2>4, <2>5, <2>6, <2>7, IntegratorFrame DEF Claiming
<1> QED
  BY <1>2, <1>3, <1>4 DEF SnapshotWorker
LEMMA ApplyFits ==
    ASSUME MergeInv, OneOperator, MergeTypeOK', NEW i \in Integrators, ApplySnapshot(i)
    PROVE  MergeInv'
<1>0. /\ i \in Procs /\ plan[i].pc = "source"
      /\ plan \in [Procs -> [pc : {"idle", "read", "head", "planned"} \cup Claiming, queue : QueueType]]
      /\ UNCHANGED <<queue, run, worker, events, rescue, verifier, report>>
  BY DEF ApplySnapshot, MergeInv, MergeTypeOK, ProcTypeOK, Procs
<1>1. ASSUME NEW y, Conflict(i, y), UNCHANGED tree \/ RestoreWorktree(i) PROVE MergeInv'
  BY <1>0, <1>1, ConflictFits
<1>2. CASE /\ tree' = [branch |-> tree.branch,
                       stage |-> IF On(tree.branch, ChangeOf(i)) THEN tree.stage
                                 ELSE tree.stage \cup {ChangeOf(i)}]
           /\ GoTo(i, "staged") /\ UNCHANGED claim
  <2>1. plan'[i].pc = "staged" /\ \A q \in Procs : q # i => plan'[q] = plan[q]
    BY <1>0, <1>2 DEF GoTo
  <2>2. tree.stage = {} /\ tree.branch = claim[i].head
    BY <1>0 DEF MergeInv, ClaimFits, Claiming
  <2>3. tree'.branch = tree.branch /\ tree'.stage \subseteq {ChangeOf(i)}
    BY <1>2, <2>2
  <2>4. ClaimFits(i)'
    BY <1>0, <1>2, <2>1, <2>2, <2>3, ClaimedWork DEF ClaimFits, Claiming, ChangeOf
  <2> QED
    BY <1>0, <1>2, <2>1, <2>3, <2>4, WorkingFits DEF Claiming
<1> QED
  BY <1>1, <1>2 DEF ApplySnapshot

(* What a commit puts on the branch. *)
LEMMA OnAppend ==
    ASSUME NEW branch \in Heads, NEW c \in Changes
    PROVE  \A x : On(Append(branch, c), x) <=> On(branch, x) \/ x = c
<1> DEFINE longer == Append(branch, c)
<1>1. /\ branch \in Seq(Changes) /\ longer \in Seq(Changes)
      /\ Len(branch) \in Nat /\ Len(longer) = Len(branch) + 1
      /\ DOMAIN branch = 1..Len(branch) /\ DOMAIN longer = 1..(Len(branch) + 1)
      /\ \A k \in 1..Len(branch) : longer[k] = branch[k]
      /\ longer[Len(branch) + 1] = c
  BY DEF Heads
<1> HIDE DEF longer
<1> QED
  BY <1>1 DEF On

(* An integrator at "staged" either commits its change or finds a conflict. *)
LEMMA CommitCases ==
    ASSUME MergeInv, NEW i \in Integrators, CommitApplied(i)
    PROVE  \/ /\ tree'.branch = Append(tree.branch, ChangeOf(i))
              /\ Finishing(i, "integrated", TRUE, "none", Append(tree.branch, ChangeOf(i)))
              /\ ChangeOf(i) \in Changes /\ tree.branch \in Heads
              /\ \A n \in Attempts : ~On(tree.branch, <<claim[i].work, n>>)
              /\ \A x : On(tree'.branch, x) <=> On(tree.branch, x) \/ x = ChangeOf(i)
           \/ RestoreWorktree(i) /\ \E y : Conflict(i, y)
<1>1. plan[i].pc \in Claiming \ {"finish"}
  BY DEF CommitApplied, Claiming
<1>2. tree.branch \in Heads /\ ChangeOf(i) \in Changes
  BY <1>1, ClaimedWork DEF MergeInv, MergeTypeOK, StoreTypeOK
<1>3. \A n \in Attempts : ~On(tree.branch, <<claim[i].work, n>>)
  BY <1>1, ClaimUnpublished
<1>4. CASE /\ tree' = [branch |-> Append(tree.branch, ChangeOf(i)), stage |-> {}]
           /\ Finishing(i, "integrated", TRUE, "none", Append(tree.branch, ChangeOf(i)))
  <2>1. tree'.branch = Append(tree.branch, ChangeOf(i))
    BY <1>4
  <2>2. \A x : On(tree'.branch, x) <=> On(tree.branch, x) \/ x = ChangeOf(i)
    BY <1>2, <2>1, OnAppend
  <2> QED
    BY <1>2, <1>3, <1>4, <2>1, <2>2
<1>5. CASE \E y \in {"postapply", "semantic", "stale"} : RestoreWorktree(i) /\ Conflict(i, y)
  BY <1>5
<1> QED
  BY <1>4, <1>5 DEF CommitApplied

LEMMA CommitFits ==
    ASSUME MergeInv, OneOperator, MergeTypeOK', NEW i \in Integrators, CommitApplied(i)
    PROVE  MergeInv'
<1> DEFINE w == claim[i].work
           n == claim[i].entry.run
<1>0. /\ i \in Procs /\ plan[i].pc = "staged"
      /\ UNCHANGED <<queue, run, worker, events, rescue, verifier, report>>
  BY DEF CommitApplied, Procs
<1>1. CASE /\ tree'.branch = Append(tree.branch, ChangeOf(i))
           /\ Finishing(i, "integrated", TRUE, "none", Append(tree.branch, ChangeOf(i)))
           /\ \A m \in Attempts : ~On(tree.branch, <<w, m>>)
           /\ \A x : On(tree'.branch, x) <=> On(tree.branch, x) \/ x = ChangeOf(i)
  <2>1. /\ plan'[i].pc = "finish" /\ \A q \in Procs : q # i => plan'[q] = plan[q]
        /\ claim'[i].work = w /\ claim'[i].entry.state = "integrated"
        /\ \A j \in Integrators : j # i => claim'[j] = claim[j]
        /\ ClaimFits(i)'
    BY <1>0, <1>1, FinishingFits DEF Claiming
  <2>2. /\ w \in Work /\ n \in Attempts
        /\ queue.entry[w].state = "integrating" /\ queue.entry[w].run = n
    BY <1>0, ClaimedWork DEF Claiming
  <2>3. BranchFits'
    <3> SUFFICES ASSUME NEW v \in Work, NEW m \in Attempts, On(tree'.branch, <<v, m>>)
                 PROVE  /\ queue.entry[v].state \in {"integrating", "integrated"}
                        /\ queue.entry[v].run = m
                        /\ \A j \in Integrators : claim'[j].work = v =>
                              plan'[j].pc = "finish" /\ claim'[j].entry.state = "integrated"
      BY <1>0 DEF BranchFits
    <3>1. CASE <<v, m>> = ChangeOf(i)
      <4>1. v = w /\ m = n
        BY <3>1 DEF ChangeOf
      <4>2. \A j \in Integrators : j # i => claim[j].work = NoWork
        <5> SUFFICES ASSUME NEW j \in Integrators, j # i PROVE claim[j].work = NoWork
          OBVIOUS
        <5>1. j \in Procs /\ ClaimFits(j) /\ plan[j].pc = "idle"
          BY <1>0, Alone DEF MergeInv, Procs
        <5> QED
          BY <5>1 DEF ClaimFits, Claiming
      <4> QED
        BY <2>1, <2>2, <4>1, <4>2, MergeAssumption
    <3>2. CASE On(tree.branch, <<v, m>>)
      <4>1. v # w
        BY <1>1, <3>2
      <4>2. /\ queue.entry[v].state \in {"integrating", "integrated"} /\ queue.entry[v].run = m
            /\ \A j \in Integrators : claim[j].work = v =>
                  plan[j].pc = "finish" /\ claim[j].entry.state = "integrated"
        BY <3>2 DEF MergeInv, BranchFits
      <4> QED
        BY <2>1, <4>1, <4>2 DEF Procs
    <3> QED
      BY <1>1, <3>1, <3>2
  <2>4. EntriesFit(queue)' /\ WorkerFits'
    BY <1>0, StoreStays DEF MergeInv
  <2> QED
    BY <1>0, <2>1, <2>3, <2>4, IntegratorFrame DEF Claiming
<1>2. CASE RestoreWorktree(i) /\ \E y : Conflict(i, y)
  BY <1>0, <1>2, ConflictFits
<1> QED
  BY <1>1, <1>2, CommitCases

LEMMA FinishFits ==
    ASSUME MergeInv, OneOperator, MergeTypeOK', NEW i \in Integrators, FinishMergeEntry(i)
    PROVE  MergeInv'
<1> DEFINE w == claim[i].work
           e == claim[i].entry
<1>0. /\ i \in Procs /\ plan[i].pc = "finish"
      /\ plan \in [Procs -> [pc : {"idle", "read", "head", "planned"} \cup Claiming, queue : QueueType]]
      /\ claim \in [Integrators -> [work : Work \cup {NoWork}, entry : EntryType, head : Heads]]
      /\ queue \in QueueType
      /\ UNCHANGED <<run, tree, worker, events, rescue, verifier, report>>
  BY DEF FinishMergeEntry, MergeInv, MergeTypeOK, StoreTypeOK, ProcTypeOK, Procs
<1>1. /\ w \in Work /\ queue.entry[w].state = "integrating" /\ queue.entry[w].run = e.run
      /\ e.state \in {"conflict", "integrated"}
  BY <1>0, ClaimedWork DEF MergeInv, ClaimFits, Claiming
<1>2. /\ queue'.entry[w] = e /\ \A v \in Work : v # w => queue'.entry[v] = queue.entry[v]
      /\ plan'[i].pc = "idle" /\ \A q \in Procs : q # i => plan'[q] = plan[q]
      /\ claim'[i].work = NoWork /\ \A j \in Integrators : j # i => claim'[j] = claim[j]
  BY <1>0, <1>1 DEF FinishMergeEntry, QueueType, NoPlan, NoClaim
<1>3. EntriesFit(queue)'
  <2> SUFFICES ASSUME NEW v \in Work PROVE EntryFits(queue.entry[v], v)'
    BY DEF EntriesFit
  <2>1. EntryFits(queue.entry[v], v)
    BY DEF MergeInv, EntriesFit
  <2>2. queue.entry[v].state \in Standing =>
           /\ queue.entry[v].run # 0 /\ queue.entry[v].run = Successful(v)'
           /\ MissingIntegrations(queue, v)' = {}
    BY <1>0, <1>1, <1>2, <2>1, EntryStays
  <2> QED
    BY <1>1, <1>2, <2>2 DEF EntryFits, Standing, Kept
<1>4. WorkerFits'
  BY <1>0, <1>1, <1>2, WorkerStays DEF MergeInv
<1>5. BranchFits'
  <2> SUFFICES ASSUME NEW v \in Work, NEW m \in Attempts, On(tree.branch, <<v, m>>)
               PROVE  /\ queue'.entry[v].state \in {"integrating", "integrated"}
                      /\ queue'.entry[v].run = m
                      /\ \A j \in Integrators : claim'[j].work = v =>
                            plan'[j].pc = "finish" /\ claim'[j].entry.state = "integrated"
    BY <1>0 DEF BranchFits
  <2>1. /\ queue.entry[v].state \in {"integrating", "integrated"} /\ queue.entry[v].run = m
        /\ \A j \in Integrators : claim[j].work = v =>
              plan[j].pc = "finish" /\ claim[j].entry.state = "integrated"
    BY DEF MergeInv, BranchFits
  <2>2. \A j \in Integrators : claim'[j].work = v => j # i
    BY <1>2, MergeAssumption
  <2> QED
    BY <1>1, <1>2, <2>1, <2>2 DEF Procs
<1>6. ClaimFits(i)'
  BY <1>2 DEF ClaimFits, Claiming
<1> QED
  BY <1>0, <1>2, <1>3, <1>4, <1>5, <1>6, IntegratorFrame

LEMMA IntegratorStepFits ==
    ASSUME MergeInv, OneOperator, NEW i \in Integrators, IntegratorStep(i)
    PROVE  MergeInv'
<1>1. MergeTypeOK'
  BY IntegratorStepTypes, ClaimedWork DEF MergeInv
<1> QED
  BY <1>1, ClaimStepFits, OpeningFits, SnapshotFits, ApplyFits, CommitFits, FinishFits
     DEF IntegratorStep
-----------------------------------------------------------------------------
(* Runs.                                                                   *)

LEMMA LastOfStays ==
    ASSUME NEW w \in Work, run'[w] = run[w]
    PROVE  LastOf(w, Attempts)' = LastOf(w, Attempts)
BY DEF LastOf

(* A run that outnumbers the others is the last. *)
LEMMA LastOfNext ==
    ASSUME NEW w \in Work, NEW n \in Attempts, run'[w][n].state # "none",
           \A m \in Attempts : run'[w][m].state # "none" => m <= n
    PROVE  LastOf(w, Attempts)' = n
<1> DEFINE begun == { m \in Attempts : run'[w][m].state # "none" }
<1>1. n \in begun /\ \A m \in begun : m <= n
  OBVIOUS
<1>2. \A x \in begun : (\A m \in begun : m <= x) => x = n
  BY <1>1 DEF Attempts
<1>3. LastOf(w, Attempts)' = CHOOSE x \in begun : \A m \in begun : m <= x
  BY <1>1 DEF LastOf
<1> HIDE DEF begun
<1> QED
  BY <1>1, <1>2, <1>3

(* A run of an item of which nothing stands in the queue. *)
LEMMA RunFrame ==
    ASSUME MergeInv, MergeTypeOK', NEW w \in Work, NEW n \in Attempts, Successful(w) = 0,
           \A v \in Work : v # w => run'[v] = run[v] /\ worker'[v] = worker[v],
           \A m \in Attempts : m # n => run'[w][m] = run[w][m],
           run'[w][n].state # "none",
           \A m \in Attempts : run'[w][m].state # "none" => m <= n,
           n \notin events[w].superseded,
           run'[w][n].state = "succeeded" /\ run'[w][n].changed => worker'[w].dirty = n,
           \A m \in Attempts : m # n => run[w][m].state # "running",
           UNCHANGED <<queue, tree, events, plan, claim, rescue, verifier, report>>
    PROVE  MergeInv'
<1>1. RunsInv'
  <2> SUFFICES ASSUME NEW v \in Work
               PROVE  /\ \A k, m \in Attempts :
                            run'[v][k].state = "running" /\ run'[v][m].state # "none" => m <= k
                      /\ \A k \in events[v].superseded : run'[v][k].state = "succeeded"
    BY DEF RunsInv
  <2>1. events[v].superseded \subseteq Attempts
    BY DEF MergeInv, MergeTypeOK, StoreTypeOK
  <2>2. CASE v # w
    BY <2>2 DEF MergeInv, RunsInv
  <2>3. CASE v = w
    BY <2>1, <2>3 DEF MergeInv, RunsInv
  <2> QED
    BY <2>2, <2>3
<1>2. ASSUME NEW e, NEW v \in Work, EntryFits(e, v) PROVE EntryFits(e, v)'
  <2>1. CASE v = w
    BY <1>2, <2>1 DEF EntryFits
  <2>2. CASE v # w
    BY <1>2, <2>2, EntryStays DEF EntryFits
  <2> QED
    BY <2>1, <2>2
<1>3. EntriesFit(queue)'
  BY <1>2 DEF MergeInv, EntriesFit, EntryFits
<1>4. ASSUME NEW p \in Procs PROVE PlanFits(p)'
  BY <1>2 DEF MergeInv, PlanFits, EntriesFit, EntryFits
<1>5. BranchFits'
  BY DEF MergeInv, BranchFits
<1>6. ASSUME NEW i \in Integrators PROVE ClaimFits(i)'
  <2>1. ClaimFits(i)
    BY DEF MergeInv
  <2>2. plan[i].pc \in Claiming => claim[i].work # w
    BY ClaimedWork, MergeAssumption DEF Attempts
  <2>3. plan[i].pc \in Claiming => run'[claim[i].work] = run[claim[i].work]
    BY <2>2, ClaimedWork
  <2>4. "finish" \in Claiming
    BY DEF Claiming
  <2> QED
    BY <2>1, <2>3, <2>4 DEF ClaimFits
<1>7. WorkerFits'
  <2> SUFFICES ASSUME NEW v \in Work, NEW m \in Attempts,
                      m = LastOf(v, Attempts)', m \notin events[v].superseded,
                      run'[v][m].state = "succeeded", run'[v][m].changed, worker'[v].snapshot = 0
               PROVE  \/ worker'[v].dirty = m
                      \/ queue.entry[v].state = "conflict" /\ queue.entry[v].why \in {"stale", "text"}
    BY DEF WorkerFits
  <2>1. CASE v # w
    <3>1. m = LastOf(v, Attempts) /\ run'[v] = run[v] /\ worker'[v] = worker[v]
      BY <2>1, LastOfStays
    <3> QED
      BY <2>1, <3>1 DEF MergeInv, WorkerFits
  <2>2. CASE v = w
    BY <2>2, LastOfNext
  <2> QED
    BY <2>1, <2>2
<1>8. \A r \in Rescuers : RescueFits(r)'
  BY DEF MergeInv, RescueFits, Attempt
<1> QED
  BY <1>1, <1>3, <1>4, <1>5, <1>6, <1>7, <1>8 DEF MergeInv, RepairsCounted, VerifierFits

LEMMA LaunchFits ==
    ASSUME MergeInv, NEW w \in Work, NEW n \in Attempts, LaunchRun(w, n)
    PROVE  /\ run[w][n].state = "none"
           /\ MergeInv'
<1>1. MergeTypeOK'
  BY RunStepTypes DEF MergeInv
<1>2. /\ run \in [Work -> [Attempts -> RunType]]
      /\ worker \in [Work -> [head : Heads, dirty : 0..MaxAttempts, snapshot : 0..MaxAttempts]]
  BY DEF MergeInv, MergeTypeOK, StoreTypeOK
<1>3. /\ n = LastOf(w, Attempts) + 1 /\ Successful(w) = 0
      /\ \A m \in Attempts : run[w][m].state # "running"
      /\ UNCHANGED <<queue, tree, events, plan, claim, rescue, verifier, report>>
  BY DEF LaunchRun, ActiveIn
<1>4. \A m \in Attempts : run[w][m].state # "none" => m < n
  <2>1. /\ LastOf(w, Attempts) \in {0} \cup Attempts
        /\ \A m \in Attempts : run[w][m].state # "none" => m <= LastOf(w, Attempts)
    BY LastOfIsLast
  <2> QED
    BY <1>3, <2>1, MergeAssumption DEF Attempts
<1>5. run[w][n].state = "none"
  BY <1>4 DEF Attempts
<1>6. /\ run'[w][n].state = "running"
      /\ \A m \in Attempts : m # n => run'[w][m] = run[w][m]
      /\ \A v \in Work : v # w => run'[v] = run[v] /\ worker'[v] = worker[v]
  BY <1>2 DEF LaunchRun
<1>7. \A m \in Attempts : run'[w][m].state # "none" => m <= n
  BY <1>4, <1>6 DEF Attempts
<1>8. n \notin events[w].superseded
  BY <1>5 DEF MergeInv, RunsInv
<1> QED
  BY <1>1, <1>3, <1>5, <1>6, <1>7, <1>8, RunFrame

LEMMA EndFits ==
    ASSUME MergeInv, NEW w \in Work, NEW n \in Attempts,
           NEW s \in {"succeeded", "failed"}, NEW c \in BOOLEAN, EndRun(w, n, s, c)
    PROVE  MergeInv'
<1>1. MergeTypeOK'
  BY RunStepTypes DEF MergeInv
<1>2. /\ run \in [Work -> [Attempts -> RunType]]
      /\ worker \in [Work -> [head : Heads, dirty : 0..MaxAttempts, snapshot : 0..MaxAttempts]]
      /\ run[w][n].state = "running"
      /\ UNCHANGED <<queue, tree, events, plan, claim, rescue, verifier, report>>
  BY DEF EndRun, MergeInv, MergeTypeOK, StoreTypeOK
<1>3. \A m \in Attempts : run[w][m].state # "none" => m <= n
  BY <1>2 DEF MergeInv, RunsInv
<1>4. \A m \in Attempts : m # n => run[w][m].state # "running"
  BY <1>2, <1>3 DEF MergeInv, RunsInv, Attempts
<1>5. n \notin events[w].superseded
  BY <1>2 DEF MergeInv, RunsInv
<1>6. Successful(w) = 0
  <2> SUFFICES ASSUME Successful(w) # 0 PROVE FALSE
    OBVIOUS
  <2>1. /\ Successful(w) \in Attempts /\ run[w][Successful(w)].state = "succeeded"
        /\ n <= Successful(w)
    BY <1>2, <1>5, SuccessfulRun
  <2> QED
    BY <1>2, <1>3, <2>1 DEF Attempts
<1>7. /\ run'[w][n].state = s /\ (run'[w][n].changed => s = "succeeded" /\ c)
      /\ \A m \in Attempts : m # n => run'[w][m] = run[w][m]
      /\ \A v \in Work : v # w => run'[v] = run[v] /\ worker'[v] = worker[v]
      /\ s = "succeeded" /\ c => worker'[w].dirty = n
  BY <1>2 DEF EndRun
<1>8. \A m \in Attempts : run'[w][m].state # "none" => m <= n
  BY <1>3, <1>7 DEF Attempts
<1> QED
  BY <1>1, <1>2, <1>4, <1>5, <1>6, <1>7, <1>8, RunFrame
-----------------------------------------------------------------------------
(* Rescuing.                                                               *)

(* What remains to be shown of a step of one rescuer. *)
LEMMA RescueFrame ==
    ASSUME MergeInv, MergeTypeOK', NEW r \in Rescuers,
           \A p \in Procs : plan[p].pc = "idle",
           \A q \in Rescuers : q # r => rescue'[q].pc = "idle",
           \A w \in Work : queue.entry[w].state # "conflict" => queue'.entry[w] = queue.entry[w],
           UNCHANGED <<run, tree, plan, claim, verifier>>,
           RunsInv', EntriesFit(queue)', WorkerFits', RepairsCounted', RescueFits(r)'
    PROVE  MergeInv'
<1>1. \A p \in Procs : PlanFits(p)'
  BY DEF PlanFits
<1>2. \A i \in Integrators : ClaimFits(i)' /\ claim'[i].work = NoWork
  <2> SUFFICES ASSUME NEW i \in Integrators PROVE ClaimFits(i)' /\ claim'[i].work = NoWork
    OBVIOUS
  <2>1. i \in Procs /\ ClaimFits(i)
    BY DEF MergeInv, Procs
  <2> QED
    BY <2>1 DEF ClaimFits, Claiming
<1>3. BranchFits'
  BY <1>2, MergeAssumption DEF MergeInv, BranchFits
<1>4. \A q \in Rescuers : RescueFits(q)'
  BY DEF RescueFits
<1> QED
  BY <1>1, <1>2, <1>3, <1>4 DEF MergeInv, VerifierFits

(* A rescuer at work is alone. *)
LEMMA RescuerAlone ==
    ASSUME OneOperator, NEW r \in Rescuers, rescue[r].pc # "idle"
    PROVE  /\ \A p \in Procs : plan[p].pc = "idle"
           /\ \A q \in Rescuers : q # r => rescue[q].pc = "idle"
BY DEF OneOperator

LEMMA RescuerAloneNext ==
    ASSUME OneOperator', NEW r \in Rescuers, rescue'[r].pc # "idle"
    PROVE  /\ \A p \in Procs : plan'[p].pc = "idle"
           /\ \A q \in Rescuers : q # r => rescue'[q].pc = "idle"
BY DEF OneOperator

LEMMA DecideFits ==
    ASSUME MergeInv, OneOperator', MergeTypeOK', NEW r \in Rescuers, NEW w \in Work,
           PlanRescue(r, w)
    PROVE  MergeInv'
<1>1. /\ rescue \in [Rescuers -> [pc : {"idle", "decided", "checked", "reset"},
                                  work : Work \cup {NoWork}, queue : QueueType,
                                  kind : {"none", "retry_snapshot", "serial_rerun",
                                          "replan_required", "manual"},
                                  attempt : Nat]]
      /\ Attempt(w) \in Nat
  BY DEF MergeInv, MergeTypeOK, StoreTypeOK, ProcTypeOK, Attempt
<1>2. /\ rescue'[r] = [pc |-> "decided", work |-> w, queue |-> queue, attempt |-> Attempt(w),
            kind |-> IF Attempt(w) > MaxRepairs THEN "manual" ELSE Classify(queue.entry[w].why)]
      /\ queue.entry[w].state = "conflict"
      /\ UNCHANGED <<queue, run, tree, worker, events, plan, claim, verifier, report>>
  BY <1>1 DEF PlanRescue
<1>3. /\ \A p \in Procs : plan[p].pc = "idle"
      /\ \A q \in Rescuers : q # r => rescue'[q].pc = "idle"
  BY <1>2, RescuerAloneNext
<1>4. RunsInv' /\ EntriesFit(queue)' /\ WorkerFits' /\ RepairsCounted'
  BY <1>2, StoreStays DEF MergeInv
<1>5. Attempt(w)' = Attempt(w)
  BY <1>2 DEF Attempt
<1>6. RescueFits(r)'
  BY <1>1, <1>2, <1>5, MergeAssumption DEF RescueFits
<1> QED
  BY <1>2, <1>3, <1>4, <1>6, RescueFrame

(* Ending a rescue without touching queue or worker. *)
LEMMA RescueEndFits ==
    ASSUME MergeInv, OneOperator, MergeTypeOK', NEW r \in Rescuers, rescue[r].pc # "idle",
           EndRescue(r), UNCHANGED <<queue, run, tree, worker, plan, claim, verifier>>,
           \/ UNCHANGED events
           \/ \E w \in Work : events' = [events EXCEPT ![w] =
                                           [@ EXCEPT !.count = Counted(events[w].count)]]
    PROVE  MergeInv'
<1>1. events \in [Work -> [count : Nat, prepared : Nat, superseded : SUBSET Attempts]]
  BY DEF MergeInv, MergeTypeOK, StoreTypeOK
<1>2. \A w \in Work : /\ events'[w].superseded = events[w].superseded
                      /\ events'[w].prepared = events[w].prepared
                      /\ events'[w].count >= events[w].count
  BY <1>1 DEF Counted
<1>3. RunsInv'
  BY <1>2 DEF MergeInv, RunsInv
<1>4. EntriesFit(queue)'
  BY <1>2, EntryStays DEF MergeInv, EntriesFit, EntryFits
<1>5. WorkerFits'
  BY <1>2, LastOfStays DEF MergeInv, WorkerFits
<1>6. RepairsCounted'
  <2> SUFFICES ASSUME NEW w \in Work PROVE events'[w].prepared <= events'[w].count
    BY DEF RepairsCounted
  <2>1. /\ events[w].prepared <= events[w].count
        /\ events[w].prepared \in Nat /\ events[w].count \in Nat
    BY <1>1 DEF MergeInv, RepairsCounted
  <2>2. events'[w].count \in Nat
    BY DEF MergeTypeOK, StoreTypeOK
  <2> QED
    BY <1>2, <2>1, <2>2
<1>7. /\ rescue'[r].pc = "idle" /\ \A q \in Rescuers : q # r => rescue'[q] = rescue[q]
  BY DEF EndRescue, NoRescue, MergeInv, MergeTypeOK, ProcTypeOK
<1>8. RescueFits(r)'
  BY <1>7 DEF RescueFits
<1> QED
  BY <1>3, <1>4, <1>5, <1>6, <1>7, <1>8, RescuerAlone, RescueFrame

LEMMA CheckFits ==
    ASSUME MergeInv, OneOperator, MergeTypeOK', NEW r \in Rescuers, CheckDecision(r)
    PROVE  MergeInv'
<1>1. /\ rescue \in [Rescuers -> [pc : {"idle", "decided", "checked", "reset"},
                                  work : Work \cup {NoWork}, queue : QueueType,
                                  kind : {"none", "retry_snapshot", "serial_rerun",
                                          "replan_required", "manual"},
                                  attempt : Nat]]
      /\ rescue[r].pc = "decided" /\ rescue[r].kind \in {"retry_snapshot", "serial_rerun"}
      /\ UNCHANGED <<queue, run, tree, worker, events, plan, claim, verifier, report>>
  BY DEF CheckDecision, MergeInv, MergeTypeOK, ProcTypeOK
<1>2. CASE EndRescue(r)
  BY <1>1, <1>2, RescueEndFits
<1>3. CASE rescue' = [rescue EXCEPT ![r] =
                        [rescue[r] EXCEPT !.pc = IF rescue[r].kind = "serial_rerun"
                                                 THEN "checked" ELSE "reset"]]
  <2>1. /\ rescue'[r].pc = IF rescue[r].kind = "serial_rerun" THEN "checked" ELSE "reset"
        /\ rescue'[r].work = rescue[r].work /\ rescue'[r].queue = rescue[r].queue
        /\ rescue'[r].kind = rescue[r].kind /\ rescue'[r].attempt = rescue[r].attempt
        /\ \A q \in Rescuers : q # r => rescue'[q] = rescue[q]
    BY <1>1, <1>3
  <2>2. RescueFits(r)'
    BY <1>1, <2>1 DEF MergeInv, RescueFits, Attempt
  <2>3. RunsInv' /\ EntriesFit(queue)' /\ WorkerFits' /\ RepairsCounted'
    BY <1>1, StoreStays DEF MergeInv
  <2> QED
    BY <1>1, <2>1, <2>2, <2>3, RescuerAlone, RescueFrame
<1> QED
  BY <1>2, <1>3 DEF CheckDecision

LEMMA ResetFits ==
    ASSUME MergeInv, OneOperator, MergeTypeOK', NEW r \in Rescuers, ResetManagedWorker(r)
    PROVE  MergeInv'
<1> DEFINE w == rescue[r].work
<1>1. /\ rescue \in [Rescuers -> [pc : {"idle", "decided", "checked", "reset"},
                                  work : Work \cup {NoWork}, queue : QueueType,
                                  kind : {"none", "retry_snapshot", "serial_rerun",
                                          "replan_required", "manual"},
                                  attempt : Nat]]
      /\ worker \in [Work -> [head : Heads, dirty : 0..MaxAttempts, snapshot : 0..MaxAttempts]]
      /\ rescue[r].pc = "checked"
      /\ UNCHANGED <<queue, run, tree, events, plan, claim, verifier, report>>
  BY DEF ResetManagedWorker, MergeInv, MergeTypeOK, StoreTypeOK, ProcTypeOK
<1>2. CASE EndRescue(r) /\ UNCHANGED worker
  BY <1>1, <1>2, RescueEndFits
<1>3. CASE /\ worker' = [worker EXCEPT ![w] =
                [head |-> rescue[r].queue.head, dirty |-> 0, snapshot |-> 0]]
           /\ rescue' = [rescue EXCEPT ![r] = [rescue[r] EXCEPT !.pc = "reset"]]
  <2>1. /\ rescue'[r].pc = "reset"
        /\ rescue'[r].work = rescue[r].work /\ rescue'[r].queue = rescue[r].queue
        /\ rescue'[r].kind = rescue[r].kind /\ rescue'[r].attempt = rescue[r].attempt
        /\ \A q \in Rescuers : q # r => rescue'[q] = rescue[q]
        /\ \A v \in Work : v # w => worker'[v] = worker[v]
    BY <1>1, <1>3
  <2>2. /\ RescueFits(r) /\ queue.entry[w].state = "conflict"
        /\ rescue[r].kind = "serial_rerun" /\ rescue[r].kind = Classify(queue.entry[w].why)
    BY <1>1 DEF MergeInv, RescueFits
  <2>3. queue.entry[w].why \in {"stale", "text"}
    BY <2>2 DEF Classify
  <2>4. WorkerFits'
    <3> SUFFICES ASSUME NEW v \in Work, NEW m \in Attempts,
                        m = LastOf(v, Attempts)', m \notin events[v].superseded,
                        run[v][m].state = "succeeded", run[v][m].changed, worker'[v].snapshot = 0
                 PROVE  \/ worker'[v].dirty = m
                        \/ queue.entry[v].state = "conflict" /\ queue.entry[v].why \in {"stale", "text"}
      BY <1>1 DEF WorkerFits
    <3>1. m = LastOf(v, Attempts)
      BY <1>1, LastOfStays
    <3> QED
      BY <2>1, <2>2, <2>3, <3>1 DEF MergeInv, WorkerFits
  <2>5. EntriesFit(queue)'
    BY <1>1, EntryStays DEF MergeInv, EntriesFit, EntryFits
  <2>6. RunsInv' /\ RepairsCounted'
    BY <1>1 DEF MergeInv, RunsInv, RepairsCounted
  <2>7. RescueFits(r)'
    BY <1>1, <2>1, <2>2 DEF RescueFits, Attempt
  <2> QED
    BY <1>1, <2>1, <2>4, <2>5, <2>6, <2>7, RescuerAlone, RescueFrame
<1> QED
  BY <1>2, <1>3 DEF ResetManagedWorker

(* More recorded rescues never make the prepared ones outnumber them. *)
LEMMA CountedMonotone ==
    ASSUME NEW a \in Nat, NEW b \in Nat, a <= b
    PROVE  Counted(a) <= Counted(b)
BY MergeAssumption DEF Counted

LEMMA ReopenFits ==
    ASSUME MergeInv, OneOperator, MergeTypeOK', NEW r \in Rescuers, ApplyMergeRescue(r)
    PROVE  MergeInv'
<1>0. PICK w, n, serial :
         /\ w = rescue[r].work /\ n = queue.entry[w].run
         /\ serial <=> rescue[r].kind = "serial_rerun"
  OBVIOUS
<1> DEFINE e == IF serial THEN NoEntry
                ELSE [state |-> "ready", run |-> n, source |-> queue.entry[w].source, why |-> "none"]
<1>1. /\ queue \in QueueType
      /\ events \in [Work -> [count : Nat, prepared : Nat, superseded : SUBSET Attempts]]
      /\ \A q \in Rescuers : q # r => rescue'[q] = rescue[q]
      /\ rescue'[r].pc = "idle"
  BY DEF ApplyMergeRescue, EndRescue, NoRescue, MergeInv, MergeTypeOK, StoreTypeOK, ProcTypeOK
<1>2. /\ rescue[r].pc = "reset" /\ w \in Work /\ rescue[r].queue = queue
      /\ queue.entry[w].state = "conflict"
      /\ rescue[r].kind \in {"retry_snapshot", "serial_rerun"}
      /\ rescue[r].kind = Classify(queue.entry[w].why)
  BY <1>0 DEF ApplyMergeRescue, MergeInv, RescueFits
<1>3. /\ queue' = [head |-> queue.head, entry |-> [queue.entry EXCEPT ![w] = e]]
      /\ events' = [events EXCEPT ![w] =
           [count |-> Counted(events[w].count), prepared |-> Counted(events[w].prepared),
            superseded |-> IF serial THEN events[w].superseded \cup {n}
                           ELSE events[w].superseded]]
      /\ UNCHANGED <<run, tree, worker, plan, claim, verifier, report>>
  BY <1>0, <1>2 DEF ApplyMergeRescue
<1>4. /\ n # 0 /\ n = Successful(w) /\ MissingIntegrations(queue, w) = {}
      /\ n \in Attempts /\ run[w][n].state = "succeeded"
      /\ \A m \in Attempts \ events[w].superseded : run[w][m].state # "none" => m <= n
  <2>1. EntryFits(queue.entry[w], w)
    BY <1>2 DEF MergeInv, EntriesFit
  <2>2. n # 0 /\ n = Successful(w) /\ MissingIntegrations(queue, w) = {}
    BY <1>0, <1>2, <2>1 DEF EntryFits, Standing, Kept
  <2> QED
    BY <1>2, <2>2, SuccessfulRun
<1> HIDE DEF e
<1>5. /\ queue'.entry[w] = e
      /\ \A v \in Work : v # w => queue'.entry[v] = queue.entry[v] /\ events'[v] = events[v]
      /\ events'[w].count = Counted(events[w].count)
      /\ events'[w].prepared = Counted(events[w].prepared)
      /\ events'[w].superseded = IF serial THEN events[w].superseded \cup {n}
                                 ELSE events[w].superseded
  BY <1>1, <1>2, <1>3 DEF QueueType
<1>6. e.state # "integrated" /\ (serial => e.state = "pending")
      /\ (~serial => e.state = "ready" /\ e.run = n)
  BY DEF e, NoEntry
<1>7. RunsInv'
  BY <1>1, <1>2, <1>3, <1>4, <1>5 DEF MergeInv, RunsInv
<1>8. EntriesFit(queue)'
  <2>1. \A d \in Work : queue.entry[d].state = "integrated" => queue'.entry[d].state = "integrated"
    BY <1>2, <1>5
  <2>2. ASSUME NEW v \in Work, v # w PROVE EntryFits(queue.entry[v], v)'
    <3>1. EntryFits(queue.entry[v], v)
      BY DEF MergeInv, EntriesFit
    <3>2. run'[v] = run[v] /\ events'[v].superseded = events[v].superseded
          /\ queue'.entry[v] = queue.entry[v]
      BY <1>3, <1>5, <2>2
    <3> QED
      BY <2>1, <3>1, <3>2, EntryStays DEF EntryFits
  <2>3. EntryFits(queue.entry[w], w)'
    <3>1. CASE serial
      BY <1>5, <1>6, <3>1 DEF EntryFits, Standing, Kept
    <3>2. CASE ~serial
      <4>1. Successful(w)' = Successful(w)
        BY <1>2, <1>3, <1>5, <3>2, SuccessfulStays
      <4>2. MissingIntegrations(queue, w)' = {}
        BY <1>2, <1>4, <2>1, MergeAssumption DEF MissingIntegrations
      <4> QED
        BY <1>4, <1>5, <1>6, <3>2, <4>1, <4>2 DEF EntryFits
    <3> QED
      BY <3>1, <3>2
  <2> QED
    BY <2>2, <2>3 DEF EntriesFit
<1>9. WorkerFits'
  <2> SUFFICES ASSUME NEW v \in Work, NEW m \in Attempts,
                      m = LastOf(v, Attempts)', m \notin events'[v].superseded,
                      run[v][m].state = "succeeded", run[v][m].changed, worker[v].snapshot = 0
               PROVE  \/ worker[v].dirty = m
                      \/ queue'.entry[v].state = "conflict" /\ queue'.entry[v].why \in {"stale", "text"}
    BY <1>3 DEF WorkerFits
  <2>1. m = LastOf(v, Attempts)
    BY <1>3, LastOfStays
  <2>2. CASE v # w
    BY <1>5, <2>1, <2>2 DEF MergeInv, WorkerFits
  <2>3. CASE v = w /\ serial
    <3>1. m \notin events[w].superseded /\ m # n
      BY <1>5, <2>3
    <3>2. m <= n
      BY <1>4, <2>3, <3>1
    <3>3. n <= m
      BY <1>2, <1>4, <2>1, <2>3, LastOfIsLast
    <3> QED
      BY <3>1, <3>2, <3>3, <1>4 DEF Attempts
  <2>4. CASE v = w /\ ~serial
    <3>1. queue.entry[w].why \notin {"stale", "text"}
      BY <1>0, <1>2, <2>4 DEF Classify
    <3> QED
      BY <1>5, <2>1, <2>4, <3>1 DEF MergeInv, WorkerFits
  <2> QED
    BY <2>2, <2>3, <2>4
<1>10. RepairsCounted'
  <2> SUFFICES ASSUME NEW v \in Work PROVE events'[v].prepared <= events'[v].count
    BY DEF RepairsCounted
  <2>1. /\ events[v].prepared <= events[v].count
        /\ events[v].prepared \in Nat /\ events[v].count \in Nat
    BY <1>1 DEF MergeInv, RepairsCounted
  <2> QED
    BY <1>5, <2>1, CountedMonotone
<1>11. RescueFits(r)'
  BY <1>1 DEF RescueFits
<1> QED
  BY <1>1, <1>2, <1>3, <1>5, <1>7, <1>8, <1>9, <1>10, <1>11, RescuerAlone, RescueFrame

LEMMA RescueStepFits ==
    ASSUME MergeInv, OneOperator, OneOperator', NEW r \in Rescuers, RescueStep(r)
    PROVE  MergeInv'
<1>1. MergeTypeOK'
  BY RescueStepTypes DEF MergeInv
<1>2. CASE RecordDecision(r)
  <2>1. PICK w : w = rescue[r].work
    OBVIOUS
  <2>2. w \in Work
    BY <1>2, <2>1 DEF RecordDecision, MergeInv, RescueFits
  <2> QED
    BY <1>1, <1>2, <2>1, <2>2, RescueEndFits DEF RecordDecision
<1>3. CASE RescueCrash(r)
  BY <1>1, <1>3, RescueEndFits DEF RescueCrash
<1> QED
  BY <1>1, <1>2, <1>3, DecideFits, CheckFits, ResetFits, ReopenFits DEF RescueStep
-----------------------------------------------------------------------------
(* The invariant.                                                          *)

(* What neither the verifier nor a stuttering step disturbs. *)
LEMMA ProcessesStay ==
    ASSUME MergeInv, MergeTypeOK', VerifierFits',
           UNCHANGED <<queue, run, tree, worker, events, plan, claim, rescue>>
    PROVE  MergeInv'
<1>1. RunsInv' /\ EntriesFit(queue)' /\ WorkerFits' /\ RepairsCounted'
  BY StoreStays DEF MergeInv
<1>2. \A p \in Procs : PlanFits(p)'
  BY EntryStays DEF MergeInv, PlanFits, EntriesFit, EntryFits
<1>3. BranchFits' /\ \A i \in Integrators : ClaimFits(i)'
  BY DEF MergeInv, BranchFits, ClaimFits
<1>4. \A r \in Rescuers : RescueFits(r)'
  BY DEF MergeInv, RescueFits, Attempt
<1> QED
  BY <1>1, <1>2, <1>3, <1>4 DEF MergeInv

LEMMA VerifierStepFits ==
    ASSUME MergeInv, VerifierStep
    PROVE  MergeInv'
<1>1. MergeTypeOK'
  BY VerifierStepTypes DEF MergeInv
<1>2. UNCHANGED <<queue, run, tree, worker, events, plan, claim, rescue>>
  BY DEF VerifierStep, CheckQueue, BeginVerification, VerifierCrash, SaveVerification
<1>3. VerifierFits'
  <2>1. verifier' = NoPlan => verifier'.pc = "idle"
    BY DEF NoPlan
  <2>2. CASE CheckQueue
    BY <2>2 DEF CheckQueue, VerifierFits, Completed
  <2>3. CASE BeginVerification
    <3>1. verifier \in [pc : {"idle", "checked", "begun"}, queue : QueueType]
      BY DEF MergeInv, MergeTypeOK, ProcTypeOK
    <3>2. verifier.pc # "idle" /\ (verifier' = NoPlan \/ verifier'.queue = verifier.queue)
      BY <2>3, <3>1 DEF BeginVerification
    <3> QED
      BY <2>1, <3>2 DEF MergeInv, VerifierFits, Completed
  <2> QED
    BY <2>1, <2>2, <2>3 DEF VerifierStep, VerifierCrash, SaveVerification, VerifierFits
<1> QED
  BY <1>1, <1>2, <1>3, ProcessesStay

LEMMA MergeStep ==
    ASSUME MergeInv, OneOperator, OneOperator', [MergeNext]_mergeVars
    PROVE  MergeInv'
<1>1. CASE UNCHANGED mergeVars
  <2>1. MergeTypeOK' /\ VerifierFits'
    BY <1>1 DEF mergeVars, MergeInv, MergeTypeOK, StoreTypeOK, ProcTypeOK, VerifierFits, Completed
  <2> QED
    BY <1>1, <2>1, ProcessesStay DEF mergeVars
<1>2. ASSUME NEW p \in Procs,
             ReadStore(p) \/ ReadIntegrationHead(p) \/ SaveMergeQueue(p) \/ ProcCrash(p)
      PROVE  MergeInv'
  BY <1>2, PlanStepTypes, PlanStepFits, SaveFits DEF MergeInv
<1> QED
  BY <1>1, <1>2, IntegratorStepFits, RescueStepFits, LaunchFits, EndFits, VerifierStepFits
     DEF MergeNext

(* The invariant of the queue, for any graph and any processes, while the  *)
(* processes take turns.                                                   *)
THEOREM MergeInvariant == MergeSpec /\ []OneOperator => []MergeInv
<1>1. MergeInv /\ OneOperator /\ [MergeNext]_mergeVars /\ OneOperator' => MergeInv'
  BY MergeStep
<1> QED
  BY <1>1, FitsInitially, PTL DEF MergeSpec
-----------------------------------------------------------------------------
(* What the steps do to the branch, the runs and the integrated entries.   *)

(* A restored worktree is back at the claimed head, where the branch was. *)
LEMMA RestoredBranch ==
    ASSUME MergeInv, NEW i \in Integrators, plan[i].pc \in {"open", "source", "staged"},
           RestoreWorktree(i)
    PROVE  tree'.branch = tree.branch
BY DEF MergeInv, ClaimFits, Claiming, RestoreWorktree

(* The branch changes only when a staged change is committed. *)
LEMMA BranchSteps ==
    ASSUME MergeInv, [MergeNext]_mergeVars
    PROVE  \/ tree'.branch = tree.branch
           \/ \E i \in Integrators :
                /\ plan[i].pc = "staged" /\ ChangeOf(i) \in Changes
                /\ tree'.branch = Append(tree.branch, ChangeOf(i))
                /\ \A n \in Attempts : ~On(tree.branch, <<claim[i].work, n>>)
                /\ UNCHANGED <<queue, run, events, report>>
<1>1. CASE UNCHANGED mergeVars
  BY <1>1 DEF mergeVars
<1>2. ASSUME NEW p \in Procs,
             ReadStore(p) \/ ReadIntegrationHead(p) \/ SaveMergeQueue(p) \/ ProcCrash(p)
      PROVE  UNCHANGED tree
  BY <1>2 DEF ReadStore, ReadIntegrationHead, SaveMergeQueue, ProcCrash
<1>3. ASSUME NEW i \in Integrators, IntegratorStep(i), ~CommitApplied(i)
      PROVE  tree'.branch = tree.branch
  <2>1. CASE \E w \in Work : ClaimMergeEntry(i, w)
    BY <2>1 DEF ClaimMergeEntry
  <2>2. CASE ClaimRefused(i) \/ EnsureIntegrationWorktree(i)
    BY <2>2 DEF ClaimRefused, EnsureIntegrationWorktree
  <2>3. CASE SnapshotWorker(i) \/ FinishMergeEntry(i)
    BY <2>3 DEF SnapshotWorker, FinishMergeEntry
  <2>4. CASE ApplySnapshot(i)
    BY <2>4, RestoredBranch DEF ApplySnapshot
  <2>5. CASE IntegrationError(i)
    BY <2>5, RestoredBranch DEF IntegrationError
  <2> QED
    BY <1>3, <2>1, <2>2, <2>3, <2>4, <2>5 DEF IntegratorStep
<1>4. ASSUME NEW i \in Integrators, CommitApplied(i)
      PROVE  \/ tree'.branch = tree.branch
             \/ /\ plan[i].pc = "staged" /\ ChangeOf(i) \in Changes
                /\ tree'.branch = Append(tree.branch, ChangeOf(i))
                /\ \A n \in Attempts : ~On(tree.branch, <<claim[i].work, n>>)
                /\ UNCHANGED <<queue, run, events, report>>
  <2>1. plan[i].pc = "staged" /\ UNCHANGED <<queue, run, events, report>>
    BY <1>4 DEF CommitApplied
  <2> QED
    BY <1>4, <2>1, CommitCases, RestoredBranch
<1>5. ASSUME NEW r \in Rescuers, RescueStep(r) PROVE UNCHANGED tree
  BY <1>5 DEF RescueStep, PlanRescue, RecordDecision, CheckDecision, ResetManagedWorker,
              ApplyMergeRescue, RescueCrash
<1>6. ASSUME NEW w \in Work, NEW n \in Attempts,
             \/ LaunchRun(w, n)
             \/ \E s \in {"succeeded", "failed"}, c \in BOOLEAN : EndRun(w, n, s, c)
      PROVE  UNCHANGED tree
  BY <1>6 DEF LaunchRun, EndRun
<1>7. VerifierStep => UNCHANGED tree
  BY DEF VerifierStep, CheckQueue, BeginVerification, SaveVerification, VerifierCrash
<1> QED
  BY <1>1, <1>2, <1>3, <1>4, <1>5, <1>6, <1>7 DEF MergeNext

(* What is on the branch stays there. *)
LEMMA OnStays ==
    ASSUME MergeInv, [MergeNext]_mergeVars, NEW c, On(tree.branch, c)
    PROVE  On(tree'.branch, c)
<1>1. tree.branch \in Heads
  BY DEF MergeInv, MergeTypeOK, StoreTypeOK
<1>2. CASE tree'.branch = tree.branch
  BY <1>2 DEF On
<1>3. ASSUME NEW i \in Integrators, ChangeOf(i) \in Changes,
             tree'.branch = Append(tree.branch, ChangeOf(i))
      PROVE  On(tree'.branch, c)
  <2>1. On(Append(tree.branch, ChangeOf(i)), c)
    BY <1>1, <1>3, OnAppend
  <2> QED
    BY <1>3, <2>1
<1> QED
  BY <1>2, <1>3, BranchSteps

(* A successful run is never touched again. *)
LEMMA SucceededStays ==
    ASSUME MergeInv, [MergeNext]_mergeVars,
           NEW w \in Work, NEW n \in Attempts, run[w][n].state = "succeeded"
    PROVE  run'[w][n] = run[w][n]
<1>0. run \in [Work -> [Attempts -> RunType]]
  BY DEF MergeInv, MergeTypeOK, StoreTypeOK
<1>1. ASSUME NEW v \in Work, NEW m \in Attempts, run[v][m].state # "succeeded",
             NEW e, run' = [run EXCEPT ![v] = [@ EXCEPT ![m] = e]]
      PROVE  run'[w][n] = run[w][n]
  BY <1>0, <1>1
<1>2. ASSUME NEW v \in Work, NEW m \in Attempts, LaunchRun(v, m)
      PROVE  run'[w][n] = run[w][n]
  <2>1. run[v][m].state = "none"
    BY <1>2, LaunchFits
  <2> QED
    BY <1>1, <1>2, <2>1 DEF LaunchRun
<1>3. ASSUME NEW v \in Work, NEW m \in Attempts,
             NEW s \in {"succeeded", "failed"}, NEW c \in BOOLEAN, EndRun(v, m, s, c)
      PROVE  run'[w][n] = run[w][n]
  <2>1. run[v][m].state = "running"
    BY <1>3 DEF EndRun
  <2> QED
    BY <1>1, <1>3, <2>1 DEF EndRun
<1>4. \/ UNCHANGED run
      \/ \E v \in Work, m \in Attempts :
           \/ LaunchRun(v, m)
           \/ \E s \in {"succeeded", "failed"}, c \in BOOLEAN : EndRun(v, m, s, c)
  <2>1. ASSUME NEW p \in Procs,
               ReadStore(p) \/ ReadIntegrationHead(p) \/ SaveMergeQueue(p) \/ ProcCrash(p)
        PROVE  UNCHANGED run
    BY <2>1 DEF ReadStore, ReadIntegrationHead, SaveMergeQueue, ProcCrash
  <2>2. ASSUME NEW i \in Integrators, IntegratorStep(i) PROVE UNCHANGED run
    BY <2>2 DEF IntegratorStep, ClaimMergeEntry, ClaimRefused, EnsureIntegrationWorktree,
                SnapshotWorker, ApplySnapshot, CommitApplied, IntegrationError, FinishMergeEntry
  <2>3. ASSUME NEW r \in Rescuers, RescueStep(r) PROVE UNCHANGED run
    BY <2>3 DEF RescueStep, PlanRescue, RecordDecision, CheckDecision, ResetManagedWorker,
                ApplyMergeRescue, RescueCrash
  <2>4. VerifierStep => UNCHANGED run
    BY DEF VerifierStep, CheckQueue, BeginVerification, SaveVerification, VerifierCrash
  <2> QED
    BY <2>1, <2>2, <2>3, <2>4 DEF MergeNext, mergeVars
<1> QED
  BY <1>2, <1>3, <1>4

(* An entry becomes integrated only when the integrator that holds it      *)
(* finishes; no computed queue and no rescue makes it so.                  *)
LEMMA IntegratedSteps ==
    ASSUME MergeInv, [MergeNext]_mergeVars, NEW w \in Work, queue'.entry[w].state = "integrated"
    PROVE  \/ queue'.entry[w] = queue.entry[w]
           \/ \E i \in Integrators :
                /\ plan[i].pc = "finish" /\ claim[i].work = w
                /\ queue'.entry[w] = claim[i].entry
                /\ UNCHANGED <<run, tree>>
<1>0. queue \in QueueType
  BY DEF MergeInv, MergeTypeOK, StoreTypeOK
<1>1. CASE UNCHANGED queue
  BY <1>1
<1>2. ASSUME NEW p \in Procs, SaveMergeQueue(p) PROVE queue'.entry[w] = queue.entry[w]
  BY <1>2 DEF SaveMergeQueue, MergeInv, PlanFits, Kept
<1>3. ASSUME NEW i \in Integrators, NEW v \in Work, ClaimMergeEntry(i, v)
      PROVE  queue'.entry[w] = queue.entry[w]
  <2>1. plan[i].queue = queue /\ queue.entry[v] \in EntryType
    BY <1>0, <1>3 DEF ClaimMergeEntry, QueueType
  <2>2. queue'.entry = [queue.entry EXCEPT ![v] = [queue.entry[v] EXCEPT !.state = "integrating"]]
    BY <1>3, <2>1 DEF ClaimMergeEntry
  <2> QED
    BY <1>0, <2>1, <2>2 DEF QueueType, EntryType
<1>4. ASSUME NEW i \in Integrators, FinishMergeEntry(i)
      PROVE  \/ queue'.entry[w] = queue.entry[w]
             \/ /\ plan[i].pc = "finish" /\ claim[i].work = w
                /\ queue'.entry[w] = claim[i].entry
                /\ UNCHANGED <<run, tree>>
  BY <1>0, <1>4 DEF FinishMergeEntry, QueueType
<1>5. ASSUME NEW r \in Rescuers, ApplyMergeRescue(r) PROVE queue'.entry[w] = queue.entry[w]
  BY <1>0, <1>5 DEF ApplyMergeRescue, NoEntry, QueueType
<1>6. \/ UNCHANGED queue
      \/ \E p \in Procs : SaveMergeQueue(p)
      \/ \E i \in Integrators : FinishMergeEntry(i) \/ \E v \in Work : ClaimMergeEntry(i, v)
      \/ \E r \in Rescuers : ApplyMergeRescue(r)
  <2>1. ASSUME NEW p \in Procs, ReadStore(p) \/ ReadIntegrationHead(p) \/ ProcCrash(p)
        PROVE  UNCHANGED queue
    BY <2>1 DEF ReadStore, ReadIntegrationHead, ProcCrash
  <2>2. ASSUME NEW i \in Integrators,
               \/ ClaimRefused(i) \/ EnsureIntegrationWorktree(i) \/ SnapshotWorker(i)
               \/ ApplySnapshot(i) \/ CommitApplied(i) \/ IntegrationError(i)
        PROVE  UNCHANGED queue
    BY <2>2 DEF ClaimRefused, EnsureIntegrationWorktree, SnapshotWorker, ApplySnapshot,
                CommitApplied, IntegrationError
  <2>3. ASSUME NEW r \in Rescuers,
               \/ \E v \in Work : PlanRescue(r, v)
               \/ RecordDecision(r) \/ CheckDecision(r) \/ ResetManagedWorker(r) \/ RescueCrash(r)
        PROVE  UNCHANGED queue
    BY <2>3 DEF PlanRescue, RecordDecision, CheckDecision, ResetManagedWorker, RescueCrash
  <2>4. ASSUME NEW v \in Work, NEW n \in Attempts,
               \/ LaunchRun(v, n)
               \/ \E s \in {"succeeded", "failed"}, c \in BOOLEAN : EndRun(v, n, s, c)
        PROVE  UNCHANGED queue
    BY <2>4 DEF LaunchRun, EndRun
  <2>5. VerifierStep => UNCHANGED queue
    BY DEF VerifierStep, CheckQueue, BeginVerification, SaveVerification, VerifierCrash
  <2> QED
    BY <2>1, <2>2, <2>3, <2>4, <2>5 DEF MergeNext, mergeVars, IntegratorStep, RescueStep
<1> QED
  BY <1>1, <1>2, <1>3, <1>4, <1>5, <1>6

(* An integrated entry speaks of a successful run. *)
LEMMA IntegratedRun ==
    ASSUME MergeInv, NEW w \in Work, queue.entry[w].state = "integrated"
    PROVE  /\ queue.entry[w].run \in Attempts
           /\ run[w][queue.entry[w].run].state = "succeeded"
<1>1. queue.entry[w].run # 0 /\ queue.entry[w].run = Successful(w)
  BY DEF MergeInv, EntriesFit, EntryFits, Standing, Kept
<1> QED
  BY <1>1, SuccessfulRun
-----------------------------------------------------------------------------
(* The properties.                                                         *)

LEMMA IntegratedStep ==
    ASSUME MergeInv, MergeInv', [MergeNext]_mergeVars, IntegratedOnBranch
    PROVE  IntegratedOnBranch'
<1> SUFFICES ASSUME NEW w \in Work, queue'.entry[w].state = "integrated"
             PROVE  \/ On(tree'.branch, <<w, queue'.entry[w].run>>)
                    \/ queue'.entry[w].run \in Attempts /\ ~run'[w][queue'.entry[w].run].changed
  BY DEF IntegratedOnBranch
<1>1. CASE queue'.entry[w] = queue.entry[w]
  <2>1. /\ queue.entry[w].run \in Attempts
        /\ run[w][queue.entry[w].run].state = "succeeded"
    BY <1>1, IntegratedRun
  <2>2. run'[w][queue.entry[w].run] = run[w][queue.entry[w].run]
    BY <2>1, SucceededStays
  <2>3. CASE On(tree.branch, <<w, queue.entry[w].run>>)
    BY <1>1, <2>3, OnStays
  <2>4. CASE ~run[w][queue.entry[w].run].changed
    BY <1>1, <2>1, <2>2, <2>4
  <2> QED
    BY <1>1, <2>3, <2>4 DEF IntegratedOnBranch
<1>2. ASSUME NEW i \in Integrators, plan[i].pc = "finish", claim[i].work = w,
             queue'.entry[w] = claim[i].entry, UNCHANGED <<run, tree>>
      PROVE  \/ On(tree'.branch, <<w, queue'.entry[w].run>>)
             \/ queue'.entry[w].run \in Attempts /\ ~run'[w][queue'.entry[w].run].changed
  <2>1. claim[i].entry.run \in Attempts
    BY <1>2, ClaimedWork DEF Claiming
  <2>2. On(tree.branch, <<w, claim[i].entry.run>>) \/ ~run[w][claim[i].entry.run].changed
    BY <1>2 DEF MergeInv, ClaimFits
  <2>3. On(tree'.branch, <<w, claim[i].entry.run>>) <=> On(tree.branch, <<w, claim[i].entry.run>>)
    BY <1>2 DEF On
  <2> QED
    BY <1>2, <2>1, <2>2, <2>3
<1> QED
  BY <1>1, <1>2, IntegratedSteps

(* While the processes take turns, an entry that says "integrated" tells   *)
(* the truth about the integration branch (IntegratedOnBranch).            *)
THEOREM IntegratedMeansOnBranch == MergeSpec /\ []OneOperator => []IntegratedOnBranch
<1>1. MergeInit => IntegratedOnBranch
  BY DEF MergeInit, NoQueue, NoEntry, IntegratedOnBranch
<1>2. MergeInv /\ MergeInv' /\ [MergeNext]_mergeVars /\ IntegratedOnBranch => IntegratedOnBranch'
  BY IntegratedStep
<1> QED
  BY <1>1, <1>2, MergeInvariant, PTL DEF MergeSpec

(* The places of a branch that a change was appended to. *)
LEMMA Places ==
    ASSUME NEW branch \in Heads, NEW c \in Changes
    PROVE  /\ DOMAIN branch = 1..Len(branch) /\ Len(branch) \in Nat
           /\ DOMAIN Append(branch, c) = 1..(Len(branch) + 1)
           /\ \A k \in 1..Len(branch) : Append(branch, c)[k] = branch[k] /\ branch[k] \in Changes
           /\ Append(branch, c)[Len(branch) + 1] = c
BY DEF Heads

LEMMA OneRunStep ==
    ASSUME MergeInv, [MergeNext]_mergeVars, OneRunPerWork
    PROVE  OneRunPerWork'
<1>0. tree.branch \in Heads
  BY DEF MergeInv, MergeTypeOK, StoreTypeOK
<1>1. CASE tree'.branch = tree.branch
  BY <1>1 DEF OneRunPerWork
<1>2. ASSUME NEW i \in Integrators, ChangeOf(i) \in Changes,
             tree'.branch = Append(tree.branch, ChangeOf(i)),
             \A n \in Attempts : ~On(tree.branch, <<claim[i].work, n>>)
      PROVE  OneRunPerWork'
  <2>1. \A k \in DOMAIN tree.branch : tree.branch[k][1] # ChangeOf(i)[1]
    <3> SUFFICES ASSUME NEW k \in DOMAIN tree.branch, tree.branch[k][1] = ChangeOf(i)[1]
                 PROVE  FALSE
      OBVIOUS
    <3>1. tree.branch[k] \in Changes
      BY <1>0, <1>2, Places
    <3>2. tree.branch[k] = <<claim[i].work, tree.branch[k][2]>> /\ tree.branch[k][2] \in Attempts
      BY <3>1 DEF Changes, ChangeOf
    <3> QED
      BY <1>2, <3>2 DEF On
  <2>2. \A j, k \in DOMAIN tree.branch : tree.branch[j][1] = tree.branch[k][1] => j = k
    BY DEF OneRunPerWork
  <2> DEFINE longer == Append(tree.branch, ChangeOf(i))
             m == Len(tree.branch)
  <2>3. /\ DOMAIN tree.branch = 1..m /\ DOMAIN longer = 1..(m + 1) /\ m \in Nat
        /\ \A k \in 1..m : longer[k] = tree.branch[k]
        /\ longer[m + 1] = ChangeOf(i)
    BY <1>0, <1>2, Places
  <2> HIDE DEF longer, m
  <2>4. \A j, k \in DOMAIN longer : longer[j][1] = longer[k][1] => j = k
    <3> SUFFICES ASSUME NEW j \in 1..(m + 1), NEW k \in 1..(m + 1), longer[j][1] = longer[k][1]
                 PROVE  j = k
      BY <2>3
    <3>1. CASE j \in 1..m /\ k \in 1..m
      BY <2>2, <2>3, <3>1
    <3>2. CASE j = m + 1 /\ k \in 1..m
      BY <2>1, <2>3, <3>2
    <3>3. CASE k = m + 1 /\ j \in 1..m
      BY <2>1, <2>3, <3>3
    <3>4. CASE j = m + 1 /\ k = m + 1
      BY <3>4
    <3> QED
      BY <2>3, <3>1, <3>2, <3>3, <3>4
  <2> QED
    BY <1>2, <2>4 DEF OneRunPerWork, longer
<1> QED
  BY <1>1, <1>2, BranchSteps

(* However often a work item is rescued and run again, at most one of its  *)
(* results is published (OneRunPerWork).                                   *)
THEOREM OneRunPublished == MergeSpec /\ []OneOperator => []OneRunPerWork
<1>1. MergeInit => OneRunPerWork
  BY DEF MergeInit, OneRunPerWork
<1>2. MergeInv /\ [MergeNext]_mergeVars /\ OneRunPerWork => OneRunPerWork'
  BY OneRunStep
<1> QED
  BY <1>1, <1>2, MergeInvariant, PTL DEF MergeSpec

(* A dependency that is integrated is on the branch or changed nothing. *)
LEMMA IntegratedComposed ==
    ASSUME MergeInv, IntegratedOnBranch, NEW d \in Work, queue.entry[d].state = "integrated"
    PROVE  /\ queue.entry[d].run \in Attempts
           /\ run[d][queue.entry[d].run].state = "succeeded"
           /\ \/ On(tree.branch, <<d, queue.entry[d].run>>)
              \/ ~run[d][queue.entry[d].run].changed
BY IntegratedRun DEF IntegratedOnBranch

LEMMA DependenciesStep ==
    ASSUME MergeInv, IntegratedOnBranch, [MergeNext]_mergeVars, DependenciesFirst
    PROVE  DependenciesFirst'
<1> DEFINE Before(branch, k, d) == \E j \in 1..(k - 1) : branch[j][1] = d
           Empty(d) == \E n \in Attempts : run[d][n].state = "succeeded" /\ ~run[d][n].changed
<1>0. tree.branch \in Heads
  BY DEF MergeInv, MergeTypeOK, StoreTypeOK
<1>1. ASSUME NEW d \in Work, Empty(d)
      PROVE  \E n \in Attempts : run'[d][n].state = "succeeded" /\ ~run'[d][n].changed
  BY <1>1, SucceededStays
<1>2. ASSUME NEW k \in DOMAIN tree.branch PROVE tree.branch[k][1] \in Work
  <2>1. tree.branch[k] \in Changes
    BY <1>0 DEF Heads
  <2> QED
    BY <2>1 DEF Changes
<1>3. ASSUME NEW k \in DOMAIN tree.branch, NEW d \in Deps[tree.branch[k][1]]
      PROVE  d \in Work /\ (Before(tree.branch, k, d) \/ Empty(d))
  BY <1>2, MergeAssumption DEF DependenciesFirst
<1>4. CASE tree'.branch = tree.branch
  <2> SUFFICES ASSUME NEW k \in DOMAIN tree.branch, NEW d \in Deps[tree.branch[k][1]]
               PROVE  \/ Before(tree.branch, k, d)
                      \/ \E n \in Attempts : run'[d][n].state = "succeeded" /\ ~run'[d][n].changed
    BY <1>4 DEF DependenciesFirst
  <2> HIDE DEF Before, Empty
  <2> QED
    BY <1>1, <1>3
<1>5. ASSUME NEW i \in Integrators, plan[i].pc = "staged", ChangeOf(i) \in Changes,
             tree'.branch = Append(tree.branch, ChangeOf(i)), UNCHANGED run
      PROVE  DependenciesFirst'
  <2> DEFINE m == Len(tree.branch)
             longer == Append(tree.branch, ChangeOf(i))
  <2>1. /\ DOMAIN tree.branch = 1..m /\ DOMAIN longer = 1..(m + 1) /\ m \in Nat
        /\ \A k \in 1..m : longer[k] = tree.branch[k]
        /\ longer[m + 1] = ChangeOf(i)
    BY <1>0, <1>5, Places
  <2> HIDE DEF longer, m
  <2>2. ASSUME NEW k \in 1..m, NEW d \in Deps[longer[k][1]]
        PROVE  Before(longer, k, d) \/ Empty(d)
    <3>1. Before(tree.branch, k, d) \/ Empty(d)
      BY <1>3, <2>1, <2>2
    <3>2. \A j \in 1..(k - 1) : j \in 1..m
      BY <2>1
    <3> HIDE DEF Empty
    <3> QED
      BY <2>1, <3>1, <3>2
  <2>3. ASSUME NEW d \in Deps[longer[m + 1][1]]
        PROVE  Before(longer, m + 1, d) \/ Empty(d)
    <3>1. claim[i].work \in Work /\ d \in Deps[claim[i].work]
      BY <1>5, <2>1, <2>3, ClaimedWork DEF Claiming, ChangeOf
    <3>2. d \in Work /\ queue.entry[d].state = "integrated"
      BY <1>5, <3>1, ClaimedWork, MergeAssumption DEF Claiming, MissingIntegrations
    <3>3. CASE On(tree.branch, <<d, queue.entry[d].run>>)
      <4>1. PICK j \in DOMAIN tree.branch : tree.branch[j] = <<d, queue.entry[d].run>>
        BY <3>3 DEF On
      <4>2. j \in 1..m /\ longer[j][1] = d
        BY <2>1, <4>1
      <4> QED
        BY <2>1, <4>2
    <3>4. CASE ~run[d][queue.entry[d].run].changed
      BY <3>2, <3>4, IntegratedComposed
    <3> QED
      BY <3>2, <3>3, <3>4, IntegratedComposed
  <2>4. ASSUME NEW k \in DOMAIN longer, NEW d \in Deps[longer[k][1]]
        PROVE  Before(longer, k, d) \/ Empty(d)
    <3>1. k \in 1..m \/ k = m + 1
      BY <2>1
    <3> HIDE DEF Before, Empty
    <3> QED
      BY <2>2, <2>3, <2>4, <3>1
  <2>5. tree'.branch = longer
    BY <1>5 DEF longer
  <2> QED
    BY <1>5, <2>4, <2>5 DEF DependenciesFirst
<1> QED
  BY <1>4, <1>5, BranchSteps

(* The branch is composed in dependency order, whatever was rescued and    *)
(* run again in between (DependenciesFirst).                               *)
THEOREM DependenciesPublishedFirst == MergeSpec /\ []OneOperator => []DependenciesFirst
<1>1. MergeInit => DependenciesFirst
  BY DEF MergeInit, DependenciesFirst
<1>2. MergeInv /\ IntegratedOnBranch /\ [MergeNext]_mergeVars /\ DependenciesFirst
        => DependenciesFirst'
  BY DependenciesStep
<1> QED
  BY <1>1, <1>2, MergeInvariant, IntegratedMeansOnBranch, PTL DEF MergeSpec

LEMMA VerifiedStep ==
    ASSUME MergeInv, IntegratedOnBranch, [MergeNext]_mergeVars, VerifiedComposed
    PROVE  VerifiedComposed'
<1> DEFINE Composed(w) ==
        \E n \in Attempts : /\ run[w][n].state = "succeeded"
                            /\ On(tree.branch, <<w, n>>) \/ ~run[w][n].changed
<1>1. ASSUME NEW w \in Work, Composed(w)
      PROVE  \E n \in Attempts : /\ run'[w][n].state = "succeeded"
                                 /\ On(tree'.branch, <<w, n>>) \/ ~run'[w][n].changed
  <2>1. PICK n \in Attempts : /\ run[w][n].state = "succeeded"
                              /\ On(tree.branch, <<w, n>>) \/ ~run[w][n].changed
    BY <1>1
  <2>2. run'[w][n] = run[w][n]
    BY <2>1, SucceededStays
  <2>3. On(tree.branch, <<w, n>>) => On(tree'.branch, <<w, n>>)
    BY OnStays
  <2> QED
    BY <2>1, <2>2, <2>3
<1>2. report' = "verified" => \A w \in Work : Composed(w)
  <2>1. CASE report' = report
    BY <2>1 DEF VerifiedComposed
  <2>2. ASSUME NEW result, SaveVerification(result), queue = verifier.queue
        PROVE  \A w \in Work : Composed(w)
    <3>1. Completed(queue)
      BY <2>2 DEF SaveVerification, MergeInv, VerifierFits, Completed
    <3> QED
      BY <3>1, IntegratedComposed DEF Completed
  <2>3. report' = report \/ \E result : SaveVerification(result) /\ queue = verifier.queue
    <3>1. ASSUME NEW p \in Procs,
                 ReadStore(p) \/ ReadIntegrationHead(p) \/ SaveMergeQueue(p) \/ ProcCrash(p)
          PROVE  UNCHANGED report
      BY <3>1 DEF ReadStore, ReadIntegrationHead, SaveMergeQueue, ProcCrash
    <3>2. ASSUME NEW i \in Integrators, IntegratorStep(i) PROVE UNCHANGED report
      BY <3>2 DEF IntegratorStep, ClaimMergeEntry, ClaimRefused, EnsureIntegrationWorktree,
                  SnapshotWorker, ApplySnapshot, CommitApplied, IntegrationError, FinishMergeEntry
    <3>3. ASSUME NEW r \in Rescuers, RescueStep(r) PROVE UNCHANGED report
      BY <3>3 DEF RescueStep, PlanRescue, RecordDecision, CheckDecision, ResetManagedWorker,
                  ApplyMergeRescue, RescueCrash
    <3>4. ASSUME NEW w \in Work, NEW n \in Attempts,
                 \/ LaunchRun(w, n)
                 \/ \E s \in {"succeeded", "failed"}, c \in BOOLEAN : EndRun(w, n, s, c)
          PROVE  UNCHANGED report
      BY <3>4 DEF LaunchRun, EndRun
    <3>5. VerifierStep => report' = report \/ \E result : SaveVerification(result) /\ queue = verifier.queue
      BY DEF VerifierStep, CheckQueue, BeginVerification, SaveVerification, VerifierCrash
    <3> QED
      BY <3>1, <3>2, <3>3, <3>4, <3>5 DEF MergeNext, mergeVars
  <2> QED
    BY <2>1, <2>2, <2>3
<1> HIDE DEF Composed
<1> QED
  BY <1>1, <1>2 DEF VerifiedComposed

(* A session is reported as verified only when every work item's result is *)
(* composed, and stays so (VerifiedComposed).                              *)
THEOREM VerifiedIsComposed == MergeSpec /\ []OneOperator => []VerifiedComposed
<1>1. MergeInit => VerifiedComposed
  BY DEF MergeInit, VerifiedComposed
<1>2. MergeInv /\ IntegratedOnBranch /\ [MergeNext]_mergeVars /\ VerifiedComposed
        => VerifiedComposed'
  BY VerifiedStep
<1> QED
  BY <1>1, <1>2, MergeInvariant, IntegratedMeansOnBranch, PTL DEF MergeSpec

(* No published change is superseded by a rescue (SupersededUnpublished):  *)
(* a branch that holds a change keeps its entry reserved or integrated.    *)
THEOREM SupersededIsUnpublished == MergeSpec /\ []OneOperator => []SupersededUnpublished
<1>1. MergeInv => SupersededUnpublished
  <2> SUFFICES ASSUME MergeInv, NEW w \in Work, NEW n \in events[w].superseded,
                      On(tree.branch, <<w, n>>)
               PROVE  FALSE
    BY DEF SupersededUnpublished
  <2>1. n \in Attempts
    BY DEF MergeInv, MergeTypeOK, StoreTypeOK
  <2>2. queue.entry[w].state \in {"integrating", "integrated"} /\ queue.entry[w].run = n
    BY <2>1 DEF MergeInv, BranchFits
  <2>3. n # 0 /\ n = Successful(w)
    BY <2>2 DEF MergeInv, EntriesFit, EntryFits, Standing, Kept
  <2> QED
    BY <2>3, SuccessfulRun
<1> QED
  BY <1>1, MergeInvariant, PTL

LEMMA RepairsStep ==
    ASSUME MergeInv, [MergeNext]_mergeVars, RepairsBounded
    PROVE  RepairsBounded'
<1>0. events \in [Work -> [count : Nat, prepared : Nat, superseded : SUBSET Attempts]]
  BY DEF MergeInv, MergeTypeOK, StoreTypeOK
<1>1. CASE \A w \in Work : events'[w].prepared = events[w].prepared
  BY <1>1 DEF RepairsBounded
<1>2. ASSUME NEW r \in Rescuers, ApplyMergeRescue(r) PROVE RepairsBounded'
  <2> DEFINE w == rescue[r].work
  <2>1. /\ w \in Work /\ events[w].count + 1 <= MaxRepairs
        /\ events[w].prepared <= events[w].count
    BY <1>2 DEF ApplyMergeRescue, MergeInv, RescueFits, Attempt, RepairsCounted
  <2>2. events[w].prepared \in Nat /\ events[w].count \in Nat
    BY <1>0, <2>1
  <2>3. Counted(events[w].prepared) <= MaxRepairs
    BY <2>1, <2>2, MergeAssumption DEF Counted
  <2>4. \A v \in Work : \/ events'[v].prepared = events[v].prepared
                        \/ events'[v].prepared = Counted(events[w].prepared)
    BY <1>0, <1>2, <2>1 DEF ApplyMergeRescue
  <2> QED
    BY <2>3, <2>4 DEF RepairsBounded
<1>3. (\A w \in Work : events'[w].prepared = events[w].prepared)
      \/ \E r \in Rescuers : ApplyMergeRescue(r)
  <2>1. ASSUME NEW p \in Procs,
               ReadStore(p) \/ ReadIntegrationHead(p) \/ SaveMergeQueue(p) \/ ProcCrash(p)
        PROVE  UNCHANGED events
    BY <2>1 DEF ReadStore, ReadIntegrationHead, SaveMergeQueue, ProcCrash
  <2>2. ASSUME NEW i \in Integrators, IntegratorStep(i) PROVE UNCHANGED events
    BY <2>2 DEF IntegratorStep, ClaimMergeEntry, ClaimRefused, EnsureIntegrationWorktree,
                SnapshotWorker, ApplySnapshot, CommitApplied, IntegrationError, FinishMergeEntry
  <2>3. ASSUME NEW r \in Rescuers, RecordDecision(r)
        PROVE  \A w \in Work : events'[w].prepared = events[w].prepared
    BY <1>0, <2>3 DEF RecordDecision
  <2>4. ASSUME NEW r \in Rescuers, RescueStep(r), ~ApplyMergeRescue(r), ~RecordDecision(r)
        PROVE  UNCHANGED events
    BY <2>4 DEF RescueStep, PlanRescue, CheckDecision, ResetManagedWorker, RescueCrash
  <2>5. ASSUME NEW w \in Work, NEW n \in Attempts,
               \/ LaunchRun(w, n)
               \/ \E s \in {"succeeded", "failed"}, c \in BOOLEAN : EndRun(w, n, s, c)
        PROVE  UNCHANGED events
    BY <2>5 DEF LaunchRun, EndRun
  <2>6. VerifierStep => UNCHANGED events
    BY DEF VerifierStep, CheckQueue, BeginVerification, SaveVerification, VerifierCrash
  <2> QED
    BY <2>1, <2>2, <2>3, <2>4, <2>5, <2>6 DEF MergeNext, mergeVars
<1> QED
  BY <1>1, <1>2, <1>3

(* max_repairs_per_work_item holds although the events are counted when a  *)
(* rescue is planned and recorded when it is applied (RepairsBounded).     *)
THEOREM RepairsAreBounded == MergeSpec /\ []OneOperator => []RepairsBounded
<1>1. MergeInit => RepairsBounded
  BY MergeAssumption DEF MergeInit, RepairsBounded
<1>2. MergeInv /\ [MergeNext]_mergeVars /\ RepairsBounded => RepairsBounded'
  BY RepairsStep
<1> QED
  BY <1>1, <1>2, MergeInvariant, PTL DEF MergeSpec
=============================================================================
