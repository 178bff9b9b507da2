----------------------------- MODULE BrokerRuntime -----------------------------
(***************************************************************************)
(* The broker processes of runtime/broker.py and the worktree lock of      *)
(* runtime/worktree_lock.py over the tables of BrokerRegistry.  A process  *)
(* holds the lock of its worktree, handles one mutation request at a time  *)
(* (validate, scope, prepare, mutate, commit or roll back) and may crash   *)
(* between any two steps.  Between its transactions other processes use    *)
(* the registry freely.                                                    *)
(*                                                                         *)
(* The worktree is reduced to its HEAD and the content of the one file the *)
(* requests are about; content 0 is the base content.                      *)
(***************************************************************************)
EXTENDS BrokerRegistry

CONSTANT MaxContents   \* bound on the contents written

ASSUME RuntimeAssumption == MaxContents \in Nat

(* The mutation handlers ask for one resolved file, never in a read mode. *)
ASSUME MutationAssumption == \A m \in Requests : ~IsPattern(m.path) /\ "read" \notin m.modes

VARIABLES
    lock,      \* lock[w]: the process holding the flock of worktree w
    handler,   \* per broker process: phase, request, authorising payload, backup, post tree
    serving,   \* the process accepts requests
    tree       \* tree[w]: HEAD and content of the worktree

runtimeVars == <<lock, handler, serving, tree>>
allVars == <<vars, brokerVars, runtimeVars>>

Phases == { "off", "starting", "idle", "validated", "promoted", "scoped", "prepared",
            "mutated", "restored", "dead" }
NoRequest == [path |-> <<"", "">>, region |-> NoRegion, modes |-> {}]
Idle(phase) ==
    [phase |-> phase, request |-> NoRequest, seen |-> NoPayload, backup |-> 0, post |-> NoTree]

RuntimeTypeOK ==
    /\ TypeOK
    /\ BrokerTypeOK
    /\ lock \in [Roots -> Brokers \cup {NoBroker}]
    /\ handler \in [Brokers -> [ phase : Phases, request : Requests \cup {NoRequest},
                                 seen : ContentType \cup {NoPayload},
                                 backup : Nat, post : Trees \cup {NoTree} ]]
    /\ serving \in [Brokers -> BOOLEAN]
    /\ tree \in [Roots -> Trees]

RuntimeInit ==
    /\ Init
    /\ BrokerInit
    /\ lock = [w \in Roots |-> NoBroker]
    /\ handler = [b \in Brokers |-> Idle("off")]
    /\ serving = [b \in Brokers |-> FALSE]
    /\ \E base \in Bases : tree = [w \in Roots |-> <<base, 0>>]

Phase(b) == handler[b].phase
Tree(b)  == tree[RootOf[b]]

-----------------------------------------------------------------------------
(* _BrokerCore.__init__ and close.                                         *)

AcquireLock(b) ==
    /\ Phase(b) = "off"
    /\ lock[RootOf[b]] = NoBroker
    /\ lock' = [lock EXCEPT ![RootOf[b]] = b]
    /\ handler' = [handler EXCEPT ![b].phase = "starting"]
    /\ UNCHANGED <<vars, brokerVars, serving, tree>>

(* HEAD is the intent's base and the worktree is clean; a new instance has *)
(* no operations of its own for _recover_pending to undo.                  *)
FinishStart(b) ==
    /\ Phase(b) = "starting"
    /\ Tree(b) = <<pl[Serves[b]].base, 0>>
    /\ RegisterBroker(b, Tree(b))
    /\ handler' = [handler EXCEPT ![b].phase = "idle"]
    /\ serving' = [serving EXCEPT ![b] = TRUE]
    /\ UNCHANGED <<lock, tree>>

ReleasedLock(b) == [lock EXCEPT ![RootOf[b]] = IF @ = b THEN NoBroker ELSE @]

(* Any failure of the start-up releases the lock. *)
FailStart(b) ==
    /\ Phase(b) = "starting"
    /\ handler' = [handler EXCEPT ![b].phase = "off"]
    /\ lock' = ReleasedLock(b)
    /\ UNCHANGED <<vars, brokerVars, serving, tree>>

(* close does not take the request lock, and handler threads are daemons:  *)
(* a request in flight goes on without the worktree lock.                  *)
Close(b) ==
    /\ serving[b]
    /\ StopBroker(b)
    /\ lock' = ReleasedLock(b)
    /\ serving' = [serving EXCEPT ![b] = FALSE]
    /\ UNCHANGED <<vars, handler, tree>>

(* The process dies; the operating system drops its lock, the tables and   *)
(* the worktree stay as they are.                                          *)
Crash(b) ==
    /\ Phase(b) \notin {"off", "dead"}
    /\ handler' = [handler EXCEPT ![b] = Idle("dead")]
    /\ lock' = ReleasedLock(b)
    /\ serving' = [serving EXCEPT ![b] = FALSE]
    /\ UNCHANGED <<vars, brokerVars, tree>>

-----------------------------------------------------------------------------
(* _BrokerCore.handle for a mutation request.                              *)

(* _matching_operations, the contingent ones: regions are not looked at.   *)
Contingent(p, m) ==
    \E o \in p.ops : /\ ~o.committed /\ o.access \in m.modes
                     /\ o.kind \in PathKinds /\ CoversPath(o.ident, m.path)

(* _region_authorized *)
Authorized(p, m) ==
    \E o \in p.ops : /\ o.committed /\ o.access \in m.modes
                     /\ o.kind \in PathKinds /\ CoversPath(o.ident, m.path)
                     /\ RegionCovers(o.region, m.region)

BeginRequest(b, m) ==
    /\ serving[b] /\ Phase(b) = "idle"
    /\ ValidateBroker(b, Tree(b))
    /\ handler' = [handler EXCEPT ![b].phase = "validated", ![b].request = m,
                                  ![b].seen = pl[Serves[b]]]
    /\ UNCHANGED <<lock, serving, tree>>

(* _ensure_mutation_scope: no expected_version is passed, so the promotion *)
(* applies to whatever the intent has become since it was validated.       *)
PromoteScope(b) ==
    LET h == handler[b] IN
    /\ h.phase = "validated"
    /\ ~Authorized(h.seen, h.request)
    /\ Contingent(h.seen, h.request)
    /\ PromoteForBroker(b, h.request)
    /\ handler' = [handler EXCEPT ![b] =
                     IF cv'[Serves[b]] # cv[Serves[b]]
                     THEN [h EXCEPT !.phase = "promoted"] ELSE Idle("idle")]
    /\ UNCHANGED <<lock, serving, tree>>

(* The promoted intent is read back in a second transaction. *)
ReadPromoted(b) ==
    /\ Phase(b) = "promoted"
    /\ handler' = [handler EXCEPT ![b].phase = "scoped", ![b].seen = pl[Serves[b]]]
    /\ UNCHANGED <<vars, brokerVars, lock, serving, tree>>

(* The promotion is tried and the registry raises no ValueError: the       *)
(* intent is live, has a contingent capability for the region now, and the *)
(* instance may be rebound.                                                *)
Promotable(b) ==
    /\ Contingent(handler[b].seen, handler[b].request)
    /\ Swept[Serves[b]] \in Live
    /\ PromotionSelected(pl[Serves[b]], handler[b].request) # {}
    /\ broker[b].state = "active"

(* Every way the request ends before it is prepared: no capability and     *)
(* nothing promoted, or the registry refuses to prepare it.                *)
Refuse(b) ==
    LET h == handler[b] IN
    /\ h.phase \in {"validated", "scoped"}
    /\ IF Authorized(h.seen, h.request)
       THEN ~(ValidBroker(b) /\ broker[b].tree = Tree(b))
       ELSE h.phase = "scoped" \/ ~Promotable(b)
    /\ handler' = [handler EXCEPT ![b] = Idle("idle")]
    /\ UNCHANGED <<vars, brokerVars, lock, serving, tree>>

Prepare(b) ==
    /\ Phase(b) \in {"validated", "scoped"}
    /\ Authorized(handler[b].seen, handler[b].request)
    /\ PrepareOperation(b, Tree(b))
    /\ handler' = [handler EXCEPT ![b].phase = "prepared", ![b].backup = Tree(b)[2]]
    /\ UNCHANGED <<lock, serving, tree>>

Mutate(b, content) ==
    /\ Phase(b) = "prepared"
    /\ content # Tree(b)[2]
    /\ tree' = [tree EXCEPT ![RootOf[b]][2] = content]
    /\ handler' = [handler EXCEPT ![b].phase = "mutated", ![b].post = <<Tree(b)[1], content>>]
    /\ UNCHANGED <<vars, brokerVars, lock, serving>>

Commit(b) ==
    /\ Phase(b) = "mutated"
    /\ CommitOperation(b, handler[b].post)
    /\ handler' = [handler EXCEPT ![b] = Idle("idle")]
    /\ UNCHANGED <<lock, serving, tree>>

(* Variant: the mutation is left in the worktree. *)
RollbackNothing(b) ==
    /\ Phase(b) = "mutated"
    /\ ~CanCommit(b)
    /\ handler' = [handler EXCEPT ![b].phase = "restored"]
    /\ UNCHANGED <<vars, brokerVars, lock, serving, tree>>

(* The commit raised: the backup is put back, then the row is updated. *)
Rollback(b) ==
    /\ Phase(b) = "mutated"
    /\ ~CanCommit(b)
    /\ tree' = [tree EXCEPT ![RootOf[b]][2] = handler[b].backup]
    /\ handler' = [handler EXCEPT ![b].phase = "restored"]
    /\ UNCHANGED <<vars, brokerVars, lock, serving>>

ReportRollback(b) ==
    /\ Phase(b) = "restored"
    /\ FailOperation(b, "rolled_back")
    /\ handler' = [handler EXCEPT ![b] = Idle("idle")]
    /\ UNCHANGED <<vars, lock, serving, tree>>

-----------------------------------------------------------------------------
(* An operator checks out a clean worktree that no broker holds. *)
ResetWorktree(w, base) ==
    /\ lock[w] = NoBroker
    /\ tree' = [tree EXCEPT ![w] = <<base, 0>>]
    /\ UNCHANGED <<vars, brokerVars, lock, handler, serving>>

BrokerStep(b) ==
    \/ AcquireLock(b) \/ FinishStart(b) \/ FailStart(b) \/ Close(b) \/ Crash(b)
    \/ \E m \in Requests : BeginRequest(b, m)
    \/ PromoteScope(b) \/ ReadPromoted(b) \/ Refuse(b) \/ Prepare(b)
    \/ \E c \in 0..MaxContents : Mutate(b, c)
    \/ Commit(b) \/ Rollback(b) \/ ReportRollback(b)

RegistryStep ==
    /\ \/ \E i \in Intents : GovernedStep(i)
       \/ (ExpireStale \/ \E i \in Intents : HeartbeatIntent(i)) /\ UNCHANGED brokerVars
       \/ BrokerTick
    /\ UNCHANGED runtimeVars

RuntimeNext ==
    \/ \E b \in Brokers : BrokerStep(b)
    \/ \E w \in Roots, base \in Bases : ResetWorktree(w, base)
    \/ RegistryStep

RuntimeSpec == RuntimeInit /\ [][RuntimeNext]_allVars

-----------------------------------------------------------------------------
(* Whoever may write is exactly the holder of the worktree's lease: an     *)
(* active instance holds the lease of its root with the newest token of    *)
(* that root, and no instance of a stale intent is active (the fencing of  *)
(* _fence_intent_runtime_locked is complete, whichever operation made the  *)
(* intent stale).                                                          *)
WriterAuthority ==
    /\ \A b \in Brokers :
         broker[b].state = "active" =>
            /\ writer[RootOf[b]].holder = b
            /\ writer[RootOf[b]].token = broker[b].token
            /\ broker[b].token = counter[RootOf[b]]
            /\ st[Serves[b]] # "STALE"
    /\ \A w \in Roots : writer[w].holder # NoBroker => broker[writer[w].holder].state = "active"

(* A mutation is committed only under the authority that allowed it: the   *)
(* intent is live, its content is still the one the request was authorised *)
(* against, and no other instance has registered on the worktree since.    *)
CommittedUnderAuthority ==
    [][\A b \in Brokers :
         op[b].state = "pending" /\ op'[b].state = "committed" =>
            /\ st'[Serves[b]] \in Live
            /\ pl'[Serves[b]] = handler[b].seen
            /\ counter'[RootOf[b]] = broker[b].token]_allVars
=============================================================================
