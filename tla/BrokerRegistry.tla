---------------------------- MODULE BrokerRegistry ----------------------------
(***************************************************************************)
(* The broker tables of core/registry.py on top of the intent tables: the  *)
(* broker instances, the writer lease and fencing counter of a worktree    *)
(* root, and the two-phase broker operations.  A transaction that makes an *)
(* intent stale also fences its brokers; that is why every intent          *)
(* operation is joined here with FenceBrokers.                             *)
(*                                                                         *)
(* An operation row is kept per instance: a broker handles one request at  *)
(* a time, so all but the latest row of an instance are settled.           *)
(* Attestations and receipts (HMAC) are taken to verify.                   *)
(***************************************************************************)
EXTENDS IntentRegistry

CONSTANTS
    Brokers,      \* broker instance identifiers; an identifier registers once
    NoBroker,     \* no lease row
    Roots,        \* canonical worktree roots
    Serves,       \* Serves[b]: the intent of instance b
    RootOf,       \* RootOf[b]: the worktree of instance b
    WriterTicks   \* writer_lease_seconds

ASSUME BrokerAssumption ==
    /\ NoBroker \notin Brokers
    /\ Serves \in [Brokers -> Intents]
    /\ RootOf \in [Brokers -> Roots]
    /\ WriterTicks \in Nat \ {0}

VARIABLES
    broker,    \* broker_instances: state, bound content version, base, token, expected tree
    writer,    \* broker_writer_leases: holder, token, ticks left
    counter,   \* broker_fencing_counters.last_token
    op         \* the latest broker_operations row of an instance: state and trees

brokerVars == <<broker, writer, counter, op>>

(* A tree hash: the base commit and the content of the worktree over it. *)
Trees == Bases \X Nat
NoTree == <<"", 0>>

NoLease == [holder |-> NoBroker, token |-> 0, left |-> 0]
NoOp    == [state |-> "none", pre |-> NoTree]

BrokerTypeOK ==
    /\ broker \in [Brokers -> [ state : {"none", "active", "stopped", "expired", "fenced"},
                                cv : Nat, token : Nat, tree : Trees \cup {NoTree} ]]
    /\ writer \in [Roots -> [holder : Brokers \cup {NoBroker}, token : Nat, left : Nat]]
    /\ counter \in [Roots -> Nat]
    /\ op \in [Brokers -> [ state : {"none", "pending", "committed", "failed", "rolled_back"},
                            pre : Trees \cup {NoTree} ]]

BrokerInit ==
    /\ broker = [b \in Brokers |-> [state |-> "none", cv |-> 0, token |-> 0, tree |-> NoTree]]
    /\ writer = [w \in Roots |-> NoLease]
    /\ counter = [w \in Roots |-> 0]
    /\ op = [b \in Brokers |-> NoOp]

-----------------------------------------------------------------------------
(* _expire_broker_writer_leases_locked *)

Lapsed(w) == writer[w].holder # NoBroker /\ writer[w].left = 0

SweptWriter == [w \in Roots |-> IF Lapsed(w) THEN NoLease ELSE writer[w]]

SweptBroker ==
    [b \in Brokers |->
        IF broker[b].state = "active" /\ \E w \in Roots : Lapsed(w) /\ writer[w].holder = b
        THEN [broker[b] EXCEPT !.state = "expired"]
        ELSE broker[b]]

(* Variant: the bound content version is not compared. *)
ValidBrokerAnyContent(b) ==
    /\ broker[b].state = "active"
    /\ SweptWriter[RootOf[b]].holder = b
    /\ SweptWriter[RootOf[b]].token = broker[b].token
    /\ Swept[Serves[b]] \in Live

(* _validate_broker_instance_locked, after both sweeps.  An instance's base *)
(* commit is the base of the tree it was registered with.                   *)
ValidBroker(b) ==
    LET i == Serves[b] IN
    /\ broker[b].state = "active"
    /\ SweptWriter[RootOf[b]].holder = b
    /\ SweptWriter[RootOf[b]].token = broker[b].token
    /\ Swept[i] \in Live
    /\ broker[b].cv = cv[i]
    /\ broker[b].tree[1] = pl[i].base

SweepAll ==
    /\ SweepOnly(0)
    /\ broker' = SweptBroker
    /\ writer' = SweptWriter

-----------------------------------------------------------------------------
(* register_broker_instance: the root must be free of any other writer, a  *)
(* refreshed intent must have resumed, and the new writer's token exceeds  *)
(* every earlier one of the root.                                          *)
RegisterBroker(b, tree) ==
    LET i == Serves[b]
        w == RootOf[b]
        token == counter[w] + 1
    IN  /\ broker[b].state = "none"
        /\ Swept[i] \in Live
        /\ recovery[i].phase # "refreshed"
        /\ pl[i].base = tree[1]
        /\ SweptWriter[w].holder = NoBroker
        /\ SweepOnly(0)
        /\ counter' = [counter EXCEPT ![w] = token]
        /\ broker' = [SweptBroker EXCEPT ![b] =
                        [state |-> "active", cv |-> cv[i], token |-> token, tree |-> tree]]
        /\ writer' = [SweptWriter EXCEPT ![w] =
                        [holder |-> b, token |-> token, left |-> WriterTicks]]
        /\ UNCHANGED op

(* validate_broker_instance renews the writer lease. *)
ValidateBroker(b, tree) ==
    /\ ValidBroker(b)
    /\ broker[b].tree = tree
    /\ SweepOnly(0)
    /\ broker' = SweptBroker
    /\ writer' = [SweptWriter EXCEPT ![RootOf[b]].left = WriterTicks]
    /\ UNCHANGED <<counter, op>>

(* prepare_broker_operation *)
PrepareOperation(b, tree) ==
    /\ ValidBroker(b)
    /\ broker[b].tree = tree
    /\ SweepAll
    /\ op' = [op EXCEPT ![b] = [state |-> "pending", pre |-> tree]]
    /\ UNCHANGED counter

(* commit_broker_operation: a compare-and-swap of the expected tree. *)
CanCommit(b) ==
    /\ op[b].state = "pending"
    /\ ValidBroker(b)
    /\ broker[b].tree = op[b].pre

CommitOperation(b, post) ==
    /\ CanCommit(b)
    /\ SweepOnly(0)
    /\ broker' = [SweptBroker EXCEPT ![b].tree = post]
    /\ writer' = SweptWriter
    /\ op' = [op EXCEPT ![b].state = "committed"]
    /\ UNCHANGED counter

(* fail_broker_operation *)
FailOperation(b, state) ==
    /\ op[b].state # "committed"
    /\ op' = [op EXCEPT ![b].state = state]
    /\ UNCHANGED <<broker, writer, counter>>

(* stop_broker_instance leaves a pending operation as it is. *)
StopBroker(b) ==
    LET held == writer[RootOf[b]].holder = b IN
    IF broker[b].state = "active"
    THEN /\ broker' = [broker EXCEPT ![b].state = "stopped"]
         /\ writer' = [writer EXCEPT ![RootOf[b]] = IF held THEN NoLease ELSE @]
         /\ UNCHANGED <<counter, op>>
    ELSE UNCHANGED brokerVars

-----------------------------------------------------------------------------
(* Intent operations as seen by the broker tables.                         *)

ActiveBrokers(i) == { b \in Brokers : Serves[b] = i /\ broker[b].state = "active" }

(* Variant: the writer lease of a fenced broker stays. *)
FenceBrokersLeased ==
    LET fenced == UNION { ActiveBrokers(i) :
                            i \in { j \in Intents : st[j] # "STALE" /\ st'[j] = "STALE" } }
    IN  /\ broker' = [b \in Brokers |->
                        IF b \in fenced THEN [broker[b] EXCEPT !.state = "fenced"] ELSE broker[b]]
        /\ op' = [b \in Brokers |->
                    IF b \in fenced /\ op[b].state = "pending"
                    THEN [op[b] EXCEPT !.state = "failed"] ELSE op[b]]
        /\ UNCHANGED <<counter, writer>>

(* _fence_intent_runtime_locked, for every intent this step makes stale. *)
FenceBrokers ==
    LET fenced == UNION { ActiveBrokers(i) :
                            i \in { j \in Intents : st[j] # "STALE" /\ st'[j] = "STALE" } }
    IN  /\ broker' = [b \in Brokers |->
                        IF b \in fenced THEN [broker[b] EXCEPT !.state = "fenced"] ELSE broker[b]]
        /\ writer' = [w \in Roots |-> IF writer[w].holder \in fenced THEN NoLease ELSE writer[w]]
        /\ op' = [b \in Brokers |->
                    IF b \in fenced /\ op[b].state = "pending"
                    THEN [op[b] EXCEPT !.state = "failed"] ELSE op[b]]
        /\ UNCHANGED counter

(* refresh_stale_intent and resume_refreshed_intent want no broker left. *)
GovernedStep(i) ==
    \/ \E p \in Payloads[i] : (AdmitIntent(i, p) \/ AmendIntent(i, p)) /\ FenceBrokers
    \/ \E m \in Requests : PromoteContingent(i, m) /\ FenceBrokers
    \/ (PauseRuntime(i) \/ InvalidateDependents(i, ContractKeys(pl[i]))) /\ FenceBrokers
    \/ /\ ActiveBrokers(i) = {}
       /\ \E b \in Bases, a \in BOOLEAN : RefreshStale(i, b, a)
       /\ UNCHANGED brokerVars
    \/ ActiveBrokers(i) = {} /\ ResumeRefreshed(i) /\ UNCHANGED brokerVars
    \/ /\ ActivateIntent(i) \/ CompleteIntent(i) \/ ReleaseIntent(i)
       /\ UNCHANGED brokerVars

(* promote_contingent_operations for a broker: in the same transaction     *)
(* _refresh_broker_intent_binding_locked binds the active instance to the  *)
(* content version just made, whatever version it was bound to.            *)
PromoteForBroker(b, m) ==
    /\ PromoteContingent(Serves[b], m)
    /\ IF cv'[Serves[b]] # cv[Serves[b]]
       THEN /\ broker[b].state = "active"
            /\ broker' = [broker EXCEPT ![b].cv = cv'[Serves[b]]]
       ELSE UNCHANGED broker
    /\ UNCHANGED <<writer, counter, op>>

BrokerTick ==
    /\ Tick
    /\ writer' = [w \in Roots |-> IF writer[w].left > 0 THEN [writer[w] EXCEPT !.left = @ - 1]
                                                        ELSE writer[w]]
    /\ UNCHANGED <<broker, counter, op>>
=============================================================================
