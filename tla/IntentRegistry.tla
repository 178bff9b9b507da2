---------------------------- MODULE IntentRegistry ----------------------------
(***************************************************************************)
(* The intent tables of core/registry.py: the life cycle of change         *)
(* intents, their leases, dependency edges, runtime fences and recovery    *)
(* records.  Any number of processes call the registry; every public       *)
(* operation is one BEGIN IMMEDIATE transaction, hence one action here.    *)
(* An operation that raises rolls everything back and is no step.          *)
(*                                                                         *)
(* Left out, because no guard below reads them: the row version (its       *)
(* compare-and-set only makes a call raise), notices, audit events.        *)
(***************************************************************************)
EXTENDS Admission, FiniteSets

CONSTANTS
    Intents,      \* intent identifiers
    NoProducer,   \* a fence without producer_intent_id (a manual pause)
    Bases,        \* base commits
    Payloads,     \* Payloads[i]: the contents a caller may submit for intent i
    Requests,     \* mutations a scope promotion may be asked for
    LeaseTicks,   \* lease_seconds
    TxnTicks,     \* how far the clock may move between the reads of one transaction
    MaxContent,   \* bound on content_version
    Paths, Lines  \* the files and lines over which write clashes are stated

Live     == {"ADMITTED", "ACTIVE"}
Trusting == Live \cup {"COMPLETED"}
States   == Trusting \cup {"BLOCKED", "RELEASED", "EXPIRED", "STALE"}
Absent   == "absent"

Explicit == <<>>      \* resource_key '' of an explicit dependency
Statuses == {"active", "stale", "missing"}
NoPayload == [ops |-> {}, base |-> "", deps |-> {}, amendment |-> FALSE, semantics |-> "ok"]
NoRecovery == [phase |-> "none", cv |-> 0]

ContentType ==
    [ ops : SUBSET Operations, base : Bases, deps : SUBSET Intents,
      amendment : BOOLEAN, semantics : {"ok", "unavailable"} ]

ASSUME RegistryAssumption ==
    /\ NoProducer \notin Intents
    /\ IsFiniteSet(Intents)
    /\ LeaseTicks \in Nat \ {0} /\ TxnTicks \in Nat /\ MaxContent \in Nat

(* A ChangeIntent never depends on itself; a caller does not forge _amendment. *)
ASSUME PayloadAssumption ==
    \A i \in Intents : \A p \in Payloads[i] :
        p \in ContentType /\ i \notin p.deps /\ ~p.amendment

ASSUME RequestAssumption ==
    Requests \subseteq [path : Identifiers, region : Regions, modes : SUBSET AccessModes]

ASSUME LinesAssumption == Lines \subseteq Nat

VARIABLES
    st,          \* intents.state
    pl,          \* intents.payload_json (and so the fingerprint)
    cv,          \* intents.content_version
    lease,       \* ticks left until intents.lease_expires_at, 0 once it has passed
    dependency,  \* rows of intent_dependencies
    fences,      \* producers named by the runtime_fences rows of an intent
    recovery     \* the latest runtime_recoveries row of an intent

vars == <<st, pl, cv, lease, dependency, fences, recovery>>

DependencyRows ==
    [ intent : Intents, on : Intents,
      key : Identifiers \cup {Explicit}, status : Statuses ]

TypeOK ==
    /\ st \in [Intents -> States \cup {Absent}]
    /\ pl \in [Intents -> ContentType \cup {NoPayload}]
    /\ cv \in [Intents -> Nat]
    /\ lease \in [Intents -> Nat]
    /\ dependency \subseteq DependencyRows
    /\ fences \in [Intents -> SUBSET (Intents \cup {NoProducer})]
    /\ recovery \in [Intents -> [phase : {"none", "refreshed", "resumed"}, cv : Nat]]

Init ==
    /\ st = [i \in Intents |-> Absent]
    /\ pl = [i \in Intents |-> NoPayload]
    /\ cv = [i \in Intents |-> 0]
    /\ lease = [i \in Intents |-> 0]
    /\ dependency = {}
    /\ fences = [i \in Intents |-> {}]
    /\ recovery = [i \in Intents |-> NoRecovery]

-----------------------------------------------------------------------------
(* Expiry and the intents that take part in arbitration.                   *)

(* _expire_intents_locked, at the first clock read of a transaction. *)
Swept == [i \in Intents |->
            IF st[i] \in Live /\ lease[i] = 0 THEN "EXPIRED" ELSE st[i]]

(* _active_intents_locked, at a clock read d ticks later. *)
ActiveIntents(d) == { i \in Intents : Swept[i] \in Live /\ lease[i] > d }

KnownIntents == { i \in Intents : Swept[i] \in Trusting }

-----------------------------------------------------------------------------
(* Dependency edges.                                                       *)

(* _dependency_candidates: explicit dependencies, the premises of i, and   *)
(* the premises the arriving i becomes for intents that read what it writes. *)
CandidateEdges(i, p, others) ==
    { <<i, d, Explicit>> : d \in p.deps }
    \cup (UNION { { <<i, q, k>> : k \in IncomingPremises(p, pl[q]) } : q \in others })
    \cup (UNION { { <<q, i, k>> : k \in ExistingPremises(p, pl[q]) } : q \in others })

(* _find_dependency_cycle returns None *)
Acyclic(pairs) ==
    \A S \in SUBSET Intents : S # {} => \E i \in S : \A j \in S : <<i, j>> \notin pairs

ActivePairs(rows) == { <<r.intent, r.on>> : r \in { x \in rows : x.status = "active" } }

(* Variant: the edges to the arriving intent are not inspected. *)
ProposedPairsOwn(i, p, others) ==
    ActivePairs({ r \in dependency : r.intent # i })
    \cup { <<e[1], e[2]>> : e \in { x \in CandidateEdges(i, p, others) : x[1] = i } }

(* The graph _dependency_cycle_locked inspects. *)
ProposedPairs(i, p, others) ==
    ActivePairs({ r \in dependency : r.intent # i })
    \cup { <<e[1], e[2]>> : e \in CandidateEdges(i, p, others) }

EdgeStatus(e) ==
    IF e[3] # Explicit \/ Swept[e[2]] \in Trusting THEN "active"
    ELSE IF Swept[e[2]] = "STALE" THEN "stale" ELSE "missing"

(* Variant: earlier readers get no edge to the arriving producer. *)
ReplacedEdgesOwn(i, p, others) ==
    { r \in dependency : r.intent # i }
    \cup { [intent |-> e[1], on |-> e[2], key |-> e[3], status |-> EdgeStatus(e)] :
           e \in { x \in CandidateEdges(i, p, others) : x[1] = i } }

(* _replace_dependency_edges_locked *)
ReplacedEdges(i, p, others) ==
    LET candidates == CandidateEdges(i, p, others)
    IN  { r \in dependency : r.intent # i /\ <<r.intent, r.on, r.key>> \notin candidates }
        \cup { [intent |-> e[1], on |-> e[2], key |-> e[3], status |-> EdgeStatus(e)] :
               e \in candidates }

(* AdmissionEngine.evaluate followed by the cycle check. *)
Allowed(i, p, others, known) ==
    /\ p.deps \subseteq known \cup others
    /\ ~Unresolved(p)
    /\ \A q \in others : ~Blocked(p, pl[q])
    /\ Acyclic(ProposedPairs(i, p, others))

-----------------------------------------------------------------------------
(* _invalidate_dependents_locked: a breadth-first walk over active edges   *)
(* from the producer, the first hop limited to the changed keys.           *)

Hop(rows, producer, keys, d, q) ==
    \E r \in rows :
        /\ r.intent = d /\ r.on = q /\ r.status = "active"
        /\ q = producer /\ keys # {} => r.key = Explicit \/ r.key \in keys

(* Intents met within n hops; only trusting dependents are walked into. *)
Within(states, rows, producer, keys) ==
    LET w[n \in 0..Cardinality(Intents)] ==
          IF n = 0 THEN {producer}
          ELSE w[n-1] \cup
               { d \in Intents : /\ states[d] \in Trusting
                                 /\ \E q \in w[n-1] : Hop(rows, producer, keys, d, q) }
    IN  w

(* Variant: only the direct dependents. *)
StaledDirect(states, rows, producer, keys) ==
    { d \in Intents :
        d # producer /\ states[d] \in Trusting /\ d \in Within(states, rows, producer, keys)[1] }

(* The dependents that become stale, and who may discover each of them. *)
Staled(states, rows, producer, keys) ==
    { d \in Intents :
        /\ d # producer
        /\ states[d] \in Trusting
        /\ d \in Within(states, rows, producer, keys)[Cardinality(Intents)] }

Discoverers(states, rows, producer, keys, d) ==
    LET w == Within(states, rows, producer, keys)
    IN  { q \in Intents : \E n \in 1..Cardinality(Intents) :
            /\ d \in w[n] /\ d \notin w[n-1] /\ q \in w[n-1]
            /\ Hop(rows, producer, keys, d, q) }

(* The walk meets the intents of one depth in one order, so two dependents *)
(* with the same possible discoverers name the same one.                   *)
Causes(states, rows, producer, keys) ==
    LET D(d) == Discoverers(states, rows, producer, keys, d)
        staled == Staled(states, rows, producer, keys)
    IN  { c \in [staled -> Intents] :
            /\ \A d \in staled : c[d] \in D(d)
            /\ \A d, e \in staled : {c[d], c[e]} \subseteq D(d) \cap D(e) => c[d] = c[e] }

Invalidate(states, rows, producer, keys) ==
    LET staled == Staled(states, rows, producer, keys)
    IN  \E c \in Causes(states, rows, producer, keys) :
          /\ st' = [i \in Intents |-> IF i \in staled THEN "STALE" ELSE states[i]]
          /\ dependency' = { IF r.intent \in staled /\ r.on = c[r.intent]
                             THEN [r EXCEPT !.status = "stale"] ELSE r : r \in rows }
          /\ fences' = [i \in Intents |->
                          IF i \in staled THEN fences[i] \cup {c[i]} ELSE fences[i]]

-----------------------------------------------------------------------------
(* The clock, and what a transaction that only sweeps leaves behind.       *)

Elapsed(d) == [i \in Intents |-> IF lease[i] > d THEN lease[i] - d ELSE 0]

Renewed(i, d) == [Elapsed(d) EXCEPT ![i] = LeaseTicks]

SweepOnly(d) ==
    /\ st' = Swept
    /\ lease' = Elapsed(d)
    /\ UNCHANGED <<pl, cv, dependency, fences, recovery>>

Tick ==
    /\ lease' = Elapsed(1)
    /\ UNCHANGED <<st, pl, cv, dependency, fences, recovery>>

ExpireStale == SweepOnly(0)

-----------------------------------------------------------------------------
(* admit_intent.  A blocked intent is evaluated again on an identical      *)
(* retry; any other known intent only gets its recorded decision back.     *)

(* Variant: a blocked intent stays blocked. *)
ReevaluatedOnce == {Absent}

Reevaluated == {Absent, "BLOCKED"}

AdmitAt(i, p, d) ==
    LET others  == ActiveIntents(d) \ {i}
        allowed == Allowed(i, p, others, KnownIntents)
    IN  IF Swept[i] \in Reevaluated
        THEN /\ st' = [Swept EXCEPT ![i] = IF allowed THEN "ADMITTED" ELSE "BLOCKED"]
             /\ pl' = [pl EXCEPT ![i] = p]
             /\ cv' = [cv EXCEPT ![i] = IF Swept[i] = Absent THEN 1 ELSE @]
             /\ lease' = Renewed(i, d)
             /\ dependency' = IF allowed THEN ReplacedEdges(i, p, others) ELSE dependency
             /\ UNCHANGED <<fences, recovery>>
        ELSE SweepOnly(d)

AdmitIntent(i, p) ==
    /\ Swept[i] = Absent \/ pl[i] = p
    /\ \E d \in 0..TxnTicks : AdmitAt(i, p, d)

(* Variant: the new content goes under the old version. *)
InstallUnversioned(i, p, d) ==
    /\ cv[i] < MaxContent
    /\ pl' = [pl EXCEPT ![i] = p]
    /\ cv' = cv
    /\ lease' = Renewed(i, d)

(* The row of i takes the content p and a fresh lease. *)
Install(i, p, d) ==
    /\ cv[i] < MaxContent
    /\ pl' = [pl EXCEPT ![i] = p]
    /\ cv' = [cv EXCEPT ![i] = @ + 1]
    /\ lease' = Renewed(i, d)

(* Variant: an amendment brings a stale intent back. *)
AmendedStateReset(i) == "ADMITTED"

(* The contents of a stale intent may change, its state may not. *)
AmendedState(i) == IF Swept[i] = "STALE" THEN "STALE" ELSE "ADMITTED"

AmendAt(i, p, d) ==
    LET others  == ActiveIntents(d) \ {i}
        changed == ChangedKeys(pl[i], p)
        states  == [Swept EXCEPT ![i] = AmendedState(i)]
        rows    == ReplacedEdges(i, p, others)
    IN  IF Allowed(i, p, others, KnownIntents \cup {i})
        THEN /\ Install(i, p, d)
             /\ IF changed # {}
                THEN Invalidate(states, rows, i, changed)
                ELSE st' = states /\ dependency' = rows /\ UNCHANGED fences
             /\ UNCHANGED recovery
        ELSE SweepOnly(d)

(* plane.amend marks the payload as an amendment. *)
AmendIntent(i, content) ==
    /\ Swept[i] \in Live \cup {"STALE", "BLOCKED"}
    /\ \E d \in 0..TxnTicks : AmendAt(i, [content EXCEPT !.amendment = TRUE], d)

PromoteAt(i, p, d) ==
    LET others == ActiveIntents(d) \ {i}
    IN  IF Allowed(i, p, others, KnownIntents \cup {i})
        THEN /\ Install(i, p, d)
             /\ st' = Swept
             /\ dependency' = ReplacedEdges(i, p, others)
             /\ UNCHANGED <<fences, recovery>>
        ELSE SweepOnly(d)

(* promote_contingent_operations; the caller's broker is rebound in        *)
(* BrokerRegistry.                                                         *)
PromoteContingent(i, m) ==
    /\ Swept[i] \in Live
    /\ PromotionSelected(pl[i], m) # {}
    /\ \E d \in 0..TxnTicks : PromoteAt(i, [pl[i] EXCEPT !.ops = PromotedOps(pl[i], m)], d)

-----------------------------------------------------------------------------
(* Pausing and recovering a runtime.                                       *)

(* Variant: pausing writes a state of its own. *)
PauseRuntimeOwnState(i) ==
    /\ st[i] \in Live
    /\ st' = [st EXCEPT ![i] = "PAUSED"]
    /\ fences' = [fences EXCEPT ![i] = @ \cup {NoProducer}]
    /\ UNCHANGED <<pl, cv, lease, dependency, recovery>>

PauseRuntime(i) ==
    /\ st[i] \in Live
    /\ st' = [st EXCEPT ![i] = "STALE"]
    /\ fences' = [fences EXCEPT ![i] = @ \cup {NoProducer}]
    /\ UNCHANGED <<pl, cv, lease, dependency, recovery>>

(* plane.verify_manifest found the contracts of i broken. *)
InvalidateDependents(i, keys) ==
    /\ st[i] # Absent
    /\ keys # {}
    /\ Invalidate(st, dependency, i, keys)
    /\ UNCHANGED <<pl, cv, lease, recovery>>

(* The fenced producers and the producers of the recorded edges are fit. *)
ProducersSettled(i) ==
    /\ \A q \in fences[i] \ {NoProducer} : Swept[q] = "COMPLETED"
    /\ \A r \in dependency : r.intent = i => Swept[r.on] \in Trusting

RefreshAt(i, p, d) ==
    LET others == ActiveIntents(d) \ {i}
        rows   == ReplacedEdges(i, p, others)
    IN  IF ProducersSettled(i) /\ Allowed(i, p, others, KnownIntents \cup {i})
        THEN /\ Install(i, p, d)
             /\ \A r \in rows : r.intent = i => r.status = "active"
             /\ st' = [Swept EXCEPT ![i] = "ADMITTED"]
             /\ dependency' = rows
             /\ recovery' = [recovery EXCEPT ![i] = [phase |-> "refreshed", cv |-> cv[i] + 1]]
             /\ UNCHANGED fences
        ELSE SweepOnly(d)

(* refresh_stale_intent: the same declared authority on a new base.  The   *)
(* caller may or may not keep the metadata of an earlier amendment.        *)
RefreshStale(i, base, amendment) ==
    /\ Swept[i] = "STALE"
    /\ base # pl[i].base
    /\ amendment => pl[i].amendment
    /\ fences[i] # {}
    /\ \E d \in 0..TxnTicks :
         RefreshAt(i, [pl[i] EXCEPT !.base = base, !.amendment = amendment], d)

ResumeRefreshed(i) ==
    /\ st[i] = "ADMITTED"
    /\ recovery[i] = [phase |-> "refreshed", cv |-> cv[i]]
    /\ \A r \in dependency : r.intent = i => r.status = "active"
    /\ st' = [st EXCEPT ![i] = "ACTIVE"]
    /\ recovery' = [recovery EXCEPT ![i].phase = "resumed"]
    /\ UNCHANGED <<pl, cv, lease, dependency, fences>>

-----------------------------------------------------------------------------
(* _set_intent_state and heartbeat_intent: neither sweeps nor looks at the *)
(* lease.                                                                  *)

SetState(i, from, to) ==
    /\ st[i] \in from
    /\ st' = [st EXCEPT ![i] = to]
    /\ UNCHANGED <<pl, cv, lease, dependency, fences, recovery>>

(* Variants: the recovery is not looked at; an expired intent may go on. *)
ActivateIntentUnresumed(i) == SetState(i, Live, "ACTIVE")
ActivateIntentExpired(i) ==
    recovery[i].phase # "refreshed" /\ SetState(i, Live \cup {"EXPIRED"}, "ACTIVE")

ActivateIntent(i) ==
    /\ recovery[i].phase # "refreshed"
    /\ SetState(i, Live, "ACTIVE")

CompleteIntent(i) == SetState(i, Live, "COMPLETED")

ReleaseIntent(i) ==
    SetState(i, {"BLOCKED", "ADMITTED", "ACTIVE", "EXPIRED", "STALE"}, "RELEASED")

HeartbeatIntent(i) ==
    /\ st[i] \in Live
    /\ lease' = [lease EXCEPT ![i] = LeaseTicks]
    /\ UNCHANGED <<st, pl, cv, dependency, fences, recovery>>

-----------------------------------------------------------------------------
ContractKeys(p) == { PremiseKey(o) : o \in { x \in p.ops : x.kind = "contract" } }

IntentStep(i) ==
    \/ \E p \in Payloads[i] : AdmitIntent(i, p) \/ AmendIntent(i, p)
    \/ \E m \in Requests : PromoteContingent(i, m)
    \/ PauseRuntime(i)
    \/ InvalidateDependents(i, ContractKeys(pl[i]))
    \/ \E b \in Bases, a \in BOOLEAN : RefreshStale(i, b, a)
    \/ ResumeRefreshed(i)
    \/ ActivateIntent(i) \/ CompleteIntent(i) \/ ReleaseIntent(i) \/ HeartbeatIntent(i)

Next == Tick \/ ExpireStale \/ \E i \in Intents : IntentStep(i)

Spec == Init /\ [][Next]_vars

-----------------------------------------------------------------------------
(* docs/ARCHITECTURE.md:17: two processes cannot both admit incompatible   *)
(* work from the same state.  Two intents with authority and a running     *)
(* lease never may write the same line of the same file.                   *)
(* ArbitrationHistory states what the two clock reads of a transaction     *)
(* leave of it.                                                            *)
NoWriteClash ==
    \A i, j \in Intents :
        /\ i # j
        /\ st[i] \in Live /\ lease[i] > 0
        /\ st[j] \in Live /\ lease[j] > 0
        => ~WriteClash(pl[i], pl[j], Paths, Lines)

(* The active dependency edges stay acyclic, although an arriving intent   *)
(* also adds edges to the intents already there and an invalidation turns  *)
(* edges stale one at a time: _invalidate_dependents_locked and the        *)
(* producer-first order of dependency_graph rely on it.                    *)
PremisesAcyclic == Acyclic(ActivePairs(dependency))

(* Work whose premise was fenced runs again only through the recovery      *)
(* life cycle: a fenced intent that is trusted again has been refreshed,   *)
(* it is active only once resumed, and a stale intent always has the fence *)
(* evidence that refresh_stale_intent demands.                             *)
RecoveryBarrier ==
    \A i \in Intents :
        /\ st[i] = "STALE" => fences[i] # {}
        /\ st[i] \in Trusting /\ fences[i] # {} => recovery[i].phase # "none"
        /\ st[i] = "ACTIVE" => recovery[i].phase # "refreshed"

(* Lost authority is not revived: an expired or released intent stays so,  *)
(* completed work is at most invalidated, and a stale intent leaves that   *)
(* state only by a release or with a newer content on another base.        *)
AuthorityNotRevived ==
    [][\A i \in Intents :
         /\ st[i] \in {"EXPIRED", "RELEASED"} => st'[i] \in {"EXPIRED", "RELEASED"}
         /\ st[i] = "COMPLETED" => st'[i] \in {"COMPLETED", "STALE"}
         /\ st[i] = "STALE" /\ st'[i] \notin {"STALE", "RELEASED"}
              => st'[i] = "ADMITTED" /\ cv'[i] > cv[i] /\ pl'[i].base # pl[i].base]_vars

(* When an invalidation makes an intent stale, no intent that still counts *)
(* as sound keeps an active edge to it: the walk of                        *)
(* _invalidate_dependents_locked reaches every transitive dependent.       *)
StalenessPropagates ==
    [][(\A i \in Intents : ~PauseRuntime(i)) =>
         \A q \in Intents : st[q] \in Trusting /\ st'[q] = "STALE" =>
            \A r \in dependency' : r.on = q /\ r.status = "active"
                                     => st'[r.intent] \notin Trusting]_vars

(* A retried blocked intent does not wait for ever on rivals that stopped  *)
(* renewing: it leaves BLOCKED, or some rival's lease is renewed again and *)
(* again (_expire_intents_locked inside every arbitration).                *)
BlockedUntilLapse ==
    \A i \in Intents :
        []<>(st[i] # "BLOCKED" \/ \E j \in Intents \ {i} : st[j] \in Live /\ lease[j] = LeaseTicks)

(* Every process that holds an intent sees the promised life cycle: each   *)
(* operation of the registry, with the expiry of lapsed leases and the     *)
(* walk over dependents it contains, is one step of it, and the contents   *)
(* never change under an unchanged content_version.                        *)
Lifecycle == INSTANCE IntentLifecycle
    WITH NoContent <- NoPayload, state <- st, content <- pl, version <- cv
ImplementsLifecycle == Lifecycle!LifecycleSpec
=============================================================================
