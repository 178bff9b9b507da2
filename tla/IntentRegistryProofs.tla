------------------------- MODULE IntentRegistryProofs -------------------------
(***************************************************************************)
(* Theorems about IntentRegistry and ArbitrationHistory for every set of   *)
(* intents, payloads and requests, every lease length and every distance   *)
(* between the clock reads of a transaction.                               *)
(***************************************************************************)
EXTENDS ArbitrationHistory, AdmissionProofs, FiniteSetTheorems, WellFoundedInduction

(* The state of an intent after the sweep is one of the known ones, and it *)
(* is live only if it was live with a running lease.                       *)
LEMMA SweptFacts ==
    ASSUME TypeOK
    PROVE  /\ Swept \in [Intents -> States \cup {Absent}]
           /\ \A i \in Intents :
                /\ Swept[i] \in Live => st[i] = Swept[i] /\ lease[i] > 0
                /\ Swept[i] \notin Live /\ Swept[i] # "EXPIRED" => st[i] = Swept[i]
                /\ st[i] \notin Live => Swept[i] = st[i]
                /\ st[i] \in Live => Swept[i] = st[i] \/ Swept[i] = "EXPIRED"
BY DEF TypeOK, Swept, States, Trusting, Live, Absent

(* Leases stay natural numbers of ticks. *)
LEMMA LeaseFacts ==
    ASSUME TypeOK, NEW d \in Nat, NEW i \in Intents
    PROVE  Elapsed(d) \in [Intents -> Nat] /\ Renewed(i, d) \in [Intents -> Nat]
<1>1. Elapsed(d) \in [Intents -> Nat]
  BY DEF TypeOK, Elapsed
<1> QED
  BY <1>1, RegistryAssumption DEF Renewed

(* The operations of a recorded content are well-formed. *)
LEMMA ContentFacts ==
    ASSUME NEW p \in ContentType \cup {NoPayload}
    PROVE  p.ops \subseteq Operations /\ p.deps \subseteq Intents
<1>1. CASE p \in ContentType
  BY <1>1 DEF ContentType
<1>2. CASE p = NoPayload
  BY <1>2 DEF NoPayload
<1> QED
  BY <1>1, <1>2

(* What pl records of an intent is a content or nothing. *)
LEMMA PayloadFacts ==
    ASSUME TypeOK, NEW i \in Intents
    PROVE  /\ pl[i] \in ContentType \cup {NoPayload}
           /\ pl[i].ops \subseteq Operations
<1>1. pl[i] \in ContentType \cup {NoPayload}
  BY DEF TypeOK
<1> QED
  BY <1>1, ContentFacts

(* The edges _replace_dependency_edges_locked writes are rows of the table. *)
LEMMA ReplacedEdgesType ==
    ASSUME TypeOK, NEW i \in Intents, NEW p \in ContentType \cup {NoPayload}, NEW others \in SUBSET Intents
    PROVE  ReplacedEdges(i, p, others) \subseteq DependencyRows
<1>0. p.ops \subseteq Operations /\ p.deps \subseteq Intents
  BY ContentFacts
<1>1. ASSUME NEW e \in CandidateEdges(i, p, others)
      PROVE  /\ e[1] \in Intents /\ e[2] \in Intents
             /\ e[3] \in Identifiers \cup {Explicit}
  <2>1. CASE e \in { <<i, d, Explicit>> : d \in p.deps }
    BY <1>0, <2>1
  <2>2. ASSUME NEW q \in others, NEW k \in IncomingPremises(p, pl[q]), e = <<i, q, k>>
        PROVE  /\ e[1] \in Intents /\ e[2] \in Intents
               /\ e[3] \in Identifiers \cup {Explicit}
    BY <1>0, <2>2, PremisesType, PayloadFacts
  <2>3. ASSUME NEW q \in others, NEW k \in ExistingPremises(p, pl[q]), e = <<q, i, k>>
        PROVE  /\ e[1] \in Intents /\ e[2] \in Intents
               /\ e[3] \in Identifiers \cup {Explicit}
    BY <1>0, <2>3, PremisesType, PayloadFacts
  <2> QED
    BY <2>1, <2>2, <2>3 DEF CandidateEdges
<1>2. ASSUME NEW e PROVE EdgeStatus(e) \in Statuses
  BY DEF EdgeStatus, Statuses
<1> QED
  BY <1>1, <1>2 DEF TypeOK, ReplacedEdges, DependencyRows

(* An invalidation writes well-typed states, edges and fences. *)
LEMMA InvalidateType ==
    ASSUME TypeOK, NEW states \in [Intents -> States \cup {Absent}],
           NEW rows \in SUBSET DependencyRows,
           NEW producer \in Intents, NEW keys,
           Invalidate(states, rows, producer, keys)
    PROVE  /\ st' \in [Intents -> States \cup {Absent}]
           /\ dependency' \subseteq DependencyRows
           /\ fences' \in [Intents -> SUBSET (Intents \cup {NoProducer})]
<1> DEFINE staled == Staled(states, rows, producer, keys)
<1>1. PICK c \in Causes(states, rows, producer, keys) :
          /\ st' = [i \in Intents |-> IF i \in staled THEN "STALE" ELSE states[i]]
          /\ dependency' = { IF r.intent \in staled /\ r.on = c[r.intent]
                             THEN [r EXCEPT !.status = "stale"] ELSE r : r \in rows }
          /\ fences' = [i \in Intents |->
                          IF i \in staled THEN fences[i] \cup {c[i]} ELSE fences[i]]
  BY DEF Invalidate
<1>2. c \in [staled -> Intents]
  BY DEF Causes
<1> HIDE DEF staled
<1>3. st' \in [Intents -> States \cup {Absent}]
  BY <1>1 DEF States
<1>4. ASSUME NEW r \in DependencyRows PROVE [r EXCEPT !.status = "stale"] \in DependencyRows
  BY DEF DependencyRows, Statuses
<1>5. dependency' \subseteq DependencyRows
  BY <1>1, <1>4
<1>6. fences' \in [Intents -> SUBSET (Intents \cup {NoProducer})]
  BY <1>1, <1>2 DEF TypeOK
<1> QED
  BY <1>3, <1>5, <1>6

-----------------------------------------------------------------------------
(* Type correctness.                                                       *)

(* A transaction that only sweeps keeps the types. *)
LEMMA SweepType ==
    ASSUME TypeOK, NEW d \in Nat, SweepOnly(d)
    PROVE  TypeOK'
<1>1. Elapsed(d) \in [Intents -> Nat]
  BY DEF TypeOK, Elapsed
<1> QED
  BY <1>1, SweptFacts DEF TypeOK, SweepOnly

(* What every transaction that installs a new content of i has in common:  *)
(* once the state, edge and fence tables are typed, all tables are.        *)
LEMMA InstallType ==
    ASSUME TypeOK, NEW i \in Intents, NEW d \in Nat, NEW p \in ContentType,
           Install(i, p, d),
           st' \in [Intents -> States \cup {Absent}],
           dependency' \subseteq DependencyRows,
           fences' \in [Intents -> SUBSET (Intents \cup {NoProducer})],
           recovery' \in [Intents -> [phase : {"none", "refreshed", "resumed"}, cv : Nat]]
    PROVE  TypeOK'
<1>1. pl' \in [Intents -> ContentType \cup {NoPayload}] /\ cv' \in [Intents -> Nat]
  BY DEF TypeOK, Install
<1>2. lease' \in [Intents -> Nat]
  BY LeaseFacts DEF Install
<1> QED
  BY <1>1, <1>2 DEF TypeOK

(* Admission (admit_intent) keeps the types. *)
LEMMA AdmitType ==
    ASSUME TypeOK, NEW i \in Intents, NEW p \in ContentType, NEW d \in Nat, AdmitAt(i, p, d)
    PROVE  TypeOK'
<1> DEFINE others == ActiveIntents(d) \ {i}
<1>1. CASE Swept[i] \in Reevaluated
  <2>1. others \in SUBSET Intents
    BY DEF ActiveIntents
  <2>2. ReplacedEdges(i, p, others) \subseteq DependencyRows
    BY <2>1, ReplacedEdgesType
  <2>3. st' \in [Intents -> States \cup {Absent}]
    BY <1>1, SweptFacts DEF AdmitAt, States, Trusting, Live
  <2>4. pl' \in [Intents -> ContentType \cup {NoPayload}] /\ cv' \in [Intents -> Nat]
    BY <1>1 DEF AdmitAt, TypeOK
  <2>5. lease' \in [Intents -> Nat]
    BY <1>1, LeaseFacts DEF AdmitAt
  <2>6. dependency' \subseteq DependencyRows
    BY <1>1, <2>2 DEF AdmitAt, TypeOK
  <2> QED
    BY <1>1, <2>3, <2>4, <2>5, <2>6 DEF AdmitAt, TypeOK
<1>2. CASE Swept[i] \notin Reevaluated
  BY <1>2, SweepType DEF AdmitAt
<1> QED
  BY <1>1, <1>2

(* Amendment (amend_intent) keeps the types. *)
LEMMA AmendType ==
    ASSUME TypeOK, NEW i \in Intents, NEW p \in ContentType, NEW d \in Nat, AmendAt(i, p, d)
    PROVE  TypeOK'
<1> DEFINE others  == ActiveIntents(d) \ {i}
           changed == ChangedKeys(pl[i], p)
           states  == [Swept EXCEPT ![i] = AmendedState(i)]
           rows    == ReplacedEdges(i, p, others)
<1>1. CASE Allowed(i, p, others, KnownIntents \cup {i})
  <2>1. rows \in SUBSET DependencyRows
    BY ReplacedEdgesType DEF ActiveIntents
  <2>2. states \in [Intents -> States \cup {Absent}]
    BY SweptFacts DEF AmendedState, States, Trusting, Live
  <2>3. /\ Install(i, p, d)
        /\ UNCHANGED recovery
        /\ \/ Invalidate(states, rows, i, changed)
           \/ st' = states /\ dependency' = rows /\ UNCHANGED fences
    BY <1>1 DEF AmendAt
  <2> HIDE DEF states, rows, changed
  <2>4. /\ st' \in [Intents -> States \cup {Absent}]
        /\ dependency' \subseteq DependencyRows
        /\ fences' \in [Intents -> SUBSET (Intents \cup {NoProducer})]
    <3>1. CASE Invalidate(states, rows, i, changed)
      BY <2>1, <2>2, <3>1, InvalidateType
    <3>2. CASE st' = states /\ dependency' = rows /\ UNCHANGED fences
      BY <2>1, <2>2, <3>2 DEF TypeOK
    <3> QED
      BY <2>3, <3>1, <3>2
  <2>5. recovery' \in [Intents -> [phase : {"none", "refreshed", "resumed"}, cv : Nat]]
    BY <2>3 DEF TypeOK
  <2> QED
    BY <2>3, <2>4, <2>5, InstallType
<1>2. CASE ~Allowed(i, p, others, KnownIntents \cup {i})
  BY <1>2, SweepType DEF AmendAt
<1> QED
  BY <1>1, <1>2

(* Promotion (promote_contingent_operations) keeps the types. *)
LEMMA PromoteType ==
    ASSUME TypeOK, NEW i \in Intents, NEW p \in ContentType, NEW d \in Nat, PromoteAt(i, p, d)
    PROVE  TypeOK'
<1> DEFINE others == ActiveIntents(d) \ {i}
<1>1. CASE Allowed(i, p, others, KnownIntents \cup {i})
  <2>1. dependency' \subseteq DependencyRows
    BY <1>1, ReplacedEdgesType DEF PromoteAt, ActiveIntents
  <2>2. st' \in [Intents -> States \cup {Absent}]
    BY <1>1, SweptFacts DEF PromoteAt
  <2>3. /\ fences' \in [Intents -> SUBSET (Intents \cup {NoProducer})]
        /\ recovery' \in [Intents -> [phase : {"none", "refreshed", "resumed"}, cv : Nat]]
    BY <1>1 DEF PromoteAt, TypeOK
  <2> QED
    BY <1>1, <2>1, <2>2, <2>3, InstallType DEF PromoteAt
<1>2. CASE ~Allowed(i, p, others, KnownIntents \cup {i})
  BY <1>2, SweepType DEF PromoteAt
<1> QED
  BY <1>1, <1>2

(* Refresh (refresh_stale_intent) keeps the types. *)
LEMMA RefreshType ==
    ASSUME TypeOK, NEW i \in Intents, NEW p \in ContentType, NEW d \in Nat, RefreshAt(i, p, d)
    PROVE  TypeOK'
<1> DEFINE others == ActiveIntents(d) \ {i}
<1>1. CASE ProducersSettled(i) /\ Allowed(i, p, others, KnownIntents \cup {i})
  <2>1. dependency' \subseteq DependencyRows
    BY <1>1, ReplacedEdgesType DEF RefreshAt, ActiveIntents
  <2>2. st' \in [Intents -> States \cup {Absent}]
    BY <1>1, SweptFacts DEF RefreshAt, States, Trusting, Live
  <2>3. /\ fences' \in [Intents -> SUBSET (Intents \cup {NoProducer})]
        /\ recovery' \in [Intents -> [phase : {"none", "refreshed", "resumed"}, cv : Nat]]
    BY <1>1 DEF RefreshAt, TypeOK
  <2> QED
    BY <1>1, <2>1, <2>2, <2>3, InstallType DEF RefreshAt
<1>2. CASE ~(ProducersSettled(i) /\ Allowed(i, p, others, KnownIntents \cup {i}))
  BY <1>2, SweepType DEF RefreshAt
<1> QED
  BY <1>1, <1>2

-----------------------------------------------------------------------------
(* The contents that amendment, promotion and refresh install.             *)

(* An amended content is a content. *)
LEMMA AmendedContent ==
    ASSUME NEW i \in Intents, NEW content \in Payloads[i]
    PROVE  content \in ContentType /\ [content EXCEPT !.amendment = TRUE] \in ContentType
<1>1. content \in ContentType
  BY PayloadAssumption
<1> QED
  BY <1>1 DEF ContentType

(* A promoted content is a content: there was something to promote. *)
LEMMA PromotedContent ==
    ASSUME TypeOK, NEW i \in Intents, NEW m \in Requests, PromotionSelected(pl[i], m) # {}
    PROVE  [pl[i] EXCEPT !.ops = PromotedOps(pl[i], m)] \in ContentType
<1>1. PromotedOps(pl[i], m) \subseteq Operations
  BY PayloadFacts, PromotedOpsType, RequestAssumption
<1>2. ASSUME pl[i].ops = {} PROVE PromotionSelected(pl[i], m) = {}
  BY <1>2 DEF PromotionSelected, PromotionCandidates
<1>3. NoPayload.ops = {}
  BY DEF NoPayload
<1> QED
  BY <1>1, <1>2, <1>3, PayloadFacts DEF ContentType

(* A refreshed content is a content. *)
LEMMA RefreshedContent ==
    ASSUME TypeOK, NEW i \in Intents, NEW base \in Bases, NEW amendment \in BOOLEAN
    PROVE  [pl[i] EXCEPT !.base = base, !.amendment = amendment] \in ContentType
<1>1. CASE pl[i] \in ContentType
  BY <1>1 DEF ContentType
<1>2. [NoPayload EXCEPT !.base = base, !.amendment = amendment] \in ContentType
  BY DEF NoPayload, ContentType
<1> QED
  BY <1>1, <1>2, PayloadFacts

(* p is pl[i] with the operations that some request promotes committed. *)
PromotionOf(i, p) == \E m \in Requests : p.ops = PromotedOps(pl[i], m)

(* A step of the registry is one of the four arbitrations of a content at  *)
(* some clock reading, or a simple operation.  An amended content is       *)
(* marked as one; a promoted one differs in its operations alone.          *)
LEMMA IntentStepCases ==
    ASSUME TypeOK, NEW i \in Intents, IntentStep(i)
    PROVE  \/ \E p \in ContentType, d \in 0..TxnTicks :
                \/ (Swept[i] = Absent \/ pl[i] = p) /\ AdmitAt(i, p, d)
                \/ Swept[i] \in Live \cup {"STALE", "BLOCKED"} /\ AmendAt(i, p, d) /\ p.amendment
                \/ Swept[i] \in Live /\ PromoteAt(i, p, d) /\ PromotionOf(i, p)
                \/ Swept[i] = "STALE" /\ p.base # pl[i].base /\ RefreshAt(i, p, d)
           \/ PauseRuntime(i) \/ InvalidateDependents(i, ContractKeys(pl[i]))
           \/ ResumeRefreshed(i) \/ ActivateIntent(i) \/ CompleteIntent(i)
           \/ ReleaseIntent(i) \/ HeartbeatIntent(i)
<1>1. ASSUME NEW p \in Payloads[i], AdmitIntent(i, p)
      PROVE  \E q \in ContentType, d \in 0..TxnTicks :
               (Swept[i] = Absent \/ pl[i] = q) /\ AdmitAt(i, q, d)
  BY <1>1, AmendedContent DEF AdmitIntent
<1>2. ASSUME NEW p \in Payloads[i], AmendIntent(i, p)
      PROVE  /\ Swept[i] \in Live \cup {"STALE", "BLOCKED"}
             /\ \E q \in ContentType, d \in 0..TxnTicks : AmendAt(i, q, d) /\ q.amendment
  <2> DEFINE q == [p EXCEPT !.amendment = TRUE]
  <2>1. q \in ContentType /\ q.amendment
    BY AmendedContent DEF ContentType
  <2>2. /\ Swept[i] \in Live \cup {"STALE", "BLOCKED"}
        /\ \E d \in 0..TxnTicks : AmendAt(i, q, d)
    BY <1>2 DEF AmendIntent
  <2> HIDE DEF q
  <2> QED
    BY <2>1, <2>2
<1>3. ASSUME NEW m \in Requests, PromoteContingent(i, m)
      PROVE  /\ Swept[i] \in Live
             /\ \E q \in ContentType, d \in 0..TxnTicks : PromoteAt(i, q, d) /\ PromotionOf(i, q)
  <2> DEFINE q == [pl[i] EXCEPT !.ops = PromotedOps(pl[i], m)]
  <2>1. /\ Swept[i] \in Live /\ PromotionSelected(pl[i], m) # {}
        /\ \E d \in 0..TxnTicks : PromoteAt(i, q, d)
    BY <1>3 DEF PromoteContingent
  <2>2. q \in ContentType
    BY <2>1, PromotedContent
  <2>3. q.ops = PromotedOps(pl[i], m)
    <3>1. CASE pl[i] \in ContentType
      BY <3>1 DEF ContentType
    <3>2. [NoPayload EXCEPT !.ops = PromotedOps(pl[i], m)].ops = PromotedOps(pl[i], m)
      BY DEF NoPayload
    <3> QED
      BY <3>1, <3>2, PayloadFacts
  <2>4. PromotionOf(i, q)
    BY <2>3 DEF PromotionOf
  <2> HIDE DEF q
  <2> QED
    BY <2>1, <2>2, <2>4
<1>4. ASSUME NEW base \in Bases, NEW amendment \in BOOLEAN, RefreshStale(i, base, amendment)
      PROVE  /\ Swept[i] = "STALE"
             /\ \E q \in ContentType, d \in 0..TxnTicks : q.base # pl[i].base /\ RefreshAt(i, q, d)
  <2> DEFINE p == [pl[i] EXCEPT !.base = base, !.amendment = amendment]
  <2>1. p \in ContentType
    BY RefreshedContent
  <2>2. p.base = base
    <3>1. CASE pl[i] \in ContentType
      BY <3>1 DEF ContentType
    <3>2. [NoPayload EXCEPT !.base = base, !.amendment = amendment].base = base
      BY DEF NoPayload
    <3> QED
      BY <3>1, <3>2, PayloadFacts
  <2>3. /\ Swept[i] = "STALE" /\ base # pl[i].base
        /\ \E d \in 0..TxnTicks : RefreshAt(i, p, d)
    BY <1>4 DEF RefreshStale
  <2> HIDE DEF p
  <2> QED
    BY <2>1, <2>2, <2>3
<1> QED
  BY <1>1, <1>2, <1>3, <1>4 DEF IntentStep

(* The remaining operations on one intent keep the types. *)
LEMMA SimpleType ==
    ASSUME TypeOK, NEW i \in Intents,
           \/ PauseRuntime(i) \/ InvalidateDependents(i, ContractKeys(pl[i]))
           \/ ResumeRefreshed(i) \/ ActivateIntent(i) \/ CompleteIntent(i)
           \/ ReleaseIntent(i) \/ HeartbeatIntent(i)
    PROVE  TypeOK'
<1>1. CASE PauseRuntime(i)
  BY <1>1 DEF TypeOK, PauseRuntime, States
<1>2. CASE InvalidateDependents(i, ContractKeys(pl[i]))
  <2>1. /\ st \in [Intents -> States \cup {Absent}]
        /\ dependency \in SUBSET DependencyRows
    BY DEF TypeOK
  <2>2. Invalidate(st, dependency, i, ContractKeys(pl[i]))
    BY <1>2 DEF InvalidateDependents
  <2> QED
    BY <1>2, <2>1, <2>2, InvalidateType DEF TypeOK, InvalidateDependents
<1>3. CASE ResumeRefreshed(i)
  BY <1>3 DEF TypeOK, ResumeRefreshed, States, Trusting, Live
<1>4. CASE ActivateIntent(i)
  BY <1>4 DEF TypeOK, ActivateIntent, SetState, States, Trusting, Live
<1>5. CASE CompleteIntent(i)
  BY <1>5 DEF TypeOK, CompleteIntent, SetState, States, Trusting, Live
<1>6. CASE ReleaseIntent(i)
  BY <1>6 DEF TypeOK, ReleaseIntent, SetState, States
<1>7. CASE HeartbeatIntent(i)
  BY <1>7, RegistryAssumption DEF TypeOK, HeartbeatIntent
<1> QED
  BY <1>1, <1>2, <1>3, <1>4, <1>5, <1>6, <1>7

(* Every operation of the registry keeps the tables well-typed. *)
LEMMA TypeStep ==
    ASSUME TypeOK, [Next]_vars
    PROVE  TypeOK'
<1>1. CASE UNCHANGED vars
  BY <1>1 DEF TypeOK, vars
<1>2. CASE Tick
  <2>1. lease' \in [Intents -> Nat]
    BY <1>2 DEF TypeOK, Tick, Elapsed
  <2> QED
    BY <1>2, <2>1 DEF TypeOK, Tick
<1>3. CASE ExpireStale
  BY <1>3, SweepType DEF ExpireStale
<1>4. ASSUME NEW i \in Intents, IntentStep(i) PROVE TypeOK'
  <2>1. 0..TxnTicks \subseteq Nat
    BY RegistryAssumption
  <2>2. ASSUME NEW p \in ContentType, NEW d \in Nat,
               AdmitAt(i, p, d) \/ AmendAt(i, p, d) \/ PromoteAt(i, p, d) \/ RefreshAt(i, p, d)
        PROVE  TypeOK'
    BY <2>2, AdmitType, AmendType, PromoteType, RefreshType
  <2> QED
    BY <1>4, <2>1, <2>2, IntentStepCases, SimpleType
<1> QED
  BY <1>1, <1>2, <1>3, <1>4 DEF Next

(* The registry's tables keep their types whatever sequence of operations, *)
(* retries, failed calls and expiries happens.                             *)
THEOREM TypeCorrect == Spec => []TypeOK
<1>1. Init => TypeOK
  BY DEF Init, TypeOK, NoRecovery
<1>2. TypeOK /\ [Next]_vars => TypeOK'
  BY TypeStep
<1> QED
  BY <1>1, <1>2, PTL DEF Spec

-----------------------------------------------------------------------------
(* Two kinds of steps.  A quiet step makes nobody live, changes no content *)
(* of a live intent and adds no active edge.  An arbitrated step installs  *)
(* a content of one intent that was allowed against the others.            *)

Quiet ==
    /\ \A j \in Intents : st'[j] \in Live => st[j] \in Live /\ pl'[j] = pl[j] /\ cv'[j] = cv[j]
    /\ ActivePairs(dependency') \subseteq ActivePairs(dependency)

ArbitratedAt(i, p, d) ==
    LET others == ActiveIntents(d) \ {i} IN
    /\ \A q \in others : ~Blocked(p, pl[q])
    /\ Acyclic(ProposedPairs(i, p, others))
    /\ pl' = [pl EXCEPT ![i] = p]
    /\ \A j \in Intents \ {i} : st'[j] \in Live => Swept[j] \in Live
    /\ ActivePairs(dependency') \subseteq ProposedPairs(i, p, others)

Arbitrated(i) == \E p \in ContentType, d \in 0..TxnTicks : ArbitratedAt(i, p, d)

(* The active edges after _replace_dependency_edges_locked are among those *)
(* the cycle check has seen.                                               *)
LEMMA ReplacedPairs ==
    ASSUME NEW i, NEW p, NEW others
    PROVE  ActivePairs(ReplacedEdges(i, p, others)) \subseteq ProposedPairs(i, p, others)
<1> SUFFICES ASSUME NEW r \in ReplacedEdges(i, p, others), r.status = "active"
             PROVE  <<r.intent, r.on>> \in ProposedPairs(i, p, others)
  BY DEF ActivePairs
<1>1. CASE r \in dependency /\ r.intent # i
  BY <1>1 DEF ProposedPairs, ActivePairs
<1>2. ASSUME NEW e \in CandidateEdges(i, p, others),
             r = [intent |-> e[1], on |-> e[2], key |-> e[3], status |-> EdgeStatus(e)]
      PROVE  <<r.intent, r.on>> \in ProposedPairs(i, p, others)
  BY <1>2 DEF ProposedPairs
<1> QED
  BY <1>1, <1>2 DEF ReplacedEdges

(* An invalidation only takes states to STALE and edges to stale. *)
LEMMA InvalidateEffect ==
    ASSUME NEW states, NEW rows \in SUBSET DependencyRows, NEW producer, NEW keys,
           Invalidate(states, rows, producer, keys)
    PROVE  /\ \A j \in Intents :
                \/ st'[j] = states[j] /\ fences'[j] = fences[j]
                \/ /\ states[j] \in Trusting /\ j # producer
                   /\ st'[j] = "STALE" /\ fences'[j] # {}
           /\ ActivePairs(dependency') \subseteq ActivePairs(rows)
<1> DEFINE staled == Staled(states, rows, producer, keys)
<1>1. PICK c \in Causes(states, rows, producer, keys) :
          /\ st' = [i \in Intents |-> IF i \in staled THEN "STALE" ELSE states[i]]
          /\ dependency' = { IF r.intent \in staled /\ r.on = c[r.intent]
                             THEN [r EXCEPT !.status = "stale"] ELSE r : r \in rows }
          /\ fences' = [i \in Intents |->
                          IF i \in staled THEN fences[i] \cup {c[i]} ELSE fences[i]]
  BY DEF Invalidate
<1>2. \A j \in staled : states[j] \in Trusting /\ j # producer
  BY DEF Staled
<1> HIDE DEF staled
<1>3. \A j \in Intents :
         \/ st'[j] = states[j] /\ fences'[j] = fences[j]
         \/ states[j] \in Trusting /\ j # producer /\ st'[j] = "STALE" /\ fences'[j] # {}
  BY <1>1, <1>2
<1>4. ASSUME NEW r \in DependencyRows PROVE [r EXCEPT !.status = "stale"].status = "stale"
  BY DEF DependencyRows
<1>5. ASSUME NEW s \in dependency', s.status = "active" PROVE s \in rows
  BY <1>1, <1>4, <1>5
<1> QED
  BY <1>3, <1>5 DEF ActivePairs

(* A swept table makes nobody live. *)
LEMMA SweepQuiet ==
    ASSUME TypeOK, NEW d, SweepOnly(d)
    PROVE  Quiet
BY SweptFacts DEF SweepOnly, Quiet

(* Admission, amendment, promotion and refresh are arbitrated or quiet. *)
LEMMA ArbitrationKinds ==
    ASSUME TypeOK, NEW i \in Intents, NEW p \in ContentType, NEW d \in 0..TxnTicks,
           \/ AdmitAt(i, p, d) \/ AmendAt(i, p, d) \/ PromoteAt(i, p, d) \/ RefreshAt(i, p, d)
    PROVE  Quiet \/ Arbitrated(i)
<1> DEFINE others == ActiveIntents(d) \ {i}
           rows   == ReplacedEdges(i, p, others)
<1>0. rows \in SUBSET DependencyRows
  BY ReplacedEdgesType DEF ActiveIntents
<1>1. ActivePairs(rows) \subseteq ProposedPairs(i, p, others)
  BY ReplacedPairs
<1>2. ASSUME NEW known, Allowed(i, p, others, known)
      PROVE  (\A q \in others : ~Blocked(p, pl[q])) /\ Acyclic(ProposedPairs(i, p, others))
  BY <1>2 DEF Allowed
<1>3. ASSUME SweepOnly(d) PROVE Quiet
  BY <1>3, SweepQuiet
<1>4. ASSUME ArbitratedAt(i, p, d) PROVE Arbitrated(i)
  BY <1>4 DEF Arbitrated
<1>5. CASE AdmitAt(i, p, d)
  <2>1. CASE Swept[i] \in Reevaluated /\ Allowed(i, p, others, KnownIntents)
    <3>1. /\ st' = [Swept EXCEPT ![i] = "ADMITTED"]
          /\ pl' = [pl EXCEPT ![i] = p]
          /\ dependency' = rows
      BY <1>5, <2>1 DEF AdmitAt
    <3>2. \A j \in Intents \ {i} : st'[j] \in Live => Swept[j] \in Live
      BY <3>1, SweptFacts
    <3> QED
      BY <1>1, <1>2, <1>4, <2>1, <3>1, <3>2 DEF ArbitratedAt
  <2>2. CASE Swept[i] \in Reevaluated /\ ~Allowed(i, p, others, KnownIntents)
    <3>1. /\ st' = [Swept EXCEPT ![i] = "BLOCKED"]
          /\ pl' = [pl EXCEPT ![i] = p]
          /\ \E v : cv' = [cv EXCEPT ![i] = v]
          /\ dependency' = dependency
      BY <1>5, <2>2 DEF AdmitAt
    <3>2. ASSUME NEW j \in Intents, st'[j] \in Live
          PROVE  st[j] \in Live /\ pl'[j] = pl[j] /\ cv'[j] = cv[j]
      <4>1. j # i
        BY <3>1, <3>2, SweptFacts DEF Live
      <4> QED
        BY <3>1, <3>2, <4>1, SweptFacts DEF TypeOK
    <3> QED
      BY <3>1, <3>2 DEF Quiet
  <2>3. CASE Swept[i] \notin Reevaluated
    BY <1>3, <1>5, <2>3 DEF AdmitAt
  <2> QED
    BY <2>1, <2>2, <2>3
<1>6. CASE AmendAt(i, p, d)
  <2> DEFINE states  == [Swept EXCEPT ![i] = AmendedState(i)]
             changed == ChangedKeys(pl[i], p)
  <2>1. CASE Allowed(i, p, others, KnownIntents \cup {i})
    <3>1. /\ Install(i, p, d)
          /\ \/ Invalidate(states, rows, i, changed)
             \/ st' = states /\ dependency' = rows
      BY <1>6, <2>1 DEF AmendAt
    <3>2. \A j \in Intents \ {i} : states[j] = Swept[j]
      BY SweptFacts
    <3> HIDE DEF states, rows, changed
    <3>3. /\ \A j \in Intents \ {i} : st'[j] \in Live => states[j] \in Live
          /\ ActivePairs(dependency') \subseteq ActivePairs(rows)
      <4>1. CASE Invalidate(states, rows, i, changed)
        BY <1>0, <4>1, InvalidateEffect DEF Live
      <4>2. CASE st' = states /\ dependency' = rows
        BY <4>2
      <4> QED
        BY <3>1, <4>1, <4>2
    <3> QED
      BY <1>1, <1>2, <1>4, <2>1, <3>1, <3>2, <3>3 DEF ArbitratedAt, Install
  <2>2. CASE ~Allowed(i, p, others, KnownIntents \cup {i})
    BY <1>3, <1>6, <2>2 DEF AmendAt
  <2> QED
    BY <2>1, <2>2
<1>7. CASE PromoteAt(i, p, d)
  <2>1. CASE Allowed(i, p, others, KnownIntents \cup {i})
    <3>1. Install(i, p, d) /\ st' = Swept /\ dependency' = rows
      BY <1>7, <2>1 DEF PromoteAt
    <3> QED
      BY <1>1, <1>2, <1>4, <2>1, <3>1 DEF ArbitratedAt, Install
  <2>2. CASE ~Allowed(i, p, others, KnownIntents \cup {i})
    BY <1>3, <1>7, <2>2 DEF PromoteAt
  <2> QED
    BY <2>1, <2>2
<1>8. CASE RefreshAt(i, p, d)
  <2>1. CASE ProducersSettled(i) /\ Allowed(i, p, others, KnownIntents \cup {i})
    <3>1. Install(i, p, d) /\ st' = [Swept EXCEPT ![i] = "ADMITTED"] /\ dependency' = rows
      BY <1>8, <2>1 DEF RefreshAt
    <3>2. \A j \in Intents \ {i} : st'[j] = Swept[j]
      BY <3>1, SweptFacts
    <3> QED
      BY <1>1, <1>2, <1>4, <2>1, <3>1, <3>2 DEF ArbitratedAt, Install
  <2>2. CASE ~(ProducersSettled(i) /\ Allowed(i, p, others, KnownIntents \cup {i}))
    BY <1>3, <1>8, <2>2 DEF RefreshAt
  <2> QED
    BY <2>1, <2>2
<1> QED
  BY <1>5, <1>6, <1>7, <1>8

(* Every step of the registry is quiet or arbitrates one intent. *)
LEMMA StepKinds ==
    ASSUME TypeOK, [Next]_vars
    PROVE  Quiet \/ \E i \in Intents : Arbitrated(i)
<1>1. CASE UNCHANGED vars
  BY <1>1 DEF Quiet, vars
<1>2. CASE Tick
  BY <1>2 DEF Quiet, Tick
<1>3. CASE ExpireStale
  BY <1>3, SweepQuiet DEF ExpireStale
<1>4. ASSUME NEW i \in Intents, IntentStep(i) PROVE Quiet \/ Arbitrated(i)
  <2>1. CASE PauseRuntime(i)
    BY <2>1 DEF PauseRuntime, Quiet, Live, TypeOK
  <2>2. CASE InvalidateDependents(i, ContractKeys(pl[i]))
    BY <2>2, InvalidateEffect DEF InvalidateDependents, Quiet, Live, TypeOK
  <2>3. CASE ResumeRefreshed(i)
    BY <2>3 DEF ResumeRefreshed, Quiet, Live, TypeOK
  <2>4. CASE ActivateIntent(i) \/ CompleteIntent(i) \/ ReleaseIntent(i)
    BY <2>4 DEF ActivateIntent, CompleteIntent, ReleaseIntent, SetState, Quiet, Live, TypeOK
  <2>5. CASE HeartbeatIntent(i)
    BY <2>5 DEF HeartbeatIntent, Quiet
  <2> QED
    BY <1>4, <2>1, <2>2, <2>3, <2>4, <2>5, IntentStepCases, ArbitrationKinds
<1> QED
  BY <1>1, <1>2, <1>3, <1>4 DEF Next

-----------------------------------------------------------------------------
(* The active premise graph.                                               *)

(* Removing edges keeps a graph acyclic. *)
LEMMA AcyclicSubset ==
    ASSUME NEW A, NEW B, A \subseteq B, Acyclic(B)
    PROVE  Acyclic(A)
BY DEF Acyclic

(* The active dependency edges are acyclic after any number of admissions, *)
(* amendments, promotions, refreshes and invalidations, for every number   *)
(* of intents.                                                             *)
THEOREM PremisesStayAcyclic == Spec => []PremisesAcyclic
<1>1. Init => PremisesAcyclic
  BY DEF Init, PremisesAcyclic, ActivePairs, Acyclic
<1>2. TypeOK /\ PremisesAcyclic /\ [Next]_vars => PremisesAcyclic'
  <2> SUFFICES ASSUME TypeOK, PremisesAcyclic, [Next]_vars PROVE PremisesAcyclic'
    OBVIOUS
  <2>1. CASE Quiet
    BY <2>1, AcyclicSubset DEF Quiet, PremisesAcyclic
  <2>2. ASSUME NEW i \in Intents, Arbitrated(i) PROVE PremisesAcyclic'
    BY <2>2, AcyclicSubset DEF Arbitrated, ArbitratedAt, PremisesAcyclic
  <2> QED
    BY <2>1, <2>2, StepKinds
<1> QED
  BY <1>1, <1>2, TypeCorrect, PTL DEF Spec

-----------------------------------------------------------------------------
(* The life cycle of one intent, whatever happens to the others.           *)

Kept(j) == fences'[j] = fences[j] /\ recovery'[j] = recovery[j]

LifeStep(j) ==
    \/ st'[j] = st[j] /\ Kept(j)
    \/ st[j] \in {Absent, "BLOCKED"} /\ st'[j] \in {"ADMITTED", "BLOCKED"} /\ Kept(j)
    \/ st[j] \in Live /\ st'[j] \in {"ADMITTED", "EXPIRED", "COMPLETED"} /\ Kept(j)
    \/ st[j] \in Live /\ st'[j] = "ACTIVE" /\ recovery[j].phase # "refreshed" /\ Kept(j)
    \/ st[j] \in Live \cup {"BLOCKED", "EXPIRED", "STALE"} /\ st'[j] = "RELEASED" /\ Kept(j)
    \/ /\ st[j] \in Trusting /\ st'[j] = "STALE"
       /\ fences'[j] # {} /\ recovery'[j] = recovery[j]
    \/ /\ st[j] = "STALE" /\ st'[j] = "ADMITTED"
       /\ cv'[j] > cv[j] /\ pl'[j].base # pl[j].base
       /\ fences'[j] = fences[j] /\ recovery'[j].phase = "refreshed"
    \/ /\ st[j] = "ADMITTED" /\ st'[j] = "ACTIVE"
       /\ fences'[j] = fences[j] /\ recovery'[j].phase = "resumed"

(* An intent that a transaction only sweeps goes on or expires. *)
LEMMA SweptLife ==
    ASSUME TypeOK, NEW j \in Intents, st'[j] = Swept[j], Kept(j)
    PROVE  LifeStep(j)
BY SweptFacts DEF LifeStep

(* The four arbitrations move every intent along its life cycle. *)
LEMMA ArbitrationLife ==
    ASSUME TypeOK, NEW i \in Intents, NEW p \in ContentType, NEW d \in Nat,
           \/ AdmitAt(i, p, d)
           \/ Swept[i] \in Live \cup {"STALE", "BLOCKED"} /\ AmendAt(i, p, d)
           \/ Swept[i] \in Live /\ PromoteAt(i, p, d)
           \/ Swept[i] = "STALE" /\ p.base # pl[i].base /\ RefreshAt(i, p, d),
           NEW j \in Intents
    PROVE  LifeStep(j)
<1> DEFINE others == ActiveIntents(d) \ {i}
           rows   == ReplacedEdges(i, p, others)
<1>0. rows \in SUBSET DependencyRows
  BY ReplacedEdgesType DEF ActiveIntents
<1>1. ASSUME SweepOnly(d) PROVE LifeStep(j)
  BY <1>1, SweptLife DEF SweepOnly, Kept
<1>2. CASE AdmitAt(i, p, d)
  <2>1. CASE Swept[i] \in Reevaluated
    <3>1. /\ \E s \in {"ADMITTED", "BLOCKED"} : st' = [Swept EXCEPT ![i] = s]
          /\ UNCHANGED <<fences, recovery>>
      BY <1>2, <2>1 DEF AdmitAt
    <3>2. CASE j = i
      BY <2>1, <3>1, <3>2, SweptFacts DEF LifeStep, Kept, Reevaluated, Live, Absent
    <3>3. CASE j # i
      BY <3>1, <3>3, SweptFacts, SweptLife DEF Kept
    <3> QED
      BY <3>2, <3>3
  <2>2. CASE Swept[i] \notin Reevaluated
    BY <1>1, <1>2, <2>2 DEF AdmitAt
  <2> QED
    BY <2>1, <2>2
<1>3. CASE Swept[i] \in Live \cup {"STALE", "BLOCKED"} /\ AmendAt(i, p, d)
  <2> DEFINE states  == [Swept EXCEPT ![i] = AmendedState(i)]
             changed == ChangedKeys(pl[i], p)
  <2>1. CASE Allowed(i, p, others, KnownIntents \cup {i})
    <3>1. /\ UNCHANGED recovery
          /\ \/ Invalidate(states, rows, i, changed)
             \/ st' = states /\ dependency' = rows /\ UNCHANGED fences
      BY <1>3, <2>1 DEF AmendAt
    <3>2. states[i] = AmendedState(i) /\ \A k \in Intents \ {i} : states[k] = Swept[k]
      BY SweptFacts
    <3> HIDE DEF states, rows, changed
    <3>3. \/ st'[j] = states[j] /\ Kept(j)
          \/ /\ states[j] \in Trusting /\ j # i
             /\ st'[j] = "STALE" /\ fences'[j] # {} /\ recovery'[j] = recovery[j]
      <4>1. CASE Invalidate(states, rows, i, changed)
        BY <1>0, <3>1, <4>1, InvalidateEffect DEF Kept
      <4>2. CASE st' = states /\ UNCHANGED fences
        BY <3>1, <4>2 DEF Kept
      <4> QED
        BY <3>1, <4>1, <4>2
    <3>4. CASE j = i
      BY <1>3, <3>2, <3>3, <3>4, SweptFacts DEF LifeStep, AmendedState, Live
    <3>5. CASE j # i /\ st'[j] = states[j] /\ Kept(j)
      BY <3>2, <3>5, SweptLife
    <3>6. CASE j # i /\ states[j] \in Trusting /\ st'[j] = "STALE"
                /\ fences'[j] # {} /\ recovery'[j] = recovery[j]
      <4>1. st[j] \in Trusting
        BY <3>2, <3>6, SweptFacts DEF Trusting, Live
      <4> QED
        BY <3>6, <4>1 DEF LifeStep
    <3> QED
      BY <3>3, <3>4, <3>5, <3>6
  <2>2. CASE ~Allowed(i, p, others, KnownIntents \cup {i})
    BY <1>1, <1>3, <2>2 DEF AmendAt
  <2> QED
    BY <2>1, <2>2
<1>4. CASE PromoteAt(i, p, d)
  BY <1>1, <1>4, SweptLife DEF PromoteAt, Kept
<1>5. CASE Swept[i] = "STALE" /\ p.base # pl[i].base /\ RefreshAt(i, p, d)
  <2>1. CASE ProducersSettled(i) /\ Allowed(i, p, others, KnownIntents \cup {i})
    <3>1. /\ Install(i, p, d)
          /\ st' = [Swept EXCEPT ![i] = "ADMITTED"]
          /\ recovery' = [recovery EXCEPT ![i] = [phase |-> "refreshed", cv |-> cv[i] + 1]]
          /\ UNCHANGED fences
      BY <1>5, <2>1 DEF RefreshAt
    <3>2. CASE j = i
      <4>1. st[i] = "STALE" /\ st'[i] = "ADMITTED"
        BY <1>5, <3>1, SweptFacts DEF Live
      <4>2. cv'[i] > cv[i] /\ pl'[i] = p
        BY <3>1 DEF Install, TypeOK
      <4>3. recovery'[i].phase = "refreshed" /\ fences'[i] = fences[i]
        BY <3>1 DEF TypeOK
      <4> QED
        BY <1>5, <3>2, <4>1, <4>2, <4>3 DEF LifeStep
    <3>3. CASE j # i
      <4>1. st'[j] = Swept[j]
        BY <3>1, <3>3, SweptFacts
      <4>2. Kept(j)
        BY <3>1, <3>3 DEF Kept, TypeOK
      <4> QED
        BY <4>1, <4>2, SweptLife
    <3> QED
      BY <3>2, <3>3
  <2>2. CASE ~(ProducersSettled(i) /\ Allowed(i, p, others, KnownIntents \cup {i}))
    BY <1>1, <1>5, <2>2 DEF RefreshAt
  <2> QED
    BY <2>1, <2>2
<1> QED
  BY <1>2, <1>3, <1>4, <1>5

(* Every step of the registry moves every intent along its life cycle. *)
LEMMA LifeSteps ==
    ASSUME TypeOK, [Next]_vars, NEW j \in Intents
    PROVE  LifeStep(j)
<1>1. CASE UNCHANGED vars
  BY <1>1 DEF LifeStep, Kept, vars
<1>2. CASE Tick
  BY <1>2 DEF LifeStep, Kept, Tick
<1>3. CASE ExpireStale
  BY <1>3, SweptLife DEF ExpireStale, SweepOnly, Kept
<1>4. ASSUME NEW i \in Intents, IntentStep(i) PROVE LifeStep(j)
  <2>0. 0..TxnTicks \subseteq Nat
    BY RegistryAssumption
  <2>1. CASE PauseRuntime(i)
    BY <2>1 DEF PauseRuntime, LifeStep, Kept, Trusting, TypeOK
  <2>2. CASE InvalidateDependents(i, ContractKeys(pl[i]))
    BY <2>2, InvalidateEffect DEF InvalidateDependents, LifeStep, Kept, TypeOK
  <2>3. CASE ResumeRefreshed(i)
    BY <2>3 DEF ResumeRefreshed, LifeStep, Kept, TypeOK
  <2>4. CASE ActivateIntent(i)
    BY <2>4 DEF ActivateIntent, SetState, LifeStep, Kept, TypeOK
  <2>5. CASE CompleteIntent(i) \/ ReleaseIntent(i)
    BY <2>5 DEF CompleteIntent, ReleaseIntent, SetState, LifeStep, Kept, Live, TypeOK
  <2>6. CASE HeartbeatIntent(i)
    BY <2>6 DEF HeartbeatIntent, LifeStep, Kept
  <2> QED
    BY <1>4, <2>0, <2>1, <2>2, <2>3, <2>4, <2>5, <2>6, IntentStepCases, ArbitrationLife
<1> QED
  BY <1>1, <1>2, <1>3, <1>4 DEF Next

-----------------------------------------------------------------------------
(* Recovery.                                                               *)

(* RecoveryBarrier alone is not inductive: it does not exclude that an     *)
(* intent which was never admitted carries a fence when it is admitted.    *)
FencedAfterAdmission ==
    \A i \in Intents : st[i] \in {Absent, "BLOCKED"} => fences[i] = {}

RecoveryInv == RecoveryBarrier /\ FencedAfterAdmission

(* Fenced work runs again only once refreshed and resumed, for every       *)
(* number of intents and whatever is invalidated, amended or paused in     *)
(* between.                                                                *)
THEOREM RecoveryHolds == Spec => []RecoveryBarrier
<1>1. Init => RecoveryInv
  BY DEF Init, RecoveryInv, RecoveryBarrier, FencedAfterAdmission, Absent, Trusting, Live
<1>2. TypeOK /\ RecoveryInv /\ [Next]_vars => RecoveryInv'
  <2> SUFFICES ASSUME TypeOK, RecoveryInv, [Next]_vars, NEW j \in Intents
               PROVE  /\ st'[j] = "STALE" => fences'[j] # {}
                      /\ st'[j] \in Trusting /\ fences'[j] # {} => recovery'[j].phase # "none"
                      /\ st'[j] = "ACTIVE" => recovery'[j].phase # "refreshed"
                      /\ st'[j] \in {Absent, "BLOCKED"} => fences'[j] = {}
    BY DEF RecoveryInv, RecoveryBarrier, FencedAfterAdmission
  <2>1. LifeStep(j)
    BY LifeSteps
  <2>2. /\ st[j] = "STALE" => fences[j] # {}
        /\ st[j] \in Trusting /\ fences[j] # {} => recovery[j].phase # "none"
        /\ st[j] = "ACTIVE" => recovery[j].phase # "refreshed"
        /\ st[j] \in {Absent, "BLOCKED"} => fences[j] = {}
    BY DEF RecoveryInv, RecoveryBarrier, FencedAfterAdmission
  <2> QED
    BY <2>1, <2>2 DEF LifeStep, Kept, Trusting, Live, Absent
<1>3. RecoveryInv => RecoveryBarrier
  BY DEF RecoveryInv
<1> QED
  BY <1>1, <1>2, <1>3, TypeCorrect, PTL DEF Spec

(* Lost authority is never revived: no step of any process brings an       *)
(* expired, released or completed intent back, and a stale one returns     *)
(* only with a new content on another base.                                *)
THEOREM LostAuthorityStaysLost == Spec => AuthorityNotRevived
<1> DEFINE NotRevived ==
      \A i \in Intents :
         /\ st[i] \in {"EXPIRED", "RELEASED"} => st'[i] \in {"EXPIRED", "RELEASED"}
         /\ st[i] = "COMPLETED" => st'[i] \in {"COMPLETED", "STALE"}
         /\ st[i] = "STALE" /\ st'[i] \notin {"STALE", "RELEASED"}
              => st'[i] = "ADMITTED" /\ cv'[i] > cv[i] /\ pl'[i].base # pl[i].base
<1>1. TypeOK /\ [Next]_vars => [NotRevived]_vars
  <2> SUFFICES ASSUME TypeOK, [Next]_vars, NEW i \in Intents
               PROVE  /\ st[i] \in {"EXPIRED", "RELEASED"} => st'[i] \in {"EXPIRED", "RELEASED"}
                      /\ st[i] = "COMPLETED" => st'[i] \in {"COMPLETED", "STALE"}
                      /\ st[i] = "STALE" /\ st'[i] \notin {"STALE", "RELEASED"}
                           => st'[i] = "ADMITTED" /\ cv'[i] > cv[i] /\ pl'[i].base # pl[i].base
    OBVIOUS
  <2>1. LifeStep(i)
    BY LifeSteps
  <2> QED
    BY <2>1 DEF LifeStep, Trusting, Live, Absent
<1>2. Spec => [][NotRevived]_vars
  BY <1>1, TypeCorrect, PTL DEF Spec
<1> QED
  BY <1>2 DEF AuthorityNotRevived

-----------------------------------------------------------------------------
(* The registry implements the life cycle it promises.                     *)

LapsedIntents == { i \in Intents : st[i] \in Live /\ lease[i] = 0 }

(* The expiry every arbitration starts with settles the lapsed leases.     *)
LEMMA SweptIsAfter ==
    ASSUME TypeOK
    PROVE  LapsedIntents \in SUBSET Lifecycle!Holders /\ Swept = Lifecycle!After(LapsedIntents)
BY DEF LapsedIntents, Swept, Lifecycle!Holders, Lifecycle!After, Lifecycle!Live, Live

(* A transaction that only sweeps is a settlement.                         *)
LEMMA SweepSettles ==
    ASSUME TypeOK, NEW d, SweepOnly(d)
    PROVE  Lifecycle!LifecycleNext
<1>1. Lifecycle!Settle(LapsedIntents)
  BY SweptIsAfter DEF SweepOnly, Lifecycle!Settle
<1> QED
  BY <1>1, SweptIsAfter DEF Lifecycle!LifecycleNext

(* A row that takes a new content takes a new version with it.             *)
LEMMA InstallReplaces ==
    ASSUME TypeOK, NEW i \in Intents, NEW p, NEW d, Install(i, p, d)
    PROVE  Lifecycle!Replace(i, pl'[i])
<1>1. pl' = [pl EXCEPT ![i] = p] /\ pl'[i] = p /\ cv' = [cv EXCEPT ![i] = @ + 1]
  BY DEF Install, TypeOK
<1> QED
  BY <1>1 DEF Lifecycle!Replace

(* The walk over dependents fences a set of trusted intents.               *)
LEMMA InvalidateFences ==
    ASSUME NEW states, NEW rows, NEW producer, NEW keys,
           Invalidate(states, rows, producer, keys)
    PROVE  \E D \in SUBSET Intents :
             /\ producer \notin D
             /\ \A d \in D : states[d] \in Trusting
             /\ st' = Lifecycle!Fenced(states, D)
<1> DEFINE D == Staled(states, rows, producer, keys)
<1>1. st' = [i \in Intents |-> IF i \in D THEN "STALE" ELSE states[i]]
  BY DEF Invalidate
<1>2. /\ D \in SUBSET Intents /\ producer \notin D
      /\ \A d \in D : states[d] \in Trusting
  BY DEF Staled
<1> HIDE DEF D
<1>3. st' = Lifecycle!Fenced(states, D)
  BY <1>1 DEF Lifecycle!Fenced
<1> QED
  BY <1>2, <1>3

(* Admission, amendment, promotion and refresh are steps of the life cycle. *)
LEMMA ArbitrationImplements ==
    ASSUME TypeOK, NEW i \in Intents, NEW p \in ContentType, NEW d \in Nat,
           \/ (Swept[i] = Absent \/ pl[i] = p) /\ AdmitAt(i, p, d)
           \/ Swept[i] \in Live \cup {"STALE", "BLOCKED"} /\ AmendAt(i, p, d)
           \/ Swept[i] \in Live /\ PromoteAt(i, p, d)
           \/ Swept[i] = "STALE" /\ p.base # pl[i].base /\ RefreshAt(i, p, d)
    PROVE  Lifecycle!LifecycleNext
<1> DEFINE others == ActiveIntents(d) \ {i}
           rows   == ReplacedEdges(i, p, others)
           E      == LapsedIntents
<1>0. E \in SUBSET Lifecycle!Holders /\ Swept = Lifecycle!After(E)
  BY SweptIsAfter
<1> HIDE DEF E
<1>1. ASSUME SweepOnly(d) PROVE Lifecycle!LifecycleNext
  BY <1>1, SweepSettles
<1>2. CASE /\ Swept[i] = Absent \/ pl[i] = p
           /\ AdmitAt(i, p, d) /\ Swept[i] \in Reevaluated
  <2>1. PICK verdict \in {"ADMITTED", "BLOCKED"} : st' = [Swept EXCEPT ![i] = verdict]
    BY <1>2 DEF AdmitAt
  <2>2. /\ pl' = [pl EXCEPT ![i] = p]
        /\ cv' = [cv EXCEPT ![i] = IF Swept[i] = Absent THEN 1 ELSE @]
    BY <1>2 DEF AdmitAt
  <2>3. st[i] \in {Absent, "BLOCKED"} /\ Swept[i] = st[i]
    BY <1>2, SweptFacts DEF Reevaluated, Live, Absent
  <2>4. pl'[i] = p /\ (st[i] = "BLOCKED" => p = pl[i])
    BY <1>2, <2>2, <2>3 DEF TypeOK, Absent
  <2>5. Lifecycle!Admit(E, i, verdict, pl'[i])
    BY <1>0, <2>1, <2>2, <2>3, <2>4 DEF Lifecycle!Admit, Lifecycle!Absent, Absent
  <2> QED
    BY <1>0, <2>5 DEF Lifecycle!LifecycleNext
<1>3. CASE Swept[i] \in Live \cup {"STALE", "BLOCKED"} /\ AmendAt(i, p, d)
           /\ Allowed(i, p, others, KnownIntents \cup {i})
  <2> DEFINE states  == [Swept EXCEPT ![i] = AmendedState(i)]
             changed == ChangedKeys(pl[i], p)
  <2>1. /\ Install(i, p, d)
        /\ \/ Invalidate(states, rows, i, changed)
           \/ st' = states
    BY <1>3 DEF AmendAt
  <2>2. /\ states = [Lifecycle!After(E) EXCEPT ![i] = IF @ = "STALE" THEN @ ELSE "ADMITTED"]
        /\ \A k \in Intents \ {i} : states[k] = Swept[k]
        /\ states \in [Intents -> States \cup {Absent}]
    BY <1>0, SweptFacts DEF AmendedState, States, Trusting, Live
  <2> HIDE DEF states, changed, rows
  <2>3. PICK D \in SUBSET Intents :
           /\ i \notin D
           /\ \A k \in D : states[k] \in Trusting
           /\ st' = Lifecycle!Fenced(states, D)
    <3>1. CASE Invalidate(states, rows, i, changed)
      BY <3>1, InvalidateFences
    <3>2. CASE st' = states
      <4>1. st' = Lifecycle!Fenced(states, {})
        BY <2>2, <3>2 DEF Lifecycle!Fenced
      <4> QED
        BY <4>1
    <3> QED
      BY <2>1, <3>1, <3>2
  <2>4. Lifecycle!Replace(i, pl'[i])
    BY <2>1, InstallReplaces
  <2>5. Lifecycle!Amend(E, i, D, pl'[i])
    BY <1>0, <1>3, <2>2, <2>3, <2>4
       DEF Lifecycle!Amend, Lifecycle!Live, Lifecycle!Trusting, Live, Trusting
  <2> QED
    BY <1>0, <2>5 DEF Lifecycle!LifecycleNext
<1>4. CASE Swept[i] \in Live /\ PromoteAt(i, p, d)
           /\ Allowed(i, p, others, KnownIntents \cup {i})
  <2>1. Install(i, p, d) /\ st' = Swept
    BY <1>4 DEF PromoteAt
  <2>2. Lifecycle!Promote(E, i, pl'[i])
    BY <1>0, <1>4, <2>1, InstallReplaces DEF Lifecycle!Promote, Lifecycle!Live, Live
  <2> QED
    BY <1>0, <2>2 DEF Lifecycle!LifecycleNext
<1>5. CASE Swept[i] = "STALE" /\ RefreshAt(i, p, d)
           /\ ProducersSettled(i) /\ Allowed(i, p, others, KnownIntents \cup {i})
  <2>1. Install(i, p, d) /\ st' = [Swept EXCEPT ![i] = "ADMITTED"]
    BY <1>5 DEF RefreshAt
  <2>2. st[i] = "STALE"
    BY <1>5, SweptFacts DEF Live
  <2>3. Lifecycle!Refresh(E, i, pl'[i])
    BY <1>0, <2>1, <2>2, InstallReplaces DEF Lifecycle!Refresh
  <2> QED
    BY <1>0, <2>3 DEF Lifecycle!LifecycleNext
<1>6. CASE AdmitAt(i, p, d) /\ Swept[i] \notin Reevaluated
  BY <1>1, <1>6 DEF AdmitAt
<1>7. CASE AmendAt(i, p, d) /\ ~Allowed(i, p, others, KnownIntents \cup {i})
  BY <1>1, <1>7 DEF AmendAt
<1>8. CASE PromoteAt(i, p, d) /\ ~Allowed(i, p, others, KnownIntents \cup {i})
  BY <1>1, <1>8 DEF PromoteAt
<1>9. CASE RefreshAt(i, p, d) /\ ~(ProducersSettled(i) /\ Allowed(i, p, others, KnownIntents \cup {i}))
  BY <1>1, <1>9 DEF RefreshAt
<1> QED
  BY <1>2, <1>3, <1>4, <1>5, <1>6, <1>7, <1>8, <1>9

(* Every step of the registry is a step of the life cycle or a stutter.    *)
LEMMA StepImplements ==
    ASSUME TypeOK, [Next]_vars
    PROVE  [Lifecycle!LifecycleNext]_(Lifecycle!lifecycle)
<1>1. CASE UNCHANGED vars
  BY <1>1 DEF vars, Lifecycle!lifecycle
<1>2. CASE Tick
  BY <1>2 DEF Tick, Lifecycle!lifecycle
<1>3. CASE ExpireStale
  BY <1>3, SweepSettles DEF ExpireStale
<1>4. ASSUME NEW i \in Intents, IntentStep(i)
      PROVE  [Lifecycle!LifecycleNext]_(Lifecycle!lifecycle)
  <2>0. 0..TxnTicks \subseteq Nat
    BY RegistryAssumption
  <2>1. CASE PauseRuntime(i)
    <3>1. st' = Lifecycle!Fenced(st, {i})
      BY <2>1 DEF PauseRuntime, Lifecycle!Fenced, TypeOK
    <3>2. Lifecycle!Invalidate({i})
      BY <2>1, <3>1 DEF PauseRuntime, Lifecycle!Invalidate, Lifecycle!Trusting, Lifecycle!Live, Live
    <3> QED
      BY <3>2 DEF Lifecycle!LifecycleNext
  <2>2. CASE InvalidateDependents(i, ContractKeys(pl[i]))
    <3>1. PICK D \in SUBSET Intents :
             (\A k \in D : st[k] \in Trusting) /\ st' = Lifecycle!Fenced(st, D)
      BY <2>2, InvalidateFences DEF InvalidateDependents
    <3>2. Lifecycle!Invalidate(D)
      BY <2>2, <3>1
         DEF InvalidateDependents, Lifecycle!Invalidate, Lifecycle!Trusting, Lifecycle!Live, Trusting, Live
    <3> QED
      BY <3>2 DEF Lifecycle!LifecycleNext
  <2>3. CASE ResumeRefreshed(i) \/ ActivateIntent(i)
    <3>1. Lifecycle!Activate(i)
      BY <2>3 DEF ResumeRefreshed, ActivateIntent, SetState, Live,
                  Lifecycle!Activate, Lifecycle!Move, Lifecycle!Live
    <3> QED
      BY <3>1 DEF Lifecycle!LifecycleNext
  <2>4. CASE CompleteIntent(i)
    <3>1. Lifecycle!Complete(i)
      BY <2>4 DEF CompleteIntent, SetState, Live, Lifecycle!Complete, Lifecycle!Move, Lifecycle!Live
    <3> QED
      BY <3>1 DEF Lifecycle!LifecycleNext
  <2>5. CASE ReleaseIntent(i)
    <3>1. Lifecycle!Release(i)
      BY <2>5 DEF ReleaseIntent, SetState, Lifecycle!Release, Lifecycle!Move, Lifecycle!Live
    <3> QED
      BY <3>1 DEF Lifecycle!LifecycleNext
  <2>6. CASE HeartbeatIntent(i)
    BY <2>6 DEF HeartbeatIntent, Lifecycle!lifecycle
  <2> QED
    BY <1>4, <2>0, <2>1, <2>2, <2>3, <2>4, <2>5, <2>6, IntentStepCases, ArbitrationImplements
<1> QED
  BY <1>1, <1>2, <1>3, <1>4 DEF Next

(* The registry implements the life cycle its callers rely on, for every   *)
(* set of intents, contents and lease lengths.                             *)
THEOREM RegistryImplementsLifecycle == Spec => ImplementsLifecycle
<1>1. Init => Lifecycle!LifecycleInit
  BY DEF Init, Lifecycle!LifecycleInit, Lifecycle!Absent, Absent
<1>2. TypeOK /\ [Next]_vars => [Lifecycle!LifecycleNext]_(Lifecycle!lifecycle)
  BY StepImplements
<1> QED
  BY <1>1, <1>2, TypeCorrect, PTL DEF Spec, ImplementsLifecycle, Lifecycle!LifecycleSpec

-----------------------------------------------------------------------------
(* The walk over dependents.                                               *)

(* A set of naturals that is not empty has a least member. *)
LEMMA Least ==
    ASSUME NEW S \in SUBSET Nat, S # {}
    PROVE  \E n \in S : \A m \in S : n <= m
<1>1. PICK x \in S : \A y \in S : ~(<<y, x>> \in OpToRel(<, Nat))
  BY NatLessThanWellFounded, WFMin
<1>2. \A y \in S : ~(y < x)
  BY <1>1 DEF OpToRel
<1> QED
  BY <1>2

(* The trusting intents one hop away from a set of intents already met. *)
Neighbours(states, rows, producer, keys, met) ==
    { d \in Intents : /\ states[d] \in Trusting
                      /\ \E q \in met : Hop(rows, producer, keys, d, q) }

(* w holds the layers of a walk of n hops: layer k is what k hops meet.    *)
IsWalk(w, n, states, rows, producer, keys) ==
    w = [k \in 0..n |->
           IF k = 0 THEN {producer}
           ELSE w[k-1] \cup Neighbours(states, rows, producer, keys, w[k-1])]

(* The layers of the walk exist: _invalidate_dependents_locked's queue is  *)
(* defined for any number of hops.                                         *)
LEMMA WalkExists ==
    ASSUME NEW states, NEW rows, NEW producer, NEW keys, NEW N \in Nat
    PROVE  \E w : IsWalk(w, N, states, rows, producer, keys)
<1> DEFINE Layers(k, w) == IsWalk(w, k, states, rows, producer, keys)
           Missing == { k \in Nat : ~ \E w : Layers(k, w) }
<1>0. /\ Missing \subseteq Nat
      /\ \A k \in Nat : k \notin Missing <=> \E w : Layers(k, w)
  OBVIOUS
<1> SUFFICES Missing = {}
  BY <1>0
<1> HIDE DEF Missing
<1>1. SUFFICES ASSUME Missing # {} PROVE FALSE
  OBVIOUS
<1>2. PICK k \in Missing : \A m \in Missing : k <= m
  BY <1>0, <1>1, Least
<1>3. CASE k = 0
  <2>1. Layers(0, [n \in 0..0 |-> {producer}])
    BY DEF IsWalk
  <2> QED
    BY <1>0, <1>2, <1>3, <2>1
<1>4. CASE k # 0
  <2>1. k \in Nat /\ k - 1 \in Nat /\ k - 1 \notin Missing
    BY <1>0, <1>2, <1>4
  <2>2. PICK g : Layers(k-1, g)
    BY <1>0, <2>1
  <2> DEFINE h == [n \in 0..k |->
                     IF n = k THEN g[k-1] \cup Neighbours(states, rows, producer, keys, g[k-1])
                     ELSE g[n]]
  <2>3. \A n \in 0..(k-1) :
           g[n] = IF n = 0 THEN {producer}
                  ELSE g[n-1] \cup Neighbours(states, rows, producer, keys, g[n-1])
    <3>1. g = [n \in 0..(k-1) |->
                 IF n = 0 THEN {producer}
                 ELSE g[n-1] \cup Neighbours(states, rows, producer, keys, g[n-1])]
      BY <2>2 DEF IsWalk
    <3> QED
      BY <3>1, Zenon
  <2>4. \A n \in 0..(k-1) : h[n] = g[n]
    BY <2>1
  <2>5. h[k] = g[k-1] \cup Neighbours(states, rows, producer, keys, g[k-1])
    BY <2>1
  <2> HIDE DEF h
  <2>6. \A n \in 0..k :
           h[n] = IF n = 0 THEN {producer}
                  ELSE h[n-1] \cup Neighbours(states, rows, producer, keys, h[n-1])
    <3> SUFFICES ASSUME NEW n \in 0..k
                 PROVE  h[n] = IF n = 0 THEN {producer}
                               ELSE h[n-1] \cup Neighbours(states, rows, producer, keys, h[n-1])
      OBVIOUS
    <3>1. CASE n = 0
      <4>1. 0 \in 0..(k-1)
        BY <2>1
      <4>2. g[0] = {producer}
        BY <2>3, <4>1
      <4> QED
        BY <2>4, <3>1, <4>1, <4>2
    <3>2. CASE n # 0 /\ n # k
      <4>1. n \in 0..(k-1) /\ n - 1 \in 0..(k-1)
        BY <2>1, <3>2
      <4>2. h[n] = g[n] /\ h[n-1] = g[n-1]
        BY <2>4, <4>1
      <4> QED
        BY <2>3, <3>2, <4>1, <4>2
    <3>3. CASE n # 0 /\ n = k
      <4>1. h[k-1] = g[k-1]
        BY <2>1, <2>4
      <4> QED
        BY <2>5, <3>3, <4>1
    <3> QED
      BY <3>1, <3>2, <3>3
  <2>7. h = [n \in 0..k |-> h[n]]
    BY DEF h
  <2>8. Layers(k, h)
    BY <2>6, <2>7 DEF IsWalk
  <2> QED
    BY <1>0, <1>2, <2>8
<1> QED
  BY <1>3, <1>4

(* The recursive definition of Within means what it says. *)
LEMMA WithinIsWalk ==
    ASSUME NEW states, NEW rows, NEW producer, NEW keys
    PROVE  /\ Cardinality(Intents) \in Nat
           /\ IsWalk(Within(states, rows, producer, keys), Cardinality(Intents),
                     states, rows, producer, keys)
<1> DEFINE N == Cardinality(Intents)
           Layers(v) ==
             v = [n \in 0..N |->
                    IF n = 0 THEN {producer}
                    ELSE v[n-1] \cup { d \in Intents :
                           /\ states[d] \in Trusting
                           /\ \E q \in v[n-1] : Hop(rows, producer, keys, d, q) }]
<1>1. N \in Nat
  BY FS_CardinalityType, RegistryAssumption
<1>2. PICK v : IsWalk(v, N, states, rows, producer, keys)
  BY <1>1, WalkExists
<1>3. Layers(v)
  BY <1>2 DEF IsWalk, Neighbours
<1>4. Within(states, rows, producer, keys) = CHOOSE u : Layers(u)
  BY DEF Within
<1>5. Layers(Within(states, rows, producer, keys))
  BY <1>3, <1>4
<1> QED
  BY <1>1, <1>5 DEF IsWalk, Neighbours

(* What the walk meets after as many hops as there are intents: the        *)
(* producer, every trusting intent with a hop to something met, and        *)
(* nothing else.                                                           *)
LEMMA WalkClosed ==
    ASSUME NEW states, NEW rows, NEW producer \in Intents, NEW keys
    PROVE  LET met == Within(states, rows, producer, keys)[Cardinality(Intents)]
           IN  /\ met \subseteq Intents /\ producer \in met
               /\ Neighbours(states, rows, producer, keys, met) \subseteq met
               /\ \A d \in met \ {producer} :
                    d \in Neighbours(states, rows, producer, keys, met)
<1> DEFINE w == Within(states, rows, producer, keys)
           N == Cardinality(Intents)
           Next1(met) == Neighbours(states, rows, producer, keys, met)
<1>1. /\ N \in Nat
      /\ w[0] = {producer}
      /\ \A n \in 1..N : w[n] = w[n-1] \cup Next1(w[n-1])
  <2>1. N \in Nat /\ IsWalk(w, N, states, rows, producer, keys)
    BY WithinIsWalk
  <2> HIDE DEF w, N, Next1
  <2>2. \A n \in 0..N :
           w[n] = IF n = 0 THEN {producer}
                  ELSE w[n-1] \cup Neighbours(states, rows, producer, keys, w[n-1])
    BY <2>1, Zenon DEF IsWalk
  <2>3. 0 \in 0..N /\ \A n \in 1..N : n \in 0..N /\ n # 0
    BY <2>1
  <2> QED
    BY <2>1, <2>2, <2>3 DEF Next1
<1>2. /\ \A met : Next1(met) \subseteq Intents
      /\ \A met, more : met \subseteq more => Next1(met) \subseteq Next1(more)
  BY DEF Neighbours
<1>3. \A S \in SUBSET Intents : IsFiniteSet(S) /\ Cardinality(S) \in Nat /\ Cardinality(S) <= N
  BY FS_Subset, FS_CardinalityType, RegistryAssumption
<1> HIDE DEF w, N, Next1
<1>4. \A n \in 0..N : w[n] \subseteq Intents /\ producer \in w[n]
  <2> DEFINE Bad == { n \in 0..N : ~(w[n] \subseteq Intents /\ producer \in w[n]) }
  <2> SUFFICES ASSUME Bad # {} PROVE FALSE
    OBVIOUS
  <2>1. Bad \in SUBSET Nat
    BY <1>1
  <2>2. PICK n \in Bad : \A m \in Bad : n <= m
    BY <2>1, Least
  <2>3. n \in 1..N /\ n-1 \in 0..N /\ n-1 \notin Bad
    BY <1>1, <2>1, <2>2
  <2> QED
    BY <1>1, <1>2, <2>2, <2>3
<1>5. \A m \in 0..N : \A n \in 0..m : w[n] \subseteq w[m]
  <2> DEFINE Bad == { m \in 0..N : \E n \in 0..m : ~(w[n] \subseteq w[m]) }
  <2> SUFFICES ASSUME Bad # {} PROVE FALSE
    OBVIOUS
  <2>1. Bad \in SUBSET Nat
    BY <1>1
  <2>2. PICK m \in Bad : \A k \in Bad : m <= k
    BY <2>1, Least
  <2>3. PICK n \in 0..m : ~(w[n] \subseteq w[m])
    BY <2>2
  <2>4. n # m
    BY <2>3
  <2>5. m \in 1..N /\ m-1 \in 0..N /\ n \in 0..(m-1) /\ m-1 \notin Bad
    BY <1>1, <2>1, <2>2, <2>3, <2>4
  <2> QED
    BY <1>1, <2>3, <2>5
<1>6. \E c \in 0..N : c < N /\ w[c+1] = w[c]
  <2> SUFFICES ASSUME \A c \in 0..N : c < N => w[c+1] # w[c] PROVE FALSE
    OBVIOUS
  <2> DEFINE Bad == { n \in 0..N : ~(Cardinality(w[n]) >= n + 1) }
  <2>1. Bad \in SUBSET Nat
    BY <1>1
  <2>2. N \in Bad
    <3>1. Cardinality(w[N]) <= N /\ N \in 0..N
      BY <1>1, <1>3, <1>4
    <3> QED
      BY <1>1, <1>3, <1>4, <3>1
  <2>3. PICK n \in Bad : \A m \in Bad : n <= m
    BY <2>1, <2>2, Least
  <2>4. n # 0
    <3>1. Cardinality(w[0]) = 1
      BY <1>1, FS_Singleton
    <3> QED
      BY <2>3, <3>1
  <2>5. n \in 1..N /\ n-1 \in 0..N /\ n-1 \notin Bad /\ n-1 < N
    BY <1>1, <2>1, <2>3, <2>4
  <2>6. Cardinality(w[n-1]) >= n
    BY <2>5
  <2>7. w[n-1] \subseteq w[n] /\ w[n] # w[n-1]
    <3>1. (n-1)+1 = n
      BY <2>5
    <3>2. w[n-1] \subseteq w[n]
      BY <1>1, <2>5
    <3> QED
      BY <2>5, <3>1, <3>2
  <2>8. Cardinality(w[n-1]) <= Cardinality(w[n]) /\ Cardinality(w[n-1]) # Cardinality(w[n])
    <3>1. w[n] \in SUBSET Intents /\ IsFiniteSet(w[n])
      BY <1>3, <1>4, <2>5
    <3> QED
      BY <2>7, <3>1, FS_Subset
  <2>9. Cardinality(w[n-1]) \in Nat /\ Cardinality(w[n]) \in Nat
    BY <1>3, <1>4, <2>5
  <2> QED
    BY <2>3, <2>5, <2>6, <2>8, <2>9
<1>7. PICK c \in 0..N : c < N /\ w[c+1] = w[c]
  BY <1>6
<1>8. \A n \in 0..N : c <= n => w[n] = w[c]
  <2> DEFINE Bad == { n \in 0..N : c <= n /\ w[n] # w[c] }
  <2> SUFFICES ASSUME Bad # {} PROVE FALSE
    OBVIOUS
  <2>1. Bad \in SUBSET Nat
    BY <1>1
  <2>2. PICK n \in Bad : \A m \in Bad : n <= m
    BY <2>1, Least
  <2>3. n # c /\ n # c + 1
    BY <1>7, <2>2
  <2>4. /\ n \in 1..N /\ n-1 \in 0..N /\ n-1 \notin Bad /\ c <= n-1
        /\ c+1 \in 1..N /\ (c+1)-1 = c
    BY <1>1, <1>7, <2>1, <2>2, <2>3
  <2>5. w[n-1] = w[c]
    BY <2>4
  <2>6. w[n] = w[c] \cup Next1(w[c]) /\ w[c+1] = w[c] \cup Next1(w[c])
    BY <1>1, <2>4, <2>5
  <2> QED
    BY <1>7, <2>2, <2>6
<1>9. Next1(w[N]) \subseteq w[N]
  <2>1. c+1 \in 1..N /\ (c+1)-1 = c /\ N \in 0..N /\ c <= N
    BY <1>1, <1>7
  <2>2. w[N] = w[c] /\ w[c+1] = w[c] \cup Next1(w[c])
    BY <1>1, <1>8, <2>1
  <2> QED
    BY <1>7, <2>2
<1>10. \A d \in w[N] \ {producer} : d \in Next1(w[N])
  <2> SUFFICES ASSUME NEW d \in w[N] \ {producer} PROVE d \in Next1(w[N])
    OBVIOUS
  <2> DEFINE Met == { n \in 0..N : d \in w[n] }
  <2>1. Met \in SUBSET Nat /\ N \in Met
    BY <1>1
  <2>2. PICK n \in Met : \A m \in Met : n <= m
    BY <2>1, Least
  <2>3. n # 0
    BY <1>1, <2>2
  <2>4. n \in 1..N /\ n-1 \in 0..N /\ N \in 0..N /\ n-1 \in 0..N /\ n-1 \notin Met
    BY <1>1, <2>1, <2>2, <2>3
  <2>5. d \in Next1(w[n-1])
    BY <1>1, <2>2, <2>4
  <2>6. w[n-1] \subseteq w[N]
    BY <1>5, <2>4
  <2> QED
    BY <1>2, <2>5, <2>6
<1>11. N \in 0..N
  BY <1>1
<1>12. w[N] \subseteq Intents /\ producer \in w[N]
  BY <1>4, <1>11
<1> QED
  BY <1>9, <1>10, <1>12 DEF w, N, Next1

(* After _invalidate_dependents_locked over an acyclic graph, an intent    *)
(* that keeps an active edge to one that became stale is not trusted any   *)
(* more: the walk cannot come back to the producer and it leaves nobody    *)
(* out.                                                                    *)
LEMMA InvalidateClosed ==
    ASSUME NEW states, NEW rows \in SUBSET DependencyRows,
           NEW producer \in Intents, NEW keys,
           Invalidate(states, rows, producer, keys),
           Acyclic(ActivePairs(rows)),
           NEW q \in Intents, states[q] # "STALE", st'[q] = "STALE",
           NEW r \in dependency', r.on = q, r.status = "active"
    PROVE  st'[r.intent] \notin Trusting
<1> DEFINE met == Within(states, rows, producer, keys)[Cardinality(Intents)]
           staled == Staled(states, rows, producer, keys)
<1>1. PICK c \in Causes(states, rows, producer, keys) :
          /\ st' = [i \in Intents |-> IF i \in staled THEN "STALE" ELSE states[i]]
          /\ dependency' = { IF s.intent \in staled /\ s.on = c[s.intent]
                             THEN [s EXCEPT !.status = "stale"] ELSE s : s \in rows }
  BY DEF Invalidate
<1>2. /\ met \subseteq Intents /\ producer \in met
      /\ Neighbours(states, rows, producer, keys, met) \subseteq met
      /\ \A d \in met \ {producer} : d \in Neighbours(states, rows, producer, keys, met)
  BY WalkClosed
<1>3. staled = { d \in Intents : d # producer /\ states[d] \in Trusting /\ d \in met }
  BY DEF Staled
<1> HIDE DEF met, staled
<1>4. r \in rows
  <2>1. \A s \in DependencyRows : [s EXCEPT !.status = "stale"].status = "stale"
    BY DEF DependencyRows
  <2> QED
    BY <1>1, <2>1
<1>5. q \in staled
  BY <1>1
<1>6. r.intent \in Intents /\ <<r.intent, q>> \in ActivePairs(rows)
  BY <1>4 DEF ActivePairs, DependencyRows
<1>7. \A d \in met \ {producer} : \E j \in met : <<d, j>> \in ActivePairs(rows)
  BY <1>2 DEF Neighbours, Hop, ActivePairs
<1>8. r.intent # producer
  <2> SUFFICES ASSUME r.intent = producer PROVE FALSE
    OBVIOUS
  <2>1. \A d \in met : \E j \in met : <<d, j>> \in ActivePairs(rows)
    BY <1>3, <1>5, <1>6, <1>7
  <2> QED
    BY <1>2, <2>1 DEF Acyclic
<1>9. CASE states[r.intent] \in Trusting
  <2>1. Hop(rows, producer, keys, r.intent, q)
    BY <1>3, <1>4, <1>5 DEF Hop
  <2>2. r.intent \in met
    BY <1>2, <1>3, <1>5, <1>6, <1>9, <2>1 DEF Neighbours
  <2> QED
    BY <1>1, <1>3, <1>6, <1>8, <1>9, <2>2 DEF Trusting, Live
<1>10. CASE states[r.intent] \notin Trusting
  BY <1>1, <1>3, <1>6, <1>10
<1> QED
  BY <1>9, <1>10

(* Nobody is left trusting an intent that this step made stale. *)
StalePropagated ==
    \A q \in Intents : st[q] \in Trusting /\ st'[q] = "STALE" =>
       \A r \in dependency' : r.on = q /\ r.status = "active" => st'[r.intent] \notin Trusting

(* A step that makes no trusted intent stale leaves nobody behind. *)
LEMMA NothingStaled ==
    ASSUME \A q \in Intents : st[q] \in Trusting => st'[q] # "STALE"
    PROVE  StalePropagated
BY DEF StalePropagated

(* An arbitration of a content makes a trusted intent stale only by the    *)
(* invalidation that ends an amendment.                                    *)
LEMMA ArbitrationPropagates ==
    ASSUME TypeOK, NEW i \in Intents, NEW p \in ContentType, NEW d \in Nat,
           \/ AdmitAt(i, p, d)
           \/ Swept[i] \in Live \cup {"STALE", "BLOCKED"} /\ AmendAt(i, p, d)
           \/ Swept[i] \in Live /\ PromoteAt(i, p, d)
           \/ Swept[i] = "STALE" /\ p.base # pl[i].base /\ RefreshAt(i, p, d)
    PROVE  StalePropagated
<1> DEFINE others  == ActiveIntents(d) \ {i}
           changed == ChangedKeys(pl[i], p)
           states  == [Swept EXCEPT ![i] = AmendedState(i)]
           rows    == ReplacedEdges(i, p, others)
<1>1. \A q \in Intents : st[q] \in Trusting => Swept[q] # "STALE"
  BY SweptFacts DEF Trusting, Live
<1>2. CASE st' = Swept
  BY <1>1, <1>2, NothingStaled
<1>3. ASSUME NEW s, s # "STALE", st' = [Swept EXCEPT ![i] = s] PROVE StalePropagated
  BY <1>1, <1>3, SweptFacts, NothingStaled
<1>4. CASE AmendAt(i, p, d) /\ Allowed(i, p, others, KnownIntents \cup {i})
  <2>1. \/ Invalidate(states, rows, i, changed) \/ st' = states
    BY <1>4 DEF AmendAt
  <2>2. \A q \in Intents : st[q] \in Trusting => states[q] # "STALE"
    BY <1>1, SweptFacts DEF AmendedState
  <2>3. rows \in SUBSET DependencyRows /\ Acyclic(ActivePairs(rows))
    BY <1>4, ReplacedEdgesType, ReplacedPairs, AcyclicSubset DEF Allowed, ActiveIntents
  <2> HIDE DEF states, rows, changed
  <2>4. CASE Invalidate(states, rows, i, changed)
    BY <2>2, <2>3, <2>4, InvalidateClosed DEF StalePropagated
  <2>5. CASE st' = states
    BY <2>2, <2>5, NothingStaled
  <2> QED
    BY <2>1, <2>4, <2>5
<1>5. AdmitAt(i, p, d) => st' = Swept \/ \E s \in {"ADMITTED", "BLOCKED"} : st' = [Swept EXCEPT ![i] = s]
  BY DEF AdmitAt, SweepOnly
<1>6. AmendAt(i, p, d) /\ ~Allowed(i, p, others, KnownIntents \cup {i}) => st' = Swept
  BY DEF AmendAt, SweepOnly
<1>7. PromoteAt(i, p, d) => st' = Swept
  BY DEF PromoteAt, SweepOnly
<1>8. RefreshAt(i, p, d) => st' = Swept \/ st' = [Swept EXCEPT ![i] = "ADMITTED"]
  BY DEF RefreshAt, SweepOnly
<1> QED
  BY <1>2, <1>3, <1>4, <1>5, <1>6, <1>7, <1>8

(* Staleness reaches every transitive dependent, for every number of       *)
(* intents, every dependency graph that admissions, amendments, promotions *)
(* and refreshes can build, and whichever keys changed.                    *)
THEOREM StalenessReachesAll == Spec => StalenessPropagates
<1> DEFINE Propagated == (\A i \in Intents : ~PauseRuntime(i)) => StalePropagated
<1>1. TypeOK /\ PremisesAcyclic /\ [Next]_vars => [Propagated]_vars
  <2> SUFFICES ASSUME TypeOK, PremisesAcyclic, [Next]_vars,
                      \A i \in Intents : ~PauseRuntime(i)
               PROVE  StalePropagated
    OBVIOUS
  <2>1. CASE UNCHANGED vars
    BY <2>1, NothingStaled DEF vars, Trusting, Live
  <2>2. CASE Tick
    BY <2>2, NothingStaled DEF Tick, Trusting, Live
  <2>3. CASE ExpireStale
    BY <2>3, SweptFacts, NothingStaled DEF ExpireStale, SweepOnly, Trusting, Live
  <2>4. ASSUME NEW i \in Intents, IntentStep(i) PROVE StalePropagated
    <3>0. 0..TxnTicks \subseteq Nat
      BY RegistryAssumption
    <3>1. CASE InvalidateDependents(i, ContractKeys(pl[i]))
      <4>1. Invalidate(st, dependency, i, ContractKeys(pl[i]))
        BY <3>1 DEF InvalidateDependents
      <4>2. dependency \in SUBSET DependencyRows /\ Acyclic(ActivePairs(dependency))
        BY DEF TypeOK, PremisesAcyclic
      <4>3. \A q \in Intents : st[q] \in Trusting => st[q] # "STALE"
        BY DEF Trusting, Live
      <4> QED
        BY <4>1, <4>2, <4>3, InvalidateClosed DEF StalePropagated
    <3>2. CASE ResumeRefreshed(i)
      BY <3>2, NothingStaled DEF ResumeRefreshed, Trusting, Live, TypeOK
    <3>3. CASE ActivateIntent(i) \/ CompleteIntent(i) \/ ReleaseIntent(i)
      BY <3>3, NothingStaled
         DEF ActivateIntent, CompleteIntent, ReleaseIntent, SetState, Trusting, Live, TypeOK
    <3>4. CASE HeartbeatIntent(i)
      BY <3>4, NothingStaled DEF HeartbeatIntent, Trusting, Live
    <3> QED
      BY <2>4, <3>0, <3>1, <3>2, <3>3, <3>4, IntentStepCases, ArbitrationPropagates
  <2> QED
    BY <2>1, <2>2, <2>3, <2>4 DEF Next
<1>2. Spec => [][Propagated]_vars
  BY <1>1, TypeCorrect, PremisesStayAcyclic, PTL DEF Spec
<1> QED
  BY <1>2 DEF StalenessPropagates, StalePropagated
-----------------------------------------------------------------------------
(* What arbitration compares.  A step is quiet and keeps the edges of      *)
(* every live intent, or it lets one content in against all intents whose  *)
(* lease runs beyond its second clock read and records its edges.          *)

Others(i, d) == ActiveIntents(d) \ {i}

(* The edges of the intents that stay live are there after the step. *)
EdgesKept(rows) == \A r \in rows : r \in dependency' \/ st'[r.intent] \notin Live

(* The content p of i is in force against every intent that was seen.      *)
LetIn(i, p, d) ==
    /\ \A q \in Others(i, d) : ~Blocked(p, pl[q])
    /\ pl' = [pl EXCEPT ![i] = p]
    /\ st[i] \in Live => cv'[i] # cv[i]
    /\ \A j \in Intents \ {i} :
         /\ st'[j] \in Live => Swept[j] \in Live
         /\ cv'[j] = cv[j]
         /\ lease[j] <= d => lease'[j] = 0
    /\ EdgesKept(ReplacedEdges(i, p, Others(i, d)))

(* An amendment leaves no live dependent on a key it changes. *)
AmendedTo(i, p, d) ==
    /\ p.amendment
    /\ \A j \in Intents \ {i}, r \in ReplacedEdges(i, p, Others(i, d)) :
         /\ r.intent = j /\ r.on = i /\ r.status = "active"
         /\ r.key \in ChangedKeys(pl[i], p)
         => st'[j] \notin Live

(* The states an invalidation leaves alone, and the edges it keeps. *)
LEMMA InvalidateKeeps ==
    ASSUME NEW states, NEW rows \in SUBSET DependencyRows, NEW producer \in Intents, NEW keys,
           Invalidate(states, rows, producer, keys)
    PROVE  /\ EdgesKept(rows)
           /\ \A r \in rows : /\ r.on = producer /\ r.intent # producer
                              /\ r.status = "active" /\ r.key \in keys
                              => st'[r.intent] \notin Live
<1> DEFINE met == Within(states, rows, producer, keys)[Cardinality(Intents)]
           staled == Staled(states, rows, producer, keys)
<1>1. PICK c \in Causes(states, rows, producer, keys) :
          /\ st' = [i \in Intents |-> IF i \in staled THEN "STALE" ELSE states[i]]
          /\ dependency' = { IF s.intent \in staled /\ s.on = c[s.intent]
                             THEN [s EXCEPT !.status = "stale"] ELSE s : s \in rows }
  BY DEF Invalidate
<1>2. /\ producer \in met
      /\ Neighbours(states, rows, producer, keys, met) \subseteq met
  BY WalkClosed
<1>3. staled = { d \in Intents : d # producer /\ states[d] \in Trusting /\ d \in met }
  BY DEF Staled
<1> HIDE DEF met, staled
<1>4. \A j \in staled : st'[j] \notin Live
  BY <1>1, <1>3 DEF Live
<1>5. EdgesKept(rows)
  BY <1>1, <1>4 DEF EdgesKept
<1>6. ASSUME NEW r \in rows, r.on = producer, r.intent # producer,
             r.status = "active", r.key \in keys
      PROVE  st'[r.intent] \notin Live
  <2>1. r.intent \in Intents
    BY DEF DependencyRows
  <2>2. Hop(rows, producer, keys, r.intent, producer)
    BY <1>6 DEF Hop
  <2>3. CASE states[r.intent] \in Trusting
    BY <1>2, <1>3, <1>4, <1>6, <2>1, <2>2, <2>3 DEF Neighbours
  <2>4. CASE states[r.intent] \notin Trusting
    BY <1>1, <1>3, <2>1, <2>4 DEF Trusting
  <2> QED
    BY <2>3, <2>4
<1> QED
  BY <1>5, <1>6

(* The four arbitrations. *)
LEMMA ArbitrationLetsIn ==
    ASSUME TypeOK, NEW i \in Intents, NEW p \in ContentType, NEW d \in 0..TxnTicks,
           \/ AdmitAt(i, p, d)
           \/ AmendAt(i, p, d) /\ p.amendment
           \/ PromoteAt(i, p, d) /\ PromotionOf(i, p)
           \/ Swept[i] = "STALE" /\ RefreshAt(i, p, d)
    PROVE  \/ Quiet /\ EdgesKept(dependency)
           \/ LetIn(i, p, d) /\ (st[i] \in Live => AmendedTo(i, p, d) \/ PromotionOf(i, p))
<1> DEFINE others == ActiveIntents(d) \ {i}
           rows   == ReplacedEdges(i, p, others)
<1>0. rows \in SUBSET DependencyRows /\ others = Others(i, d)
  BY ReplacedEdgesType DEF ActiveIntents, Others
<1>1. ASSUME SweepOnly(d) PROVE Quiet /\ EdgesKept(dependency)
  BY <1>1, SweepQuiet DEF SweepOnly, EdgesKept
<1>2. ASSUME NEW known, Allowed(i, p, others, known) PROVE \A q \in others : ~Blocked(p, pl[q])
  BY <1>2 DEF Allowed
<1>3. ASSUME lease' = Renewed(i, d), NEW j \in Intents \ {i}, lease[j] <= d
      PROVE  lease'[j] = 0
  <2>1. lease'[j] = Elapsed(d)[j]
    BY <1>3 DEF Renewed, Elapsed
  <2> QED
    BY <1>3, <2>1 DEF Elapsed, TypeOK
<1>a. ASSUME Install(i, p, d)
      PROVE  /\ pl' = [pl EXCEPT ![i] = p]
             /\ cv'[i] # cv[i]
             /\ lease' = Renewed(i, d)
             /\ \A j \in Intents \ {i} : cv'[j] = cv[j] /\ (lease[j] <= d => lease'[j] = 0)
  <2>1. cv' = [cv EXCEPT ![i] = cv[i] + 1] /\ cv[i] \in Nat
    BY <1>a DEF Install, TypeOK
  <2> QED
    BY <1>a, <1>3, <2>1 DEF Install, TypeOK
<1>b. ASSUME NEW known, Allowed(i, p, others, known), dependency' = rows, Install(i, p, d),
             NEW s, st' = [Swept EXCEPT ![i] = s] \/ st' = Swept
      PROVE  LetIn(i, p, d)
  <2>1. \A j \in Intents \ {i} : st'[j] \in Live => Swept[j] \in Live
    BY <1>b, SweptFacts
  <2>2. EdgesKept(rows)
    BY <1>b DEF EdgesKept
  <2> QED
    BY <1>0, <1>2, <1>a, <1>b, <2>1, <2>2 DEF LetIn
<1>4. CASE AdmitAt(i, p, d)
  <2>1. CASE Swept[i] \in Reevaluated /\ Allowed(i, p, others, KnownIntents)
    <3>1. /\ st' = [Swept EXCEPT ![i] = "ADMITTED"]
          /\ pl' = [pl EXCEPT ![i] = p]
          /\ lease' = Renewed(i, d)
          /\ \E v : cv' = [cv EXCEPT ![i] = v]
          /\ dependency' = rows
      BY <1>4, <2>1 DEF AdmitAt
    <3>2. st[i] \notin Live
      BY <2>1, SweptFacts DEF Reevaluated, Live, Absent
    <3>3. \A j \in Intents \ {i} : cv'[j] = cv[j] /\ (st'[j] \in Live => Swept[j] \in Live)
      BY <3>1, SweptFacts DEF TypeOK
    <3>4. EdgesKept(rows)
      BY <3>1 DEF EdgesKept
    <3> QED
      BY <1>0, <1>2, <1>3, <2>1, <3>1, <3>2, <3>3, <3>4 DEF LetIn
  <2>2. CASE Swept[i] \in Reevaluated /\ ~Allowed(i, p, others, KnownIntents)
    <3>1. /\ st' = [Swept EXCEPT ![i] = "BLOCKED"]
          /\ pl' = [pl EXCEPT ![i] = p]
          /\ \E v : cv' = [cv EXCEPT ![i] = v]
          /\ dependency' = dependency
      BY <1>4, <2>2 DEF AdmitAt
    <3>2. ASSUME NEW j \in Intents, st'[j] \in Live
          PROVE  st[j] \in Live /\ pl'[j] = pl[j] /\ cv'[j] = cv[j]
      <4>1. j # i
        BY <3>1, <3>2, SweptFacts DEF Live
      <4> QED
        BY <3>1, <3>2, <4>1, SweptFacts DEF TypeOK
    <3> QED
      BY <3>1, <3>2 DEF Quiet, EdgesKept
  <2>3. CASE Swept[i] \notin Reevaluated
    BY <1>1, <1>4, <2>3 DEF AdmitAt
  <2> QED
    BY <2>1, <2>2, <2>3
<1>5. CASE AmendAt(i, p, d) /\ p.amendment
  <2> DEFINE states  == [Swept EXCEPT ![i] = AmendedState(i)]
             changed == ChangedKeys(pl[i], p)
  <2>1. CASE Allowed(i, p, others, KnownIntents \cup {i})
    <3>1. /\ Install(i, p, d)
          /\ \/ Invalidate(states, rows, i, changed)
             \/ changed = {} /\ st' = states /\ dependency' = rows
      BY <1>5, <2>1 DEF AmendAt
    <3>2. \A j \in Intents \ {i} : states[j] = Swept[j]
      BY SweptFacts
    <3>3. /\ pl' = [pl EXCEPT ![i] = p]
          /\ cv'[i] # cv[i]
          /\ \A j \in Intents \ {i} : cv'[j] = cv[j] /\ (lease[j] <= d => lease'[j] = 0)
      BY <1>a, <3>1
    <3> HIDE DEF states, rows, changed
    <3>4. /\ \A j \in Intents \ {i} : st'[j] \in Live => Swept[j] \in Live
          /\ EdgesKept(rows)
          /\ \A r \in rows : /\ r.on = i /\ r.intent # i
                             /\ r.status = "active" /\ r.key \in changed
                             => st'[r.intent] \notin Live
      <4>1. CASE Invalidate(states, rows, i, changed)
        <5>1. \A j \in Intents \ {i} : st'[j] \in Live => Swept[j] \in Live
          BY <1>0, <3>2, <4>1, InvalidateEffect DEF Live
        <5>2. EdgesKept(rows)
          BY <1>0, <4>1, InvalidateKeeps
        <5>3. \A r \in rows : /\ r.on = i /\ r.intent # i
                              /\ r.status = "active" /\ r.key \in changed
                              => st'[r.intent] \notin Live
          BY <1>0, <4>1, InvalidateKeeps
        <5> QED
          BY <5>1, <5>2, <5>3
      <4>2. CASE changed = {} /\ st' = states /\ dependency' = rows
        BY <3>2, <4>2 DEF EdgesKept
      <4> QED
        BY <3>1, <4>1, <4>2
    <3>5. LetIn(i, p, d)
      BY <1>0, <1>2, <2>1, <3>3, <3>4 DEF LetIn, rows
    <3>6. AmendedTo(i, p, d)
      BY <1>0, <1>5, <3>4 DEF AmendedTo, rows, changed
    <3> QED
      BY <3>5, <3>6
  <2>2. CASE ~Allowed(i, p, others, KnownIntents \cup {i})
    BY <1>1, <1>5, <2>2 DEF AmendAt
  <2> QED
    BY <2>1, <2>2
<1>6. CASE PromoteAt(i, p, d) /\ PromotionOf(i, p)
  <2>1. CASE Allowed(i, p, others, KnownIntents \cup {i})
    <3>1. Install(i, p, d) /\ st' = Swept /\ dependency' = rows
      BY <1>6, <2>1 DEF PromoteAt
    <3> QED
      BY <1>6, <1>b, <2>1, <3>1
  <2>2. CASE ~Allowed(i, p, others, KnownIntents \cup {i})
    BY <1>1, <1>6, <2>2 DEF PromoteAt
  <2> QED
    BY <2>1, <2>2
<1>7. CASE Swept[i] = "STALE" /\ RefreshAt(i, p, d)
  <2>1. CASE ProducersSettled(i) /\ Allowed(i, p, others, KnownIntents \cup {i})
    <3>1. /\ Install(i, p, d) /\ st' = [Swept EXCEPT ![i] = "ADMITTED"]
          /\ dependency' = rows
      BY <1>7, <2>1 DEF RefreshAt
    <3>2. st[i] \notin Live
      BY <1>7, SweptFacts DEF Live
    <3> QED
      BY <1>b, <2>1, <3>1, <3>2
  <2>2. CASE ~(ProducersSettled(i) /\ Allowed(i, p, others, KnownIntents \cup {i}))
    BY <1>1, <1>7, <2>2 DEF RefreshAt
  <2> QED
    BY <2>1, <2>2
<1> QED
  BY <1>4, <1>5, <1>6, <1>7

(* Every step. *)
LEMMA StepLetsIn ==
    ASSUME TypeOK, [Next]_vars
    PROVE  \/ Quiet /\ EdgesKept(dependency)
           \/ \E i \in Intents, p \in ContentType, d \in 0..TxnTicks :
                LetIn(i, p, d) /\ (st[i] \in Live => AmendedTo(i, p, d) \/ PromotionOf(i, p))
<1>1. CASE UNCHANGED vars
  BY <1>1 DEF Quiet, EdgesKept, vars
<1>2. CASE Tick
  BY <1>2 DEF Quiet, EdgesKept, Tick
<1>3. CASE ExpireStale
  BY <1>3, SweepQuiet DEF ExpireStale, SweepOnly, EdgesKept
<1>4. ASSUME NEW i \in Intents, IntentStep(i)
      PROVE  \/ Quiet /\ EdgesKept(dependency)
             \/ \E p \in ContentType, d \in 0..TxnTicks :
                  LetIn(i, p, d) /\ (st[i] \in Live => AmendedTo(i, p, d) \/ PromotionOf(i, p))
  <2>1. CASE PauseRuntime(i)
    BY <2>1 DEF PauseRuntime, Quiet, EdgesKept, Live, TypeOK
  <2>2. CASE InvalidateDependents(i, ContractKeys(pl[i]))
    <3>1. dependency \in SUBSET DependencyRows /\ Invalidate(st, dependency, i, ContractKeys(pl[i]))
      BY <2>2 DEF InvalidateDependents, TypeOK
    <3>2. Quiet
      BY <2>2, <3>1, InvalidateEffect DEF InvalidateDependents, Quiet, Live
    <3>3. EdgesKept(dependency)
      BY <3>1, InvalidateKeeps
    <3> QED
      BY <3>2, <3>3
  <2>3. CASE ResumeRefreshed(i)
    BY <2>3 DEF ResumeRefreshed, Quiet, EdgesKept, Live, TypeOK
  <2>4. CASE ActivateIntent(i) \/ CompleteIntent(i) \/ ReleaseIntent(i)
    BY <2>4 DEF ActivateIntent, CompleteIntent, ReleaseIntent, SetState, Quiet, EdgesKept, Live, TypeOK
  <2>5. CASE HeartbeatIntent(i)
    BY <2>5 DEF HeartbeatIntent, Quiet, EdgesKept
  <2>6. ASSUME NEW p \in ContentType, NEW d \in 0..TxnTicks,
               \/ AdmitAt(i, p, d)
               \/ AmendAt(i, p, d) /\ p.amendment
               \/ PromoteAt(i, p, d) /\ PromotionOf(i, p)
               \/ Swept[i] = "STALE" /\ RefreshAt(i, p, d)
        PROVE  \/ Quiet /\ EdgesKept(dependency)
               \/ LetIn(i, p, d) /\ (st[i] \in Live => AmendedTo(i, p, d) \/ PromotionOf(i, p))
    BY <2>6, ArbitrationLetsIn
  <2> QED
    BY <1>4, <2>1, <2>2, <2>3, <2>4, <2>5, <2>6, IntentStepCases
<1> QED
  BY <1>1, <1>2, <1>3, <1>4 DEF Next

-----------------------------------------------------------------------------
(* The history variable, and the separation of writers.                    *)

(* HistSpec adds nothing to the steps of the registry. *)
LEMMA HistoryStepOf ==
    ASSUME [HistNext]_histVars
    PROVE  [Next]_vars /\ Overlook
<1>1. CASE HistNext
  BY <1>1 DEF HistNext
<1>2. CASE UNCHANGED histVars
  <2>1. UNCHANGED <<vars, st, cv, lease, overlooked>>
    BY <1>2 DEF histVars, vars
  <2>2. LetThrough = {}
    BY <2>1 DEF LetThrough
  <2>3. EndedInside = {}
    BY <2>2 DEF EndedInside
  <2> QED
    BY <2>1, <2>2, <2>3 DEF Overlook
<1> QED
  BY <1>1, <1>2

(* The history variable restricts nothing the registry may do. *)
LEMMA HistoryRefines == HistSpec => Spec
<1>1. [HistNext]_histVars => [Next]_vars
  BY HistoryStepOf
<1>2. HistInit => Init
  BY DEF HistInit
<1> QED
  BY <1>1, <1>2, PTL DEF HistSpec, Spec

(* Nothing of the history is forgotten by a quiet step. *)
LEMMA QuietRemembers ==
    ASSUME Quiet, Overlook, NEW j \in Intents, j \notin overlooked'
    PROVE  j \notin overlooked
<1>1. LetThrough = {}
  BY DEF LetThrough, Quiet
<1> QED
  BY <1>1 DEF Overlook

(* Nor is an intent forgotten by a step that lets in another one. *)
LEMMA OthersRemembered ==
    ASSUME TypeOK, NEW i \in Intents, NEW p, NEW d \in 0..TxnTicks, LetIn(i, p, d), Overlook,
           NEW j \in Intents \ {i}, j \notin overlooked'
    PROVE  j \notin overlooked
<1>1. j \notin LetThrough
  BY SweptFacts DEF LetThrough, LetIn
<1> QED
  BY <1>1 DEF Overlook

(* An intent that stays live beside the one let in, and that the history   *)
(* does not name, has been compared.                                       *)
LEMMA AllLiveSeen ==
    ASSUME TypeOK, NEW i \in Intents, NEW p, NEW d \in 0..TxnTicks, LetIn(i, p, d), Overlook,
           st'[i] \in Live, NEW j \in Intents \ {i}, st'[j] \in Live, j \notin overlooked'
    PROVE  j \in Others(i, d) /\ st[j] \in Live
<1>1. Swept[j] \in Live /\ st[j] \in Live /\ lease[j] > 0 /\ cv'[j] = cv[j]
  BY SweptFacts DEF LetIn
<1>2. i \in LetThrough /\ j \notin LetThrough
  BY <1>1 DEF LetThrough, LetIn
<1>3. j \notin EndedInside
  BY DEF Overlook
<1>4. lease'[j] # 0
  BY <1>1, <1>2, <1>3 DEF EndedInside
<1>5. lease[j] > d
  BY <1>4 DEF LetIn, TypeOK
<1> QED
  BY <1>1, <1>5 DEF Others, ActiveIntents

(* No two live intents may write one line of one file, for every number of *)
(* intents, every content and every interleaving of the registry's         *)
(* transactions, unless a lease ended between the two clock reads of a     *)
(* transaction that let another intent in.                                 *)
THEOREM WritersStaySeparated == HistSpec => []LiveWritersSeparated
<1>1. HistInit => LiveWritersSeparated
  BY DEF HistInit, Init, LiveWritersSeparated, Live, Absent
<1>2. TypeOK /\ LiveWritersSeparated /\ [HistNext]_histVars => LiveWritersSeparated'
  <2> SUFFICES ASSUME TypeOK, LiveWritersSeparated, [HistNext]_histVars,
                      NEW j \in Intents, NEW k \in Intents, j # k,
                      st'[j] \in Live, st'[k] \in Live, {j, k} \cap overlooked' = {},
                      WriteClash(pl'[j], pl'[k], Paths, Lines)
               PROVE  FALSE
    BY DEF LiveWritersSeparated
  <2>0. [Next]_vars /\ Overlook
    BY HistoryStepOf
  <2>1. CASE Quiet
    BY <2>0, <2>1, QuietRemembers DEF Quiet, LiveWritersSeparated
  <2>2. ASSUME NEW i \in Intents, NEW p \in ContentType, NEW d \in 0..TxnTicks, LetIn(i, p, d)
        PROVE  FALSE
    <3>1. pl'[i] = p /\ \A q \in Intents \ {i} : pl'[q] = pl[q]
      BY <2>2 DEF LetIn, TypeOK
    <3>2. ASSUME NEW q \in Intents \ {i}, st'[i] \in Live, st'[q] \in Live, q \notin overlooked'
          PROVE  ~WriteClash(p, pl[q], Paths, Lines)
      <4>1. ~Blocked(p, pl[q])
        BY <2>0, <2>2, <3>2, AllLiveSeen DEF LetIn
      <4>2. p.ops \subseteq Operations /\ pl[q].ops \subseteq Operations
        BY ContentFacts, PayloadFacts
      <4> QED
        BY <4>1, <4>2, ClashBlocks, LinesAssumption
    <3>3. CASE i = j
      BY <3>1, <3>2, <3>3
    <3>4. CASE i = k
      BY <3>1, <3>2, <3>4, ClashSymmetric
    <3>5. CASE i # j /\ i # k
      <4>1. st[j] \in Live /\ st[k] \in Live
        BY <2>2, <3>5, SweptFacts DEF LetIn
      <4>2. {j, k} \cap overlooked = {}
        BY <2>0, <2>2, <3>5, OthersRemembered
      <4> QED
        BY <3>1, <3>5, <4>1, <4>2 DEF LiveWritersSeparated
    <3> QED
      BY <3>3, <3>4, <3>5
  <2> QED
    BY <2>0, <2>1, <2>2, StepLetsIn
<1> QED
  BY <1>1, <1>2, HistoryRefines, TypeCorrect, PTL DEF HistSpec

-----------------------------------------------------------------------------
(* Premises.                                                               *)

(* An edge that _dependency_candidates proposes under a key is written     *)
(* active.                                                                 *)
LEMMA CandidateRecorded ==
    ASSUME NEW i, NEW p, NEW others, NEW j, NEW q, NEW k \in Identifiers,
           <<j, q, k>> \in CandidateEdges(i, p, others)
    PROVE  [intent |-> j, on |-> q, key |-> k, status |-> "active"] \in ReplacedEdges(i, p, others)
<1> DEFINE e == <<j, q, k>>
<1>1. e[1] = j /\ e[2] = q /\ e[3] = k
  OBVIOUS
<1>2. k # Explicit
  BY DEF Identifiers, Explicit
<1>3. EdgeStatus(e) = "active"
  BY <1>1, <1>2 DEF EdgeStatus
<1>4. [intent |-> e[1], on |-> e[2], key |-> e[3], status |-> EdgeStatus(e)]
        \in ReplacedEdges(i, p, others)
  BY DEF ReplacedEdges
<1> QED
  BY <1>1, <1>3, <1>4

(* An active edge of another intent is still there. *)
LEMMA OtherEdgeKept ==
    ASSUME NEW i, NEW p, NEW others, NEW j, j # i, NEW q, NEW k \in Identifiers,
           [intent |-> j, on |-> q, key |-> k, status |-> "active"] \in dependency
    PROVE  [intent |-> j, on |-> q, key |-> k, status |-> "active"] \in ReplacedEdges(i, p, others)
<1>1. CASE <<j, q, k>> \in CandidateEdges(i, p, others)
  BY <1>1, CandidateRecorded
<1>2. CASE <<j, q, k>> \notin CandidateEdges(i, p, others)
  BY <1>2 DEF ReplacedEdges
<1> QED
  BY <1>1, <1>2

Reads(o, e) == ~Mutating(o) /\ Mutating(e) /\ ResourceOverlap(o, e) # "none"

(* Letting a content in records its premises in both directions. *)
LEMMA LetInRecords ==
    ASSUME TypeOK, NEW i \in Intents, NEW p \in ContentType, NEW d, NEW q \in Others(i, d), LetIn(i, p, d),
           NEW a \in AdmissionOps(p), NEW b \in AdmissionOps(pl[q])
    PROVE  /\ Reads(a, b) => [intent |-> i, on |-> q, key |-> PremiseKey(a), status |-> "active"]
                                 \in ReplacedEdges(i, p, Others(i, d))
           /\ Reads(b, a) => [intent |-> q, on |-> i, key |-> PremiseKey(b), status |-> "active"]
                                 \in ReplacedEdges(i, p, Others(i, d))
<1>1. q \in Intents
  BY DEF Others, ActiveIntents
<1>2. p.ops \subseteq Operations /\ pl[q].ops \subseteq Operations
  BY <1>1, ContentFacts, PayloadFacts
<1>3. ~Blocked(p, pl[q])
  BY DEF LetIn
<1>4. PremiseKey(a) \in Identifiers /\ PremiseKey(b) \in Identifiers
  BY <1>2, AdmissionOpsType, PremiseKeyType
<1>5. ASSUME Reads(a, b)
      PROVE  [intent |-> i, on |-> q, key |-> PremiseKey(a), status |-> "active"]
                 \in ReplacedEdges(i, p, Others(i, d))
  <2>1. PremiseKey(a) \in IncomingPremises(p, pl[q])
    BY <1>2, <1>3, <1>5, UnblockedPremises DEF Reads
  <2>2. <<i, q, PremiseKey(a)>> \in CandidateEdges(i, p, Others(i, d))
    BY <2>1 DEF CandidateEdges
  <2> QED
    BY <1>4, <2>2, CandidateRecorded
<1>6. ASSUME Reads(b, a)
      PROVE  [intent |-> q, on |-> i, key |-> PremiseKey(b), status |-> "active"]
                 \in ReplacedEdges(i, p, Others(i, d))
  <2>1. PremiseKey(b) \in ExistingPremises(p, pl[q])
    BY <1>2, <1>3, <1>6, UnblockedPremises DEF Reads
  <2>2. <<q, i, PremiseKey(b)>> \in CandidateEdges(i, p, Others(i, d))
    BY <2>1 DEF CandidateEdges
  <2> QED
    BY <1>4, <2>2, CandidateRecorded
<1> QED
  BY <1>5, <1>6

(* What a live intent reads of another live one's writes has an active     *)
(* edge, for every number of intents, all contents and every order of      *)
(* admissions, amendments, promotions, refreshes and invalidations, unless *)
(* a lease ended between the clock reads of a transaction that let another *)
(* intent in.                                                              *)
THEOREM LivePremisesRecorded == HistSpec => []PremisesRecorded
<1>1. HistInit => PremisesRecorded
  BY DEF HistInit, Init, PremisesRecorded, Live, Absent
<1>2. TypeOK /\ PremisesRecorded /\ [HistNext]_histVars => PremisesRecorded'
  <2> SUFFICES ASSUME TypeOK, PremisesRecorded, [HistNext]_histVars,
                      NEW k \in Intents, NEW j \in Intents, k # j,
                      st'[k] \in Live, st'[j] \in Live, {k, j} \cap overlooked' = {},
                      NEW o \in AdmissionOps(pl'[j]), NEW e \in AdmissionOps(pl'[k]),
                      Reads(o, e)
               PROVE  [intent |-> j, on |-> k, key |-> PremiseKey(o), status |-> "active"]
                          \in dependency'
    BY DEF PremisesRecorded, Reads
  <2>0. [Next]_vars /\ Overlook
    BY HistoryStepOf
  <2> DEFINE row == [intent |-> j, on |-> k, key |-> PremiseKey(o), status |-> "active"]
  <2>1. row.intent = j
    OBVIOUS
  <2>2. ASSUME st[k] \in Live, st[j] \in Live, pl'[k] = pl[k], pl'[j] = pl[j],
               {k, j} \cap overlooked = {}
        PROVE  row \in dependency
    BY <2>2 DEF PremisesRecorded, Reads
  <2> HIDE DEF row
  <2>3. ASSUME Quiet, EdgesKept(dependency) PROVE row \in dependency'
    BY <2>0, <2>1, <2>2, <2>3, QuietRemembers DEF Quiet, EdgesKept
  <2>4. ASSUME NEW i \in Intents, NEW p \in ContentType, NEW d \in 0..TxnTicks, LetIn(i, p, d)
        PROVE  row \in dependency'
    <3>1. SUFFICES row \in ReplacedEdges(i, p, Others(i, d))
      BY <2>1, <2>4 DEF LetIn, EdgesKept
    <3>2. pl'[i] = p /\ \A q \in Intents \ {i} : pl'[q] = pl[q]
      BY <2>4 DEF LetIn, TypeOK
    <3>3. \A q \in Intents \ {i} :
            st'[i] \in Live /\ st'[q] \in Live /\ q \notin overlooked' => q \in Others(i, d)
      BY <2>0, <2>4, AllLiveSeen
    <3>4. CASE i = j
      BY <2>4, <3>2, <3>3, <3>4, LetInRecords DEF row
    <3>5. CASE i = k
      BY <2>4, <3>2, <3>3, <3>5, LetInRecords DEF row
    <3>6. CASE i # j /\ i # k
      <4>0. st[k] \in Live /\ st[j] \in Live /\ {k, j} \cap overlooked = {}
        BY <2>0, <2>4, <3>6, OthersRemembered, SweptFacts DEF LetIn
      <4>1. row \in dependency
        BY <2>2, <3>2, <3>6, <4>0
      <4>2. PremiseKey(o) \in Identifiers
        BY <3>2, <3>6, PayloadFacts, AdmissionOpsType, PremiseKeyType
      <4> QED
        BY <3>6, <4>1, <4>2, OtherEdgeKept DEF row
    <3> QED
      BY <3>4, <3>5, <3>6
  <2>5. row \in dependency'
    BY <2>0, <2>3, <2>4, StepLetsIn
  <2> QED
    BY <2>5 DEF row
<1> QED
  BY <1>1, <1>2, HistoryRefines, TypeCorrect, PTL DEF HistSpec

(* What _invalidate_dependents_locked does for an amendment: a reader under *)
(* a changed key with a recorded premise does not stay live.               *)
LEMMA ChangedReaderStale ==
    ASSUME TypeOK, NEW i \in Intents, NEW p \in ContentType, NEW d, LetIn(i, p, d), AmendedTo(i, p, d),
           NEW j \in Intents \ {i}, NEW k \in ChangedKeys(pl[i], p),
           [intent |-> j, on |-> i, key |-> k, status |-> "active"]
               \in ReplacedEdges(i, p, Others(i, d))
    PROVE  st'[j] \notin Live
BY DEF AmendedTo

(* A contract change is never lost on a live consumer, for every number of *)
(* intents and all contents, unless the lease of one of the two ended      *)
(* between the clock reads of a transaction that let another intent in.    *)
THEOREM ContractChangesReachConsumers == HistSpec => ContractChangeStales
<1> DEFINE Consistent ==
      \A i, j \in Intents :
         /\ i # j
         /\ st[i] \in Live /\ st'[i] \in Live
         /\ st[j] \in Live /\ st'[j] \in Live
         /\ {i, j} \cap overlooked' = {}
         /\ ReadsAgree(pl[j], pl[i])
         => ~StaleContractRead(pl'[j], pl'[i])
<1>1. TypeOK /\ [HistNext]_histVars => [Consistent]_histVars
  <2> SUFFICES ASSUME TypeOK, [HistNext]_histVars, NEW i \in Intents, NEW j \in Intents, i # j,
                      st[i] \in Live, st'[i] \in Live, st[j] \in Live, st'[j] \in Live,
                      {i, j} \cap overlooked' = {},
                      ReadsAgree(pl[j], pl[i]), StaleContractRead(pl'[j], pl'[i])
               PROVE  FALSE
    OBVIOUS
  <2>0. [Next]_vars /\ Overlook
    BY HistoryStepOf
  <2>1. ~StaleContractRead(pl[j], pl[i])
    BY DEF ReadsAgree, StaleContractRead
  <2>2. CASE Quiet
    BY <2>1, <2>2 DEF Quiet
  <2>3. ASSUME NEW k \in Intents, NEW p \in ContentType, NEW d \in 0..TxnTicks,
               LetIn(k, p, d), st[k] \in Live => AmendedTo(k, p, d) \/ PromotionOf(k, p)
        PROVE  FALSE
    <3>1. pl'[k] = p /\ \A q \in Intents \ {k} : pl'[q] = pl[q]
      BY <2>3 DEF LetIn, TypeOK
    <3>2. \A q \in Intents \ {k} :
            st'[k] \in Live /\ st'[q] \in Live /\ q \notin overlooked'
              => q \in Others(k, d) /\ ~Blocked(p, pl[q])
      BY <2>0, <2>3, AllLiveSeen DEF LetIn
    <3>3. CASE k # i /\ k # j
      BY <2>1, <3>1, <3>3
    <3>4. CASE k = j
      BY <3>1, <3>2, <3>4, StaleReaderBlocked
    <3>5. CASE k = i
      <4>0. j \in Others(i, d) /\ pl'[j] = pl[j] /\ pl'[i] = p
        BY <3>1, <3>2, <3>5
      <4>1. PICK o \in AdmissionOps(pl[j]), e \in AdmissionOps(p) :
               SameContract(o, e) /\ ~Mutating(o) /\ Mutating(e) /\ SignatureMismatch(o, e)
        BY <4>0 DEF StaleContractRead
      <4>2. /\ p.ops \subseteq Operations /\ pl[i].ops \subseteq Operations
            /\ pl[j].ops \subseteq Operations
        BY ContentFacts, PayloadFacts
      <4>3. PICK x \in p.ops : e = Projected(x)
        BY <4>1 DEF AdmissionOps
      <4>4. e = x /\ e \in Operations /\ e.kind = "contract" /\ o \in Operations
        BY <4>1, <4>2, <4>3, AdmissionOpsType DEF Projected, Mutating, SameContract, Operations
      <4>5. \A y \in pl[i].ops : ResourceMarker(y) # ResourceMarker(e)
        <5> SUFFICES ASSUME NEW y \in pl[i].ops, ResourceMarker(y) = ResourceMarker(e) PROVE FALSE
          OBVIOUS
        <5>1. y.kind = e.kind /\ y.ident = e.ident /\ y.subject = e.subject /\ y.signature = e.signature
          BY <4>4 DEF ResourceMarker, PathKinds
        <5>2. /\ Projected(y).kind = e.kind /\ Projected(y).ident = e.ident
              /\ Projected(y).subject = e.subject /\ Projected(y).signature = e.signature
          BY <4>2, <5>1, ProjectedKeeps
        <5>3. Projected(y) \in AdmissionOps(pl[i])
          BY DEF AdmissionOps
        <5>4. SameContract(o, Projected(y)) /\ SignatureMismatch(o, Projected(y))
          BY <4>1, <5>2 DEF SameContract, SignatureMismatch
        <5> QED
          BY <4>1, <5>3, <5>4 DEF ReadsAgree
      <4>6. CASE PromotionOf(i, p)
        <5>1. PICK m \in Requests : p.ops = PromotedOps(pl[i], m)
          BY <4>6 DEF PromotionOf
        <5>2. x \in pl[i].ops
          BY <4>2, <4>3, <4>4, <5>1, PromotionKeepsContracts, RequestAssumption DEF PathKinds
        <5> QED
          BY <4>4, <4>5, <5>2
      <4>7. CASE AmendedTo(i, p, d)
        <5>1. PremiseKey(o) = o.subject /\ PremiseKey(e) = o.subject
          BY <4>1 DEF PremiseKey, SameContract
        <5>2. PremiseKey(o) \in ChangedKeys(pl[i], p)
          BY <4>3, <4>4, <4>5, <5>1, ChangedKeyFound
        <5>3. Reads(o, e)
          BY <4>1 DEF Reads, ResourceOverlap, SameContract, PathKinds
        <5>4. [intent |-> j, on |-> i, key |-> PremiseKey(o), status |-> "active"]
                  \in ReplacedEdges(i, p, Others(i, d))
          BY <2>3, <3>5, <4>0, <4>1, <5>3, LetInRecords
        <5> QED
          BY <2>3, <3>5, <4>7, <5>2, <5>4, ChangedReaderStale
      <4> QED
        BY <2>3, <3>5, <4>6, <4>7
    <3> QED
      BY <3>3, <3>4, <3>5
  <2> QED
    BY <2>0, <2>2, <2>3, StepLetsIn
<1>2. HistSpec => [][Consistent]_histVars
  BY <1>1, HistoryRefines, TypeCorrect, PTL DEF HistSpec
<1> QED
  BY <1>2 DEF ContractChangeStales

(* A reader never stays live on a resource its producer took back, for     *)
(* every number of intents and all contents, unless the two were not       *)
(* compared because a lease ended between the clock reads of a transaction. *)
THEOREM DroppedPremisesReachReaders == HistSpec => ChangedPremiseStales
<1> DEFINE Consistent ==
      \A i, j \in Intents :
         /\ i # j
         /\ st[i] \in Live /\ st'[i] \in Live
         /\ st[j] \in Live /\ st'[j] \in Live
         /\ {i, j} \cap overlooked = {}
         /\ pl'[j] = pl[j]
         => \A o \in AdmissionOps(pl[j]), e \in CommittedWrites(pl[i]) :
              /\ ~Mutating(o)
              /\ ResourceOverlap(o, e) # "none"
              /\ PremiseKey(o) = PremiseKey(e)
              => \E x \in pl'[i].ops : ResourceMarker(x) = ResourceMarker(e)
<1>1. TypeOK /\ PremisesRecorded /\ [HistNext]_histVars => [Consistent]_histVars
  <2> SUFFICES ASSUME TypeOK, PremisesRecorded, [HistNext]_histVars,
                      NEW i \in Intents, NEW j \in Intents, i # j,
                      st[i] \in Live, st'[i] \in Live, st[j] \in Live, st'[j] \in Live,
                      {i, j} \cap overlooked = {}, pl'[j] = pl[j],
                      NEW o \in AdmissionOps(pl[j]), NEW e \in CommittedWrites(pl[i]),
                      ~Mutating(o), ResourceOverlap(o, e) # "none", PremiseKey(o) = PremiseKey(e),
                      \A x \in pl'[i].ops : ResourceMarker(x) # ResourceMarker(e)
               PROVE  FALSE
    OBVIOUS
  <2>1. e \in pl[i].ops /\ e.committed /\ Mutating(e)
    BY DEF CommittedWrites
  <2>2. pl'[i] # pl[i]
    BY <2>1
  <2>3. CASE Quiet
    BY <2>2, <2>3 DEF Quiet
  <2>4. ASSUME NEW k \in Intents, NEW p \in ContentType, NEW d \in 0..TxnTicks,
               LetIn(k, p, d), st[k] \in Live => AmendedTo(k, p, d) \/ PromotionOf(k, p)
        PROVE  FALSE
    <3>1. k = i /\ pl'[i] = p
      BY <2>2, <2>4 DEF LetIn, TypeOK
    <3>2. CASE PromotionOf(i, p)
      BY <2>1, <3>1, <3>2, PromotionKeepsCommitted DEF PromotionOf
    <3>3. CASE AmendedTo(i, p, d)
      <4>1. PremiseKey(o) \in ChangedKeys(pl[i], p)
        BY <2>1, <3>1, ChangedKeyFound
      <4>2. e \in AdmissionOps(pl[i])
        <5>1. Projected(e) = e
          BY <2>1 DEF Projected
        <5> QED
          BY <2>1, <5>1 DEF AdmissionOps
      <4>3. [intent |-> j, on |-> i, key |-> PremiseKey(o), status |-> "active"] \in dependency
        BY <2>1, <4>2 DEF PremisesRecorded
      <4>4. PremiseKey(o) \in Identifiers
        BY PayloadFacts, AdmissionOpsType, PremiseKeyType
      <4>5. [intent |-> j, on |-> i, key |-> PremiseKey(o), status |-> "active"]
                \in ReplacedEdges(i, p, Others(i, d))
        BY <4>3, <4>4, OtherEdgeKept
      <4> QED
        BY <2>4, <3>1, <3>3, <4>1, <4>5, ChangedReaderStale
    <3> QED
      BY <2>4, <3>1, <3>2, <3>3
  <2>5. [Next]_vars
    BY HistoryStepOf
  <2> QED
    BY <2>3, <2>4, <2>5, StepLetsIn
<1>2. HistSpec => [][Consistent]_histVars
  BY <1>1, HistoryRefines, TypeCorrect, LivePremisesRecorded, PTL DEF HistSpec
<1> QED
  BY <1>2 DEF ChangedPremiseStales
=============================================================================
