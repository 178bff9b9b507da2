----------------------------- MODULE BrokerProofs -----------------------------
(***************************************************************************)
(* Theorems about the broker processes and tables, for every number of     *)
(* intents, brokers and worktrees: the types, who may write a worktree,    *)
(* under what authority a mutation is committed, and what is left in the   *)
(* worktree.  They stand on the lemmas about the registry's transactions.  *)
(***************************************************************************)
EXTENDS RuntimeHistory, IntentRegistryProofs

(* A handler that carries a request was given one of the requests. *)
RequestsKnown == \A b \in Brokers : Phase(b) \in InFlight => handler[b].request \in Requests

RuntimeTypeInv == RuntimeTypeOK /\ RequestsKnown

-----------------------------------------------------------------------------
(* The registry's side of a broker's step.                                 *)

(* A step of a broker, its runtime or the registry is a step of the        *)
(* registry's own specification: brokers change intents only through it.   *)
LEMMA RegistryStepOf ==
    ASSUME RequestsKnown, [RuntimeNext]_allVars
    PROVE  [Next]_vars
<1>1. CASE UNCHANGED allVars
  BY <1>1 DEF allVars
<1>2. ASSUME NEW b \in Brokers, BrokerStep(b) PROVE [Next]_vars
  <2>0. Serves[b] \in Intents
    BY BrokerAssumption
  <2>1. CASE FinishStart(b)
    BY <2>1 DEF FinishStart, RegisterBroker, Next, ExpireStale
  <2>2. CASE \E m \in Requests : BeginRequest(b, m)
    BY <2>2 DEF BeginRequest, ValidateBroker, Next, ExpireStale
  <2>3. CASE PromoteScope(b)
    <3>1. handler[b].request \in Requests
      BY <2>3 DEF PromoteScope, RequestsKnown, Phase, InFlight
    <3>2. PromoteContingent(Serves[b], handler[b].request)
      BY <2>3 DEF PromoteScope, PromoteForBroker
    <3> QED
      BY <2>0, <3>1, <3>2 DEF Next, IntentStep
  <2>4. CASE Prepare(b) \/ Commit(b)
    BY <2>4 DEF Prepare, PrepareOperation, SweepAll, Commit, CommitOperation, Next, ExpireStale
  <2>5. CASE AcquireLock(b) \/ FailStart(b) \/ Close(b) \/ Crash(b) \/ ReadPromoted(b) \/ Refuse(b)
    BY <2>5 DEF AcquireLock, FailStart, Close, Crash, ReadPromoted, Refuse
  <2>6. CASE (\E c \in 0..MaxContents : Mutate(b, c)) \/ Rollback(b) \/ ReportRollback(b)
    BY <2>6 DEF Mutate, Rollback, ReportRollback
  <2> QED
    BY <1>2, <2>1, <2>2, <2>3, <2>4, <2>5, <2>6 DEF BrokerStep
<1>3. CASE \E w \in Roots, base \in Bases : ResetWorktree(w, base)
  BY <1>3 DEF ResetWorktree
<1>4. CASE RegistryStep
  <2>1. ASSUME NEW i \in Intents, GovernedStep(i) PROVE IntentStep(i)
    BY <2>1 DEF GovernedStep, IntentStep
  <2>2. ASSUME NEW i \in Intents, HeartbeatIntent(i) PROVE IntentStep(i)
    BY <2>2 DEF IntentStep
  <2> QED
    BY <1>4, <2>1, <2>2 DEF RegistryStep, BrokerTick, Next
<1> QED
  BY <1>1, <1>2, <1>3, <1>4 DEF RuntimeNext

(* The content of a known intent changes only with its version, and a known *)
(* intent stays known: a broker bound to a version is bound to a content.   *)
LEMMA VersionedContent ==
    ASSUME TypeOK, [Next]_vars, NEW j \in Intents, st[j] # Absent
    PROVE  /\ st'[j] # Absent
           /\ \/ pl'[j] = pl[j] /\ cv'[j] = cv[j]
              \/ cv'[j] > cv[j]
<1> DEFINE Goal == /\ st'[j] # Absent
                   /\ \/ pl'[j] = pl[j] /\ cv'[j] = cv[j]
                      \/ cv'[j] > cv[j]
<1>0. /\ st \in [Intents -> States \cup {Absent}] /\ cv[j] \in Nat
      /\ cv \in [Intents -> Nat] /\ pl \in [Intents -> ContentType \cup {NoPayload}]
  BY DEF TypeOK
<1>1. ASSUME NEW E \in SUBSET Lifecycle!Holders
      PROVE  /\ Lifecycle!After(E) \in [Intents -> States \cup {Absent}]
             /\ Lifecycle!After(E)[j] # Absent
  BY <1>0 DEF Lifecycle!After, States, Absent
<1>2. ASSUME NEW i \in Intents, Lifecycle!Replace(i, pl'[i])
      PROVE  \/ pl'[j] = pl[j] /\ cv'[j] = cv[j]
             \/ cv'[j] > cv[j]
  BY <1>0, <1>2 DEF Lifecycle!Replace
<1>3. ASSUME NEW E \in SUBSET Lifecycle!Holders, Lifecycle!Settle(E) PROVE Goal
  BY <1>1, <1>3 DEF Lifecycle!Settle
<1>4. ASSUME NEW E \in SUBSET Lifecycle!Holders, NEW i \in Intents,
             NEW verdict \in {"ADMITTED", "BLOCKED"}, Lifecycle!Admit(E, i, verdict, pl'[i])
      PROVE  Goal
  <2>1. st'[j] # Absent
    BY <1>1, <1>4 DEF Lifecycle!Admit, Absent
  <2>2. pl'[j] = pl[j] /\ cv'[j] = cv[j]
    <3>1. CASE j = i
      BY <1>0, <1>4, <3>1 DEF Lifecycle!Admit, Lifecycle!Absent, Absent
    <3>2. CASE j # i
      BY <1>0, <1>4, <3>2 DEF Lifecycle!Admit
    <3> QED
      BY <3>1, <3>2
  <2> QED
    BY <2>1, <2>2
<1>5. ASSUME NEW E \in SUBSET Lifecycle!Holders, NEW i \in Intents, NEW D \in SUBSET Intents,
             Lifecycle!Amend(E, i, D, pl'[i])
      PROVE  Goal
  <2>1. st'[j] # Absent
    BY <1>1, <1>5 DEF Lifecycle!Amend, Lifecycle!Fenced, Absent
  <2> QED
    BY <1>2, <1>5, <2>1 DEF Lifecycle!Amend
<1>6. ASSUME NEW E \in SUBSET Lifecycle!Holders, NEW i \in Intents,
             Lifecycle!Promote(E, i, pl'[i]) \/ Lifecycle!Refresh(E, i, pl'[i])
      PROVE  Goal
  BY <1>1, <1>2, <1>6 DEF Lifecycle!Promote, Lifecycle!Refresh, Absent
<1>7. ASSUME NEW D \in SUBSET Intents, Lifecycle!Invalidate(D) PROVE Goal
  BY <1>7 DEF Lifecycle!Invalidate, Lifecycle!Fenced, Absent
<1>8. ASSUME NEW i \in Intents,
             Lifecycle!Activate(i) \/ Lifecycle!Complete(i) \/ Lifecycle!Release(i)
      PROVE  Goal
  BY <1>0, <1>8 DEF Lifecycle!Activate, Lifecycle!Complete, Lifecycle!Release, Lifecycle!Move, Absent
<1>9. CASE UNCHANGED Lifecycle!lifecycle
  BY <1>9 DEF Lifecycle!lifecycle
<1>10. [Lifecycle!LifecycleNext]_(Lifecycle!lifecycle)
  BY StepImplements
<1> QED
  BY <1>3, <1>4, <1>5, <1>6, <1>7, <1>8, <1>9, <1>10 DEF Lifecycle!LifecycleNext

-----------------------------------------------------------------------------
(* Type correctness.                                                       *)

BrokerRow == [ state : {"none", "active", "stopped", "expired", "fenced"},
               cv : Nat, token : Nat, tree : Trees \cup {NoTree} ]
LeaseRow  == [holder : Brokers \cup {NoBroker}, token : Nat, left : Nat]
OpRow     == [ state : {"none", "pending", "committed", "failed", "rolled_back"},
               pre : Trees \cup {NoTree} ]
HandlerRow == [ phase : Phases, request : Requests \cup {NoRequest},
                seen : ContentType \cup {NoPayload},
                backup : Nat, post : Trees \cup {NoTree} ]

(* Writing the file of a worktree leaves its HEAD. *)
LEMMA TreeFacts ==
    ASSUME NEW t \in Trees, NEW c \in Nat
    PROVE  /\ t[1] \in Bases /\ t[2] \in Nat /\ t = <<t[1], t[2]>>
           /\ [t EXCEPT ![2] = c] = <<t[1], c>>
           /\ <<t[1], c>> \in Trees
BY DEF Trees

(* The sweep of the writer leases changes at most the state of a broker and *)
(* whole lease rows.                                                        *)
LEMMA SweptBrokerFacts ==
    ASSUME BrokerTypeOK
    PROVE  /\ SweptBroker \in [Brokers -> BrokerRow]
           /\ SweptWriter \in [Roots -> LeaseRow]
           /\ \A b \in Brokers :
                /\ SweptBroker[b].cv = broker[b].cv
                /\ SweptBroker[b].token = broker[b].token
                /\ SweptBroker[b].tree = broker[b].tree
                /\ SweptBroker[b].state \in {broker[b].state, "expired"}
                /\ SweptBroker[b].state = "none" <=> broker[b].state = "none"
<1>1. SweptWriter \in [Roots -> LeaseRow]
  BY DEF SweptWriter, BrokerTypeOK, NoLease, LeaseRow
<1>2. ASSUME NEW b \in Brokers
      PROVE  /\ SweptBroker[b] \in BrokerRow
             /\ SweptBroker[b].cv = broker[b].cv
             /\ SweptBroker[b].token = broker[b].token
             /\ SweptBroker[b].tree = broker[b].tree
             /\ SweptBroker[b].state \in {broker[b].state, "expired"}
             /\ SweptBroker[b].state = "none" <=> broker[b].state = "none"
  <2>1. broker[b] \in BrokerRow
    BY DEF BrokerTypeOK, BrokerRow
  <2>2. \/ SweptBroker[b] = broker[b]
        \/ broker[b].state = "active" /\ SweptBroker[b] = [broker[b] EXCEPT !.state = "expired"]
    BY DEF SweptBroker
  <2> QED
    BY <2>1, <2>2 DEF BrokerRow
<1>3. SweptBroker = [b \in Brokers |-> SweptBroker[b]]
  BY DEF SweptBroker
<1> QED
  BY <1>1, <1>2, <1>3

(* The transactions of the broker registry keep its tables well-typed.     *)
LEMMA BrokerTableType ==
    ASSUME TypeOK, BrokerTypeOK, NEW b \in Brokers, NEW t \in Trees \cup {NoTree},
           \/ RegisterBroker(b, t) \/ ValidateBroker(b, t) \/ PrepareOperation(b, t)
           \/ CommitOperation(b, t) \/ FailOperation(b, "rolled_back") \/ StopBroker(b)
    PROVE  BrokerTypeOK'
<1>0. /\ broker \in [Brokers -> BrokerRow] /\ writer \in [Roots -> LeaseRow]
      /\ op \in [Brokers -> OpRow] /\ counter \in [Roots -> Nat]
      /\ RootOf[b] \in Roots /\ Serves[b] \in Intents /\ cv[Serves[b]] \in Nat
      /\ WriterTicks \in Nat
  BY BrokerAssumption DEF TypeOK, BrokerTypeOK, BrokerRow, LeaseRow, OpRow
<1> SUFFICES /\ broker' \in [Brokers -> BrokerRow] /\ writer' \in [Roots -> LeaseRow]
             /\ op' \in [Brokers -> OpRow] /\ counter' \in [Roots -> Nat]
  BY DEF BrokerTypeOK, BrokerRow, LeaseRow, OpRow
<1>1. CASE RegisterBroker(b, t)
  <2>1. [state |-> "active", cv |-> cv[Serves[b]], token |-> counter[RootOf[b]] + 1, tree |-> t]
           \in BrokerRow
    BY <1>0 DEF BrokerRow
  <2>2. [holder |-> b, token |-> counter[RootOf[b]] + 1, left |-> WriterTicks] \in LeaseRow
    BY <1>0 DEF LeaseRow
  <2> QED
    BY <1>0, <1>1, <2>1, <2>2, SweptBrokerFacts DEF RegisterBroker
<1>2. CASE ValidateBroker(b, t)
  BY <1>0, <1>2, SweptBrokerFacts DEF ValidateBroker, LeaseRow
<1>3. CASE PrepareOperation(b, t)
  BY <1>0, <1>3, SweptBrokerFacts DEF PrepareOperation, SweepAll, OpRow
<1>4. CASE CommitOperation(b, t)
  <2>1. [SweptBroker[b] EXCEPT !.tree = t] \in BrokerRow
    BY SweptBrokerFacts DEF BrokerRow
  <2>2. [op[b] EXCEPT !.state = "committed"] \in OpRow
    BY <1>0 DEF OpRow
  <2> QED
    BY <1>0, <1>4, <2>1, <2>2, SweptBrokerFacts DEF CommitOperation
<1>5. CASE FailOperation(b, "rolled_back")
  BY <1>0, <1>5 DEF FailOperation, OpRow
<1>6. CASE StopBroker(b)
  <2>1. NoLease \in LeaseRow
    BY DEF NoLease, LeaseRow
  <2>2. [broker[b] EXCEPT !.state = "stopped"] \in BrokerRow
    BY <1>0 DEF BrokerRow
  <2> QED
    BY <1>0, <1>6, <2>1, <2>2 DEF StopBroker, brokerVars
<1> QED
  BY <1>1, <1>2, <1>3, <1>4, <1>5, <1>6

(* So do the fencing joined to intent transactions, the rebinding of a     *)
(* promoted broker and the clock.                                          *)
LEMMA FencingType ==
    ASSUME TypeOK, TypeOK', BrokerTypeOK,
           FenceBrokers \/ BrokerTick \/ \E b \in Brokers, m \in Requests : PromoteForBroker(b, m)
    PROVE  BrokerTypeOK'
<1>0. /\ broker \in [Brokers -> BrokerRow] /\ writer \in [Roots -> LeaseRow]
      /\ op \in [Brokers -> OpRow] /\ counter \in [Roots -> Nat]
  BY DEF BrokerTypeOK, BrokerRow, LeaseRow, OpRow
<1> SUFFICES /\ broker' \in [Brokers -> BrokerRow] /\ writer' \in [Roots -> LeaseRow]
             /\ op' \in [Brokers -> OpRow] /\ counter' \in [Roots -> Nat]
  BY DEF BrokerTypeOK, BrokerRow, LeaseRow, OpRow
<1>1. CASE FenceBrokers
  <2>1. NoLease \in LeaseRow
    BY DEF NoLease, LeaseRow
  <2>2. ASSUME NEW b \in Brokers
        PROVE  /\ [broker[b] EXCEPT !.state = "fenced"] \in BrokerRow
               /\ [op[b] EXCEPT !.state = "failed"] \in OpRow
    BY <1>0 DEF BrokerRow, OpRow
  <2> QED
    BY <1>0, <1>1, <2>1, <2>2 DEF FenceBrokers
<1>2. CASE BrokerTick
  BY <1>0, <1>2 DEF BrokerTick, LeaseRow
<1>3. ASSUME NEW b \in Brokers, NEW m \in Requests, PromoteForBroker(b, m)
      PROVE  /\ broker' \in [Brokers -> BrokerRow] /\ writer' \in [Roots -> LeaseRow]
             /\ op' \in [Brokers -> OpRow] /\ counter' \in [Roots -> Nat]
  <2>1. cv'[Serves[b]] \in Nat
    BY BrokerAssumption DEF TypeOK
  <2> QED
    BY <1>0, <1>3, <2>1 DEF PromoteForBroker, BrokerRow
<1> QED
  BY <1>1, <1>2, <1>3

(* An idle, dead or resting handler is well-typed. *)
LEMMA IdleType ==
    ASSUME NEW phase \in Phases
    PROVE  Idle(phase) \in HandlerRow /\ Idle(phase).phase = phase
BY DEF Idle, HandlerRow, NoTree

(* A step of a broker keeps handlers, locks and trees well-typed, and a    *)
(* request it carries is one of the requests.                              *)
LEMMA ProcessType ==
    ASSUME RuntimeTypeInv, NEW b \in Brokers, BrokerStep(b)
    PROVE  /\ handler' \in [Brokers -> HandlerRow]
           /\ lock' \in [Roots -> Brokers \cup {NoBroker}]
           /\ serving' \in [Brokers -> BOOLEAN]
           /\ tree' \in [Roots -> Trees]
           /\ RequestsKnown'
<1>0. /\ handler \in [Brokers -> HandlerRow] /\ lock \in [Roots -> Brokers \cup {NoBroker}]
      /\ serving \in [Brokers -> BOOLEAN] /\ tree \in [Roots -> Trees]
      /\ RequestsKnown
      /\ RootOf[b] \in Roots /\ Serves[b] \in Intents
      /\ pl[Serves[b]] \in ContentType \cup {NoPayload}
  BY BrokerAssumption DEF RuntimeTypeInv, RuntimeTypeOK, TypeOK, HandlerRow
<1>1. ReleasedLock(b) \in [Roots -> Brokers \cup {NoBroker}]
  BY <1>0 DEF ReleasedLock
<1>2. /\ tree[RootOf[b]] \in Trees /\ tree[RootOf[b]][2] \in Nat
      /\ handler[b] \in HandlerRow
  BY <1>0, TreeFacts
<1>3. ASSUME NEW phase \in Phases
      PROVE  [handler[b] EXCEPT !.phase = phase] \in HandlerRow
  BY <1>2, <1>3 DEF HandlerRow
<1>4. ASSUME NEW row \in HandlerRow, handler' = [handler EXCEPT ![b] = row],
             row.phase \in InFlight => row.request \in Requests
      PROVE  handler' \in [Brokers -> HandlerRow] /\ RequestsKnown'
  BY <1>0, <1>4 DEF RequestsKnown, Phase
<1>5. ASSUME NEW phase \in Phases \ InFlight, handler' = [handler EXCEPT ![b].phase = phase]
      PROVE  handler' \in [Brokers -> HandlerRow] /\ RequestsKnown'
  <2> DEFINE row == [handler[b] EXCEPT !.phase = phase]
  <2>1. row \in HandlerRow /\ row.phase = phase
    BY <1>2, <1>3 DEF HandlerRow
  <2>2. handler' = [handler EXCEPT ![b] = row]
    BY <1>5
  <2> HIDE DEF row
  <2> QED
    BY <1>4, <1>5, <2>1, <2>2
<1>6. CASE AcquireLock(b) \/ FinishStart(b)
  <2>1. "starting" \in Phases \ InFlight /\ "idle" \in Phases \ InFlight
    BY DEF Phases, InFlight
  <2> QED
    BY <1>0, <1>5, <1>6, <2>1 DEF AcquireLock, FinishStart
<1>7. CASE FailStart(b)
  <2>1. "off" \in Phases \ InFlight
    BY DEF Phases, InFlight
  <2> QED
    BY <1>0, <1>1, <1>5, <1>7, <2>1 DEF FailStart
<1>8. CASE Close(b)
  BY <1>0, <1>1, <1>8 DEF Close, RequestsKnown, Phase
<1>9. CASE Crash(b)
  <2>1. Idle("dead") \in HandlerRow /\ Idle("dead").phase = "dead"
    BY IdleType DEF Phases
  <2> QED
    BY <1>0, <1>1, <1>4, <1>9, <2>1 DEF Crash, InFlight
<1>10. ASSUME NEW m \in Requests, BeginRequest(b, m)
       PROVE  /\ handler' \in [Brokers -> HandlerRow] /\ RequestsKnown'
              /\ UNCHANGED <<lock, serving, tree>>
  <2>1. [handler[b] EXCEPT !.phase = "validated", !.request = m, !.seen = pl[Serves[b]]]
           \in HandlerRow
    BY <1>0, <1>2 DEF HandlerRow, Phases
  <2>2. handler' = [handler EXCEPT ![b] =
           [handler[b] EXCEPT !.phase = "validated", !.request = m, !.seen = pl[Serves[b]]]]
    BY <1>0, <1>2, <1>10 DEF BeginRequest, HandlerRow
  <2>3. [handler[b] EXCEPT !.phase = "validated", !.request = m, !.seen = pl[Serves[b]]].request = m
    BY <1>2 DEF HandlerRow
  <2> QED
    BY <1>4, <1>10, <2>1, <2>2, <2>3 DEF BeginRequest
<1>11. ASSUME handler' = [handler EXCEPT ![b] = Idle("idle")]
       PROVE  handler' \in [Brokers -> HandlerRow] /\ RequestsKnown'
  <2>1. Idle("idle") \in HandlerRow /\ Idle("idle").phase = "idle"
    BY IdleType DEF Phases
  <2> QED
    BY <1>4, <1>11, <2>1 DEF InFlight
<1>12. CASE PromoteScope(b)
  <2>1. CASE handler' = [handler EXCEPT ![b] = [handler[b] EXCEPT !.phase = "promoted"]]
    <3>1. [handler[b] EXCEPT !.phase = "promoted"].request = handler[b].request
          /\ handler[b].request \in Requests
      BY <1>0, <1>2, <1>12 DEF HandlerRow, PromoteScope, RequestsKnown, Phase, InFlight
    <3>2. "promoted" \in Phases
      BY DEF Phases
    <3> QED
      BY <1>0, <1>3, <1>4, <1>12, <2>1, <3>1, <3>2 DEF PromoteScope
  <2>2. CASE handler' = [handler EXCEPT ![b] = Idle("idle")]
    BY <1>0, <1>11, <1>12, <2>2 DEF PromoteScope
  <2> QED
    BY <1>12, <2>1, <2>2 DEF PromoteScope
<1>13. CASE ReadPromoted(b)
  <2> DEFINE row == [handler[b] EXCEPT !.phase = "scoped", !.seen = pl[Serves[b]]]
  <2>1. row \in HandlerRow /\ row.request = handler[b].request
    BY <1>0, <1>2 DEF HandlerRow, Phases
  <2>2. handler' = [handler EXCEPT ![b] = row]
    BY <1>0, <1>2, <1>13 DEF ReadPromoted, HandlerRow
  <2>3. handler[b].request \in Requests
    BY <1>0, <1>13 DEF ReadPromoted, RequestsKnown, Phase, InFlight
  <2> HIDE DEF row
  <2> QED
    BY <1>0, <1>4, <1>13, <2>1, <2>2, <2>3 DEF ReadPromoted
<1>14. CASE Refuse(b) \/ Commit(b) \/ ReportRollback(b)
  BY <1>0, <1>11, <1>14 DEF Refuse, Commit, ReportRollback
<1>15. CASE Prepare(b)
  <2> DEFINE row == [handler[b] EXCEPT !.phase = "prepared", !.backup = Tree(b)[2]]
  <2>1. row \in HandlerRow /\ row.request = handler[b].request
    BY <1>0, <1>2 DEF HandlerRow, Phases, Tree
  <2>2. handler' = [handler EXCEPT ![b] = row]
    BY <1>0, <1>2, <1>15 DEF Prepare, HandlerRow
  <2>3. handler[b].request \in Requests
    BY <1>0, <1>15 DEF Prepare, RequestsKnown, Phase, InFlight
  <2> HIDE DEF row
  <2> QED
    BY <1>0, <1>4, <1>15, <2>1, <2>2, <2>3 DEF Prepare
<1>16. ASSUME NEW c \in 0..MaxContents, Mutate(b, c)
       PROVE  /\ handler' \in [Brokers -> HandlerRow] /\ RequestsKnown'
              /\ UNCHANGED <<lock, serving>> /\ tree' \in [Roots -> Trees]
  <2> DEFINE row == [handler[b] EXCEPT !.phase = "mutated", !.post = <<Tree(b)[1], c>>]
  <2>0. c \in Nat
    BY RuntimeAssumption
  <2>1. [Tree(b) EXCEPT ![2] = c] \in Trees /\ <<Tree(b)[1], c>> \in Trees
    BY <1>2, <2>0, TreeFacts DEF Tree
  <2>2. row \in HandlerRow /\ row.request = handler[b].request
    BY <1>0, <1>2, <2>1 DEF HandlerRow, Phases
  <2>3. handler' = [handler EXCEPT ![b] = row]
    BY <1>0, <1>2, <1>16 DEF Mutate, HandlerRow
  <2>4. handler[b].request \in Requests
    BY <1>0, <1>16 DEF Mutate, RequestsKnown, Phase, InFlight
  <2>5. tree' = [tree EXCEPT ![RootOf[b]] = [Tree(b) EXCEPT ![2] = c]]
    BY <1>0, <1>16 DEF Mutate, Tree
  <2>6. tree' \in [Roots -> Trees]
    BY <1>0, <2>1, <2>5
  <2> HIDE DEF row
  <2> QED
    BY <1>0, <1>4, <1>16, <2>2, <2>3, <2>4, <2>6 DEF Mutate
<1>17. CASE Rollback(b)
  <2> DEFINE row == [handler[b] EXCEPT !.phase = "restored"]
  <2>0. handler[b].backup \in Nat
    BY <1>2 DEF HandlerRow
  <2>1. [Tree(b) EXCEPT ![2] = handler[b].backup] \in Trees
    BY <1>2, <2>0, TreeFacts DEF Tree
  <2>2. row \in HandlerRow /\ row.request = handler[b].request
    BY <1>0, <1>2 DEF HandlerRow, Phases
  <2>3. handler' = [handler EXCEPT ![b] = row]
    BY <1>0, <1>2, <1>17 DEF Rollback, HandlerRow
  <2>4. handler[b].request \in Requests
    BY <1>0, <1>17 DEF Rollback, RequestsKnown, Phase, InFlight
  <2>5. tree' = [tree EXCEPT ![RootOf[b]] = [Tree(b) EXCEPT ![2] = handler[b].backup]]
    BY <1>0, <1>17 DEF Rollback, Tree
  <2>6. tree' \in [Roots -> Trees]
    BY <1>0, <2>1, <2>5
  <2> HIDE DEF row
  <2> QED
    BY <1>0, <1>4, <1>17, <2>2, <2>3, <2>4, <2>6 DEF Rollback
<1> QED
  BY <1>0, <1>6, <1>7, <1>8, <1>9, <1>10, <1>12, <1>13, <1>14, <1>15, <1>16, <1>17
     DEF BrokerStep

(* Every step keeps the tables, the processes and the worktrees typed.     *)
LEMMA RuntimeTypeStep ==
    ASSUME RuntimeTypeInv, [RuntimeNext]_allVars
    PROVE  RuntimeTypeInv'
<1>0. /\ TypeOK /\ BrokerTypeOK /\ RequestsKnown
      /\ handler \in [Brokers -> HandlerRow] /\ lock \in [Roots -> Brokers \cup {NoBroker}]
      /\ serving \in [Brokers -> BOOLEAN] /\ tree \in [Roots -> Trees]
  BY DEF RuntimeTypeInv, RuntimeTypeOK, HandlerRow
<1>1. TypeOK'
  BY <1>0, RegistryStepOf, TypeStep
<1> SUFFICES /\ BrokerTypeOK'
             /\ handler' \in [Brokers -> HandlerRow]
             /\ lock' \in [Roots -> Brokers \cup {NoBroker}]
             /\ serving' \in [Brokers -> BOOLEAN]
             /\ tree' \in [Roots -> Trees]
             /\ RequestsKnown'
  BY <1>1 DEF RuntimeTypeInv, RuntimeTypeOK, HandlerRow
<1>2. ASSUME UNCHANGED brokerVars PROVE BrokerTypeOK'
  BY <1>0, <1>2 DEF brokerVars, BrokerTypeOK
<1>3. ASSUME UNCHANGED runtimeVars
      PROVE  /\ handler' \in [Brokers -> HandlerRow]
             /\ lock' \in [Roots -> Brokers \cup {NoBroker}]
             /\ serving' \in [Brokers -> BOOLEAN]
             /\ tree' \in [Roots -> Trees]
             /\ RequestsKnown'
  BY <1>0, <1>3 DEF runtimeVars, RequestsKnown, Phase
<1>4. CASE UNCHANGED allVars
  BY <1>2, <1>3, <1>4 DEF allVars
<1>5. ASSUME NEW b \in Brokers, BrokerStep(b) PROVE BrokerTypeOK'
  <2>1. Tree(b) \in Trees /\ handler[b].post \in Trees \cup {NoTree}
    BY <1>0, BrokerAssumption DEF Tree, HandlerRow
  <2>2. CASE FinishStart(b)
    BY <1>0, <2>1, <2>2, BrokerTableType DEF FinishStart
  <2>3. CASE \E m \in Requests : BeginRequest(b, m)
    BY <1>0, <2>1, <2>3, BrokerTableType DEF BeginRequest
  <2>4. CASE PromoteScope(b)
    <3>1. handler[b].request \in Requests
      BY <1>0, <2>4 DEF PromoteScope, RequestsKnown, Phase, InFlight
    <3> QED
      BY <1>0, <1>1, <2>4, <3>1, FencingType DEF PromoteScope
  <2>5. CASE Prepare(b)
    BY <1>0, <2>1, <2>5, BrokerTableType DEF Prepare
  <2>6. CASE Commit(b)
    BY <1>0, <2>1, <2>6, BrokerTableType DEF Commit
  <2>7. CASE Close(b)
    BY <1>0, <2>1, <2>7, BrokerTableType DEF Close
  <2>8. CASE ReportRollback(b)
    BY <1>0, <2>1, <2>8, BrokerTableType DEF ReportRollback
  <2>9. CASE AcquireLock(b) \/ FailStart(b) \/ Crash(b) \/ ReadPromoted(b) \/ Refuse(b)
             \/ (\E c \in 0..MaxContents : Mutate(b, c)) \/ Rollback(b)
    BY <1>2, <2>9 DEF AcquireLock, FailStart, Crash, ReadPromoted, Refuse, Mutate, Rollback
  <2> QED
    BY <1>5, <2>2, <2>3, <2>4, <2>5, <2>6, <2>7, <2>8, <2>9 DEF BrokerStep
<1>6. ASSUME NEW w \in Roots, NEW base \in Bases, ResetWorktree(w, base)
      PROVE  /\ UNCHANGED <<brokerVars, handler, lock, serving>>
             /\ tree' \in [Roots -> Trees] /\ RequestsKnown'
  <2>1. <<base, 0>> \in Trees
    BY DEF Trees
  <2> QED
    BY <1>0, <1>6, <2>1 DEF ResetWorktree, RequestsKnown, Phase
<1>7. CASE RegistryStep
  <2>1. BrokerTypeOK'
    BY <1>0, <1>1, <1>2, <1>7, FencingType DEF RegistryStep, GovernedStep
  <2> QED
    BY <1>3, <1>7, <2>1 DEF RegistryStep
<1> QED
  BY <1>0, <1>2, <1>4, <1>5, <1>6, <1>7, ProcessType DEF RuntimeNext

(* The tables, processes and worktrees keep their types for any number of  *)
(* intents, brokers and worktrees.                                         *)
THEOREM RuntimeTypeCorrect == RuntimeSpec => []RuntimeTypeInv
<1>1. RuntimeInit => RuntimeTypeInv
  <2> SUFFICES ASSUME RuntimeInit PROVE RuntimeTypeInv
    OBVIOUS
  <2>1. TypeOK
    BY DEF RuntimeInit, Init, TypeOK, States, NoRecovery
  <2>2. BrokerTypeOK
    BY DEF RuntimeInit, BrokerInit, BrokerTypeOK, NoLease, NoOp
  <2>3. Idle("off") \in HandlerRow /\ Idle("off").phase = "off"
    BY IdleType DEF Phases
  <2>4. handler \in [Brokers -> HandlerRow] /\ RequestsKnown
    BY <2>3 DEF RuntimeInit, RequestsKnown, Phase, InFlight
  <2>5. /\ lock \in [Roots -> Brokers \cup {NoBroker}] /\ serving \in [Brokers -> BOOLEAN]
        /\ tree \in [Roots -> Trees]
    BY DEF RuntimeInit, Trees
  <2> QED
    BY <2>1, <2>2, <2>4, <2>5 DEF RuntimeTypeInv, RuntimeTypeOK, HandlerRow
<1>2. RuntimeTypeInv /\ [RuntimeNext]_allVars => RuntimeTypeInv'
  BY RuntimeTypeStep
<1> QED
  BY <1>1, <1>2, PTL DEF RuntimeSpec

(* Brokers, their runtime and all other users of the registry together     *)
(* only do what the registry's specification allows, so every theorem      *)
(* about it holds of the composed system.                                  *)
THEOREM RuntimeRefinesRegistry == RuntimeSpec => Spec
<1>1. RuntimeInit => Init
  BY DEF RuntimeInit
<1>2. RuntimeTypeInv /\ [RuntimeNext]_allVars => [Next]_vars
  BY RegistryStepOf DEF RuntimeTypeInv
<1> QED
  BY <1>1, <1>2, RuntimeTypeCorrect, PTL DEF RuntimeSpec, Spec

-----------------------------------------------------------------------------
(* Who may write a worktree.                                               *)

(* WriterAuthority leaves open that one instance holds the leases of two   *)
(* roots; then the loss of one would leave the other without a writer.     *)
LeasesOwnRoot ==
    \A w \in Roots : writer[w].holder # NoBroker =>
        writer[w].holder \in Brokers /\ RootOf[writer[w].holder] = w

AuthorityInv == WriterAuthority /\ LeasesOwnRoot

(* No intent becomes stale. *)
Unstaled == \A j \in Intents : st'[j] = "STALE" => st[j] = "STALE"

(* Only admission, amendment, a pause and a broken contract make an intent *)
(* stale; these are the operations that fence brokers.                     *)
LEMMA SweepUnstaled ==
    ASSUME TypeOK, NEW d, SweepOnly(d)
    PROVE  Unstaled
BY SweptFacts DEF SweepOnly, Unstaled, Live

LEMMA OperationUnstaled ==
    ASSUME TypeOK, NEW i \in Intents,
           \/ \E m \in Requests : PromoteContingent(i, m)
           \/ \E base \in Bases, a \in BOOLEAN : RefreshStale(i, base, a)
           \/ ResumeRefreshed(i) \/ ActivateIntent(i) \/ CompleteIntent(i) \/ ReleaseIntent(i)
           \/ HeartbeatIntent(i)
    PROVE  Unstaled
<1>1. CASE \E m \in Requests : PromoteContingent(i, m)
  <2>0. PICK d \in 0..TxnTicks : \E p : PromoteAt(i, p, d)
    BY <1>1 DEF PromoteContingent
  <2>1. PICK p : PromoteAt(i, p, d)
    BY <2>0
  <2>2. CASE st' = Swept
    BY <2>2, SweptFacts DEF Unstaled, Live
  <2> QED
    BY <2>1, <2>2, SweepUnstaled DEF PromoteAt
<1>2. CASE \E base \in Bases, a \in BOOLEAN : RefreshStale(i, base, a)
  <2>0. PICK d \in 0..TxnTicks : \E p : RefreshAt(i, p, d)
    BY <1>2 DEF RefreshStale
  <2>1. PICK p : RefreshAt(i, p, d)
    BY <2>0
  <2>2. CASE st' = [Swept EXCEPT ![i] = "ADMITTED"]
    BY <2>2, SweptFacts DEF Unstaled, Live
  <2> QED
    BY <2>1, <2>2, SweepUnstaled DEF RefreshAt
<1>3. CASE ResumeRefreshed(i)
  BY <1>3 DEF ResumeRefreshed, Unstaled, TypeOK
<1>4. CASE ActivateIntent(i) \/ CompleteIntent(i) \/ ReleaseIntent(i)
  BY <1>4 DEF ActivateIntent, CompleteIntent, ReleaseIntent, SetState, Unstaled, TypeOK
<1>5. CASE HeartbeatIntent(i)
  BY <1>5 DEF HeartbeatIntent, Unstaled
<1> QED
  BY <1>1, <1>2, <1>3, <1>4, <1>5

(* A step that leaves states and tokens of brokers and the holders of      *)
(* leases alone, and makes no intent stale, leaves authority as it is.     *)
LEMMA AuthorityKept ==
    ASSUME BrokerTypeOK, AuthorityInv, Unstaled, UNCHANGED counter,
           \A b \in Brokers : broker'[b].state = broker[b].state /\ broker'[b].token = broker[b].token,
           \A w \in Roots : writer'[w].holder = writer[w].holder /\ writer'[w].token = writer[w].token
    PROVE  AuthorityInv'
<1>1. \A b \in Brokers : RootOf[b] \in Roots /\ Serves[b] \in Intents
  BY BrokerAssumption
<1> QED
  BY <1>1 DEF AuthorityInv, WriterAuthority, LeasesOwnRoot, Unstaled

(* The sweep of lapsed writer leases takes the lease and the activity of   *)
(* one instance together (_expire_broker_writer_leases_locked).            *)
LEMMA AuthoritySwept ==
    ASSUME BrokerTypeOK, AuthorityInv
    PROVE  /\ \A b \in Brokers :
                 SweptBroker[b].state = "active" =>
                   /\ broker[b].state = "active"
                   /\ SweptWriter[RootOf[b]] = writer[RootOf[b]]
           /\ \A w \in Roots : SweptWriter[w].holder # NoBroker =>
                   /\ SweptWriter[w] = writer[w]
                   /\ SweptWriter[w].holder \in Brokers
                   /\ SweptBroker[SweptWriter[w].holder].state = "active"
<1>1. ASSUME NEW b \in Brokers, SweptBroker[b].state = "active"
      PROVE  broker[b].state = "active" /\ SweptWriter[RootOf[b]] = writer[RootOf[b]]
  <2>1. broker[b].state = "active" /\ ~ \E w \in Roots : Lapsed(w) /\ writer[w].holder = b
    BY <1>1, SweptBrokerFacts DEF SweptBroker, BrokerTypeOK
  <2>2. RootOf[b] \in Roots /\ writer[RootOf[b]].holder = b
    BY <2>1, BrokerAssumption DEF AuthorityInv, WriterAuthority
  <2> QED
    BY <2>1, <2>2 DEF SweptWriter
<1>2. ASSUME NEW w \in Roots, SweptWriter[w].holder # NoBroker
      PROVE  /\ SweptWriter[w] = writer[w]
             /\ SweptWriter[w].holder \in Brokers
             /\ SweptBroker[SweptWriter[w].holder].state = "active"
  <2>1. ~Lapsed(w) /\ SweptWriter[w] = writer[w]
    BY <1>2 DEF SweptWriter, NoLease
  <2>2. PICK h \in Brokers : h = writer[w].holder /\ RootOf[h] = w /\ broker[h].state = "active"
    BY <1>2, <2>1 DEF AuthorityInv, LeasesOwnRoot, WriterAuthority
  <2>3. ~ \E v \in Roots : Lapsed(v) /\ writer[v].holder = h
    BY <2>1, <2>2, BrokerAssumption DEF AuthorityInv, LeasesOwnRoot
  <2>4. SweptBroker[h] = broker[h]
    BY <2>3 DEF SweptBroker
  <2> QED
    BY <2>1, <2>2, <2>4
<1> QED
  BY <1>1, <1>2

(* A transaction that starts with the sweep and changes no authority.      *)
LEMMA AuthorityAfterSweep ==
    ASSUME BrokerTypeOK, AuthorityInv, Unstaled, UNCHANGED counter,
           \A b \in Brokers : /\ broker'[b].state = SweptBroker[b].state
                             /\ broker'[b].token = SweptBroker[b].token,
           \A w \in Roots : /\ writer'[w].holder = SweptWriter[w].holder
                           /\ writer'[w].token = SweptWriter[w].token
    PROVE  AuthorityInv'
<1>1. \A b \in Brokers : RootOf[b] \in Roots /\ Serves[b] \in Intents
  BY BrokerAssumption
<1>2. ASSUME NEW b \in Brokers, broker'[b].state = "active"
      PROVE  /\ writer'[RootOf[b]].holder = b
             /\ writer'[RootOf[b]].token = broker'[b].token
             /\ broker'[b].token = counter'[RootOf[b]]
             /\ st'[Serves[b]] # "STALE"
  BY <1>1, <1>2, AuthoritySwept, SweptBrokerFacts DEF AuthorityInv, WriterAuthority, Unstaled
<1>3. ASSUME NEW w \in Roots, writer'[w].holder # NoBroker
      PROVE  /\ broker'[writer'[w].holder].state = "active"
             /\ writer'[w].holder \in Brokers /\ RootOf[writer'[w].holder] = w
  BY <1>3, AuthoritySwept DEF AuthorityInv, LeasesOwnRoot
<1> QED
  BY <1>2, <1>3 DEF AuthorityInv, WriterAuthority, LeasesOwnRoot

(* A new instance takes the lease of a free root with a fresh token, and   *)
(* only for a live intent (register_broker_instance).                      *)
LEMMA AuthorityRegistered ==
    ASSUME TypeOK, BrokerTypeOK, AuthorityInv, NEW b \in Brokers, NEW t, RegisterBroker(b, t)
    PROVE  AuthorityInv'
<1> DEFINE w == RootOf[b]
           token == counter[w] + 1
<1>0. /\ \A c \in Brokers : RootOf[c] \in Roots /\ Serves[c] \in Intents
      /\ NoBroker \notin Brokers
  BY BrokerAssumption
<1>1. /\ \A c \in Brokers \ {b} : broker'[c] = SweptBroker[c]
      /\ broker'[b].state = "active" /\ broker'[b].token = token
      /\ \A v \in Roots \ {w} : writer'[v] = SweptWriter[v]
      /\ writer'[w].holder = b /\ writer'[w].token = token
      /\ counter' = [counter EXCEPT ![w] = token]
      /\ SweptWriter[w].holder = NoBroker
  BY <1>0, SweptBrokerFacts DEF RegisterBroker
<1>2. Unstaled /\ st'[Serves[b]] # "STALE"
  BY <1>0, SweepUnstaled DEF RegisterBroker, SweepOnly, Live
<1>3. \A c \in Brokers : SweptBroker[c].state = "active" => RootOf[c] # w
  BY <1>0, <1>1, AuthoritySwept DEF AuthorityInv, WriterAuthority
<1>4. counter'[w] = token /\ \A v \in Roots \ {w} : counter'[v] = counter[v]
  BY <1>0, <1>1 DEF BrokerTypeOK
<1>5. SweptBroker[b].state # "active"
  BY AuthoritySwept DEF RegisterBroker
<1> HIDE DEF w, token
<1>6. ASSUME NEW c \in Brokers, broker'[c].state = "active"
      PROVE  /\ writer'[RootOf[c]].holder = c
             /\ writer'[RootOf[c]].token = broker'[c].token
             /\ broker'[c].token = counter'[RootOf[c]]
             /\ st'[Serves[c]] # "STALE"
  <2>1. CASE c = b
    BY <1>1, <1>2, <1>4, <2>1 DEF w
  <2>2. CASE c # b
    <3>1. SweptBroker[c].state = "active" /\ RootOf[c] \in Roots \ {w}
      BY <1>0, <1>1, <1>3, <1>6, <2>2
    <3>2. /\ broker[c].state = "active" /\ writer'[RootOf[c]] = writer[RootOf[c]]
          /\ broker'[c].token = broker[c].token /\ counter'[RootOf[c]] = counter[RootOf[c]]
      BY <1>1, <1>4, <2>2, <3>1, AuthoritySwept, SweptBrokerFacts
    <3> QED
      BY <1>0, <1>2, <3>2 DEF AuthorityInv, WriterAuthority, Unstaled
  <2> QED
    BY <2>1, <2>2
<1>7. ASSUME NEW v \in Roots, writer'[v].holder # NoBroker
      PROVE  /\ broker'[writer'[v].holder].state = "active"
             /\ writer'[v].holder \in Brokers /\ RootOf[writer'[v].holder] = v
  <2>1. CASE v = w
    BY <1>1, <2>1 DEF w
  <2>2. CASE v # w
    <3>1. /\ writer'[v] = writer[v] /\ writer[v].holder \in Brokers
          /\ SweptBroker[writer[v].holder].state = "active"
      BY <1>1, <1>7, <2>2, AuthoritySwept
    <3>2. writer[v].holder # b
      BY <1>5, <3>1
    <3> QED
      BY <1>1, <1>7, <3>1, <3>2 DEF AuthorityInv, LeasesOwnRoot
  <2> QED
    BY <2>1, <2>2
<1> QED
  BY <1>6, <1>7 DEF AuthorityInv, WriterAuthority, LeasesOwnRoot

(* A stopped instance gives its lease back (stop_broker_instance).         *)
LEMMA AuthorityStopped ==
    ASSUME BrokerTypeOK, AuthorityInv, UNCHANGED st, NEW b \in Brokers, StopBroker(b)
    PROVE  AuthorityInv'
<1>0. /\ \A c \in Brokers : RootOf[c] \in Roots /\ Serves[c] \in Intents
      /\ NoBroker \notin Brokers
  BY BrokerAssumption
<1>1. CASE broker[b].state # "active"
  BY <1>1, AuthorityKept DEF StopBroker, brokerVars, Unstaled
<1>2. CASE broker[b].state = "active"
  <2>1. writer[RootOf[b]].holder = b
    BY <1>2 DEF AuthorityInv, WriterAuthority
  <2>2. /\ \A c \in Brokers \ {b} : broker'[c] = broker[c]
        /\ broker'[b].state = "stopped"
        /\ \A v \in Roots \ {RootOf[b]} : writer'[v] = writer[v]
        /\ writer'[RootOf[b]].holder = NoBroker
        /\ counter' = counter
    BY <1>0, <1>2, <2>1 DEF StopBroker, BrokerTypeOK, NoLease
  <2>3. ASSUME NEW c \in Brokers, broker'[c].state = "active"
        PROVE  /\ c # b /\ RootOf[c] # RootOf[b] /\ broker[c].state = "active"
    BY <2>1, <2>2, <2>3 DEF AuthorityInv, WriterAuthority
  <2>4. ASSUME NEW v \in Roots, writer'[v].holder # NoBroker
        PROVE  /\ v # RootOf[b] /\ writer'[v] = writer[v] /\ writer[v].holder # b
    BY <2>2, <2>4 DEF AuthorityInv, LeasesOwnRoot
  <2> QED
    BY <1>0, <2>2, <2>3, <2>4 DEF AuthorityInv, WriterAuthority, LeasesOwnRoot
<1> QED
  BY <1>1, <1>2

(* Fencing takes activity and lease from every instance of an intent that  *)
(* becomes stale (_fence_intent_runtime_locked).                           *)
LEMMA AuthorityFenced ==
    ASSUME TypeOK, BrokerTypeOK, AuthorityInv, FenceBrokers
    PROVE  AuthorityInv'
<1> DEFINE stale  == { j \in Intents : st[j] # "STALE" /\ st'[j] = "STALE" }
           fenced == UNION { ActiveBrokers(i) : i \in stale }
<1>0. /\ \A c \in Brokers : RootOf[c] \in Roots /\ Serves[c] \in Intents
      /\ NoBroker \notin Brokers
  BY BrokerAssumption
<1>1. fenced = { b \in Brokers : Serves[b] \in stale /\ broker[b].state = "active" }
  BY <1>0 DEF ActiveBrokers
<1>2. /\ broker' = [b \in Brokers |->
                      IF b \in fenced THEN [broker[b] EXCEPT !.state = "fenced"] ELSE broker[b]]
      /\ writer' = [v \in Roots |-> IF writer[v].holder \in fenced THEN NoLease ELSE writer[v]]
      /\ counter' = counter
  BY DEF FenceBrokers
<1> HIDE DEF fenced
<1>3. ASSUME NEW c \in Brokers
      PROVE  /\ c \in fenced => broker'[c].state = "fenced"
             /\ c \notin fenced => broker'[c] = broker[c]
  BY <1>2 DEF BrokerTypeOK
<1>4. ASSUME NEW v \in Roots
      PROVE  /\ writer[v].holder \in fenced => writer'[v].holder = NoBroker
             /\ writer[v].holder \notin fenced => writer'[v] = writer[v]
  BY <1>2 DEF NoLease
<1>5. ASSUME NEW c \in Brokers, broker'[c].state = "active"
      PROVE  /\ c \notin fenced /\ broker[c].state = "active"
             /\ st'[Serves[c]] # "STALE"
  <2>1. c \notin fenced /\ broker[c].state = "active"
    BY <1>3, <1>5
  <2>2. Serves[c] \notin stale /\ st[Serves[c]] # "STALE"
    BY <1>1, <2>1 DEF AuthorityInv, WriterAuthority
  <2> QED
    BY <1>0, <2>1, <2>2
<1>6. ASSUME NEW c \in Brokers, broker'[c].state = "active"
      PROVE  /\ writer'[RootOf[c]].holder = c
             /\ writer'[RootOf[c]].token = broker'[c].token
             /\ broker'[c].token = counter'[RootOf[c]]
             /\ st'[Serves[c]] # "STALE"
  BY <1>0, <1>2, <1>3, <1>4, <1>5, <1>6 DEF AuthorityInv, WriterAuthority
<1>7. ASSUME NEW v \in Roots, writer'[v].holder # NoBroker
      PROVE  /\ broker'[writer'[v].holder].state = "active"
             /\ writer'[v].holder \in Brokers /\ RootOf[writer'[v].holder] = v
  BY <1>3, <1>4, <1>7 DEF AuthorityInv, WriterAuthority, LeasesOwnRoot
<1> QED
  BY <1>6, <1>7 DEF AuthorityInv, WriterAuthority, LeasesOwnRoot

(* Every step keeps the authority over worktrees in order.                 *)
LEMMA AuthorityStep ==
    ASSUME RuntimeTypeInv, AuthorityInv, [RuntimeNext]_allVars
    PROVE  AuthorityInv'
<1>0. TypeOK /\ BrokerTypeOK /\ RequestsKnown
  BY DEF RuntimeTypeInv, RuntimeTypeOK
<1>1. ASSUME Unstaled, UNCHANGED <<broker, writer, counter>> PROVE AuthorityInv'
  BY <1>0, <1>1, AuthorityKept
<1>2. CASE UNCHANGED allVars
  BY <1>1, <1>2 DEF allVars, vars, brokerVars, Unstaled
<1>3. ASSUME NEW b \in Brokers, BrokerStep(b) PROVE AuthorityInv'
  <2>0. RootOf[b] \in Roots /\ Serves[b] \in Intents
    BY BrokerAssumption
  <2>1. CASE FinishStart(b)
    BY <1>0, <2>1, AuthorityRegistered DEF FinishStart
  <2>2. CASE \E m \in Requests : BeginRequest(b, m)
    <3>1. /\ SweepOnly(0) /\ UNCHANGED counter /\ broker' = SweptBroker
          /\ writer' = [SweptWriter EXCEPT ![RootOf[b]].left = WriterTicks]
      BY <2>2 DEF BeginRequest, ValidateBroker
    <3>2. \A w \in Roots : /\ writer'[w].holder = SweptWriter[w].holder
                          /\ writer'[w].token = SweptWriter[w].token
      BY <1>0, <2>0, <3>1, SweptBrokerFacts DEF LeaseRow
    <3> QED
      BY <1>0, <3>1, <3>2, SweepUnstaled, AuthorityAfterSweep
  <2>3. CASE PromoteScope(b)
    <3>1. handler[b].request \in Requests
      BY <1>0, <2>3 DEF PromoteScope, RequestsKnown, Phase, InFlight
    <3>2. Unstaled
      BY <1>0, <2>0, <2>3, <3>1, OperationUnstaled DEF PromoteScope, PromoteForBroker
    <3>3. /\ UNCHANGED <<writer, counter>>
          /\ \A c \in Brokers : broker'[c].state = broker[c].state /\ broker'[c].token = broker[c].token
      BY <1>0, <2>3 DEF PromoteScope, PromoteForBroker, BrokerTypeOK
    <3> QED
      BY <1>0, <3>2, <3>3, AuthorityKept
  <2>4. CASE Prepare(b)
    <3>1. /\ SweepOnly(0) /\ UNCHANGED counter /\ broker' = SweptBroker /\ writer' = SweptWriter
      BY <2>4 DEF Prepare, PrepareOperation, SweepAll
    <3> QED
      BY <1>0, <3>1, SweepUnstaled, AuthorityAfterSweep
  <2>5. CASE Commit(b)
    <3>1. /\ SweepOnly(0) /\ UNCHANGED counter /\ writer' = SweptWriter
          /\ broker' = [SweptBroker EXCEPT ![b].tree = handler[b].post]
      BY <2>5 DEF Commit, CommitOperation
    <3>2. \A c \in Brokers : /\ broker'[c].state = SweptBroker[c].state
                            /\ broker'[c].token = SweptBroker[c].token
      BY <1>0, <3>1, SweptBrokerFacts DEF BrokerRow
    <3> QED
      BY <1>0, <3>1, <3>2, SweepUnstaled, AuthorityAfterSweep
  <2>6. CASE Close(b)
    BY <1>0, <2>6, AuthorityStopped DEF Close, vars
  <2>7. CASE AcquireLock(b) \/ FailStart(b) \/ Crash(b) \/ ReadPromoted(b) \/ Refuse(b)
             \/ (\E c \in 0..MaxContents : Mutate(b, c)) \/ Rollback(b) \/ ReportRollback(b)
    BY <1>1, <2>7 DEF AcquireLock, FailStart, Crash, ReadPromoted, Refuse, Mutate, Rollback,
                      ReportRollback, FailOperation, vars, brokerVars, Unstaled
  <2> QED
    BY <1>3, <2>1, <2>2, <2>3, <2>4, <2>5, <2>6, <2>7 DEF BrokerStep
<1>4. CASE \E w \in Roots, base \in Bases : ResetWorktree(w, base)
  BY <1>1, <1>4 DEF ResetWorktree, vars, brokerVars, Unstaled
<1>5. CASE RegistryStep
  <2>1. ASSUME NEW i \in Intents, GovernedStep(i) PROVE AuthorityInv'
    <3>1. CASE FenceBrokers
      BY <1>0, <3>1, AuthorityFenced
    <3>2. CASE UNCHANGED brokerVars /\ Unstaled
      BY <1>1, <3>2 DEF brokerVars
    <3> QED
      BY <1>0, <2>1, <3>1, <3>2, OperationUnstaled DEF GovernedStep
  <2>2. CASE (ExpireStale \/ \E i \in Intents : HeartbeatIntent(i)) /\ UNCHANGED brokerVars
    BY <1>0, <1>1, <2>2, SweepUnstaled, OperationUnstaled DEF ExpireStale, brokerVars
  <2>3. CASE BrokerTick
    <3>1. Unstaled
      BY <2>3 DEF BrokerTick, Tick, Unstaled
    <3>2. /\ UNCHANGED <<broker, counter>>
          /\ \A w \in Roots : writer'[w].holder = writer[w].holder /\ writer'[w].token = writer[w].token
      BY <1>0, <2>3 DEF BrokerTick, BrokerTypeOK
    <3> QED
      BY <1>0, <3>1, <3>2, AuthorityKept
  <2> QED
    BY <1>5, <2>1, <2>2, <2>3 DEF RegistryStep
<1> QED
  BY <1>2, <1>3, <1>4, <1>5 DEF RuntimeNext

(* Whoever may write a worktree is the holder of its lease, with the       *)
(* newest token of the root, and works for an intent that is not stale:    *)
(* for any number of intents, instances and roots, whatever crashes,       *)
(* lapses or is fenced in between.                                         *)
THEOREM WriterAuthorityHolds == RuntimeSpec => []WriterAuthority
<1>1. RuntimeInit => AuthorityInv
  BY DEF RuntimeInit, BrokerInit, AuthorityInv, WriterAuthority, LeasesOwnRoot, NoLease
<1>2. RuntimeTypeInv /\ AuthorityInv /\ [RuntimeNext]_allVars => AuthorityInv'
  BY AuthorityStep
<1>3. AuthorityInv => WriterAuthority
  BY DEF AuthorityInv
<1> QED
  BY <1>1, <1>2, <1>3, RuntimeTypeCorrect, PTL DEF RuntimeSpec

-----------------------------------------------------------------------------
(* Under what authority a mutation is committed.                           *)

(* The row of an instance, up to its state: registered or not, bound       *)
(* version, expected tree.                                                 *)
SameRow(c) ==
    /\ broker'[c].state = "none" <=> broker[c].state = "none"
    /\ broker'[c].cv = broker[c].cv
    /\ broker'[c].tree = broker[c].tree

(* A step of one broker leaves the handler and the row of every other one. *)
LEMMA OthersKept ==
    ASSUME RuntimeTypeInv, NEW b \in Brokers, BrokerStep(b), NEW c \in Brokers \ {b}
    PROVE  SameRow(c) /\ handler'[c] = handler[c]
<1>0. /\ handler \in [Brokers -> HandlerRow] /\ broker \in [Brokers -> BrokerRow]
      /\ BrokerTypeOK
  BY DEF RuntimeTypeInv, RuntimeTypeOK, BrokerTypeOK, HandlerRow, BrokerRow
<1>1. ASSUME broker'[c] = SweptBroker[c] PROVE SameRow(c)
  BY <1>0, <1>1, SweptBrokerFacts DEF SameRow
<1>2. ASSUME broker'[c] = broker[c] PROVE SameRow(c)
  BY <1>2 DEF SameRow
<1>3. CASE FinishStart(b)
  BY <1>0, <1>1, <1>3, SweptBrokerFacts DEF FinishStart, RegisterBroker
<1>4. CASE \E m \in Requests : BeginRequest(b, m)
  BY <1>0, <1>1, <1>4 DEF BeginRequest, ValidateBroker
<1>5. CASE PromoteScope(b)
  BY <1>0, <1>2, <1>5 DEF PromoteScope, PromoteForBroker
<1>6. CASE Prepare(b)
  BY <1>0, <1>1, <1>6 DEF Prepare, PrepareOperation, SweepAll
<1>7. CASE Commit(b)
  BY <1>0, <1>1, <1>7, SweptBrokerFacts DEF Commit, CommitOperation
<1>8. CASE Close(b)
  BY <1>0, <1>2, <1>8 DEF Close, StopBroker, brokerVars
<1>9. CASE AcquireLock(b) \/ FailStart(b) \/ Crash(b) \/ ReadPromoted(b) \/ Refuse(b)
           \/ (\E m \in 0..MaxContents : Mutate(b, m)) \/ Rollback(b) \/ ReportRollback(b)
  BY <1>0, <1>2, <1>9 DEF AcquireLock, FailStart, Crash, ReadPromoted, Refuse, Mutate, Rollback,
                          ReportRollback, FailOperation, brokerVars
<1> QED
  BY <1>3, <1>4, <1>5, <1>6, <1>7, <1>8, <1>9 DEF BrokerStep

(* So does everything that is not a step of a broker.                      *)
LEMMA EnvironmentKeeps ==
    ASSUME RuntimeTypeInv, NEW c \in Brokers,
           \/ UNCHANGED allVars \/ RegistryStep
           \/ \E w \in Roots, base \in Bases : ResetWorktree(w, base)
    PROVE  SameRow(c) /\ handler'[c] = handler[c]
<1>0. broker \in [Brokers -> BrokerRow]
  BY DEF RuntimeTypeInv, RuntimeTypeOK, BrokerTypeOK, BrokerRow
<1>1. ASSUME UNCHANGED broker PROVE SameRow(c)
  BY <1>1 DEF SameRow
<1>2. CASE UNCHANGED allVars
  BY <1>1, <1>2 DEF allVars, brokerVars, runtimeVars
<1>3. CASE \E w \in Roots, base \in Bases : ResetWorktree(w, base)
  BY <1>1, <1>3 DEF ResetWorktree, brokerVars
<1>4. CASE RegistryStep
  <2>1. ASSUME FenceBrokers PROVE SameRow(c)
    <3> DEFINE fenced == UNION { ActiveBrokers(i) :
                                   i \in { j \in Intents : st[j] # "STALE" /\ st'[j] = "STALE" } }
    <3>1. c \in fenced => broker[c].state = "active"
      BY DEF ActiveBrokers
    <3>2. broker'[c] = IF c \in fenced THEN [broker[c] EXCEPT !.state = "fenced"] ELSE broker[c]
      BY <2>1 DEF FenceBrokers
    <3> HIDE DEF fenced
    <3> QED
      BY <1>0, <3>1, <3>2 DEF SameRow, BrokerRow
  <2>2. ASSUME NEW i \in Intents, GovernedStep(i) PROVE FenceBrokers \/ UNCHANGED broker
    BY <2>2 DEF GovernedStep, brokerVars
  <2>3. UNCHANGED runtimeVars /\ (FenceBrokers \/ UNCHANGED broker)
    BY <1>4, <2>2 DEF RegistryStep, BrokerTick, brokerVars
  <2> QED
    BY <1>1, <2>1, <2>3 DEF runtimeVars
<1> QED
  BY <1>2, <1>3, <1>4

(* Phases in which the content a handler has seen is the content of the    *)
(* version its instance is bound to, as long as that is the present one.   *)
Bound == {"validated", "scoped", "prepared", "mutated"}

Registered == InFlight \cup {"idle"}

(* An instance is bound to a version of a known intent, no newer than the  *)
(* present one; if it is the present one, the handler has seen the present *)
(* content.                                                                *)
BindingOf(c) ==
    LET i == Serves[c] IN
    /\ broker[c].state # "none" => st[i] # Absent /\ broker[c].cv <= cv[i]
    /\ Phase(c) \in Registered => broker[c].state # "none"
    /\ Phase(c) \in Bound /\ broker[c].cv = cv[i] => handler[c].seen = pl[i]

BindingInv == \A c \in Brokers : BindingOf(c)

(* A handler that stays bound keeps what it has seen, and no handler gets  *)
(* bound: then only the intent moves, and its content with its version.    *)
LEMMA BindingKept ==
    ASSUME RuntimeTypeInv, [Next]_vars, NEW c \in Brokers, BindingOf(c),
           broker'[c].state = "none" <=> broker[c].state = "none",
           broker'[c].cv = broker[c].cv,
           Phase(c)' \in Registered => Phase(c) \in Registered,
           Phase(c)' \in Bound => Phase(c) \in Bound /\ handler'[c].seen = handler[c].seen
    PROVE  BindingOf(c)'
<1> DEFINE i == Serves[c]
<1>1. /\ i \in Intents /\ cv[i] \in Nat /\ broker[c].cv \in Nat /\ TypeOK /\ cv'[i] \in Nat
  BY BrokerAssumption, TypeStep DEF RuntimeTypeInv, RuntimeTypeOK, TypeOK, BrokerTypeOK
<1>2. st[i] # Absent => /\ st'[i] # Absent
                        /\ (pl'[i] = pl[i] /\ cv'[i] = cv[i]) \/ cv'[i] > cv[i]
  BY <1>1, VersionedContent
<1>3. Bound \subseteq Registered
  BY DEF Bound, Registered, InFlight
<1> QED
  BY <1>1, <1>2, <1>3 DEF BindingOf

(* Every step keeps the bindings. *)
LEMMA BindingStep ==
    ASSUME RuntimeTypeInv, BindingInv, [RuntimeNext]_allVars
    PROVE  BindingInv'
<1> SUFFICES ASSUME NEW c \in Brokers PROVE BindingOf(c)'
  BY DEF BindingInv
<1>0. /\ BindingOf(c) /\ RequestsKnown /\ TypeOK /\ BrokerTypeOK
      /\ handler \in [Brokers -> HandlerRow] /\ broker \in [Brokers -> BrokerRow]
      /\ Serves[c] \in Intents
      /\ Bound \subseteq Registered
  BY BrokerAssumption DEF BindingInv, RuntimeTypeInv, RuntimeTypeOK, BrokerTypeOK, HandlerRow, BrokerRow,
                          Bound, Registered, InFlight
<1>1. [Next]_vars
  BY <1>0, RegistryStepOf
<1>2. ASSUME SameRow(c), handler'[c] = handler[c] PROVE BindingOf(c)'
  BY <1>0, <1>1, <1>2, BindingKept DEF SameRow, Phase
<1>3. ASSUME UNCHANGED allVars \/ RegistryStep
             \/ \E w \in Roots, base \in Bases : ResetWorktree(w, base)
      PROVE  BindingOf(c)'
  BY <1>2, <1>3, EnvironmentKeeps
<1>4. ASSUME NEW b \in Brokers \ {c}, BrokerStep(b) PROVE BindingOf(c)'
  BY <1>2, <1>4, OthersKept
<1>5. ASSUME SameRow(c), handler'[c].phase \notin Bound,
             handler'[c].phase \in Registered => handler[c].phase \in Registered
      PROVE  BindingOf(c)'
  BY <1>0, <1>1, <1>5, BindingKept DEF SameRow, Phase
<1>6. ASSUME SameRow(c), handler[c].phase \in Bound, handler'[c].seen = handler[c].seen
      PROVE  BindingOf(c)'
  BY <1>0, <1>1, <1>6, BindingKept DEF SameRow, Phase
<1>7. Idle("idle").phase = "idle" /\ Idle("dead").phase = "dead"
  BY DEF Idle
<1>8. CASE BrokerStep(c)
  <2>1. CASE AcquireLock(c) \/ FailStart(c) \/ Crash(c) \/ Close(c)
    <3>1. SameRow(c)
      BY <1>0, <2>1 DEF AcquireLock, FailStart, Crash, Close, StopBroker, SameRow, brokerVars, BrokerRow
    <3>2. CASE Close(c)
      BY <1>2, <2>1, <3>1, <3>2 DEF Close
    <3>3. CASE ~Close(c)
      <4>1. handler'[c].phase \in {"starting", "off", "dead"}
        BY <1>0, <1>7, <2>1, <3>3 DEF AcquireLock, FailStart, Crash, HandlerRow
      <4> QED
        BY <1>5, <3>1, <4>1 DEF Bound, Registered, InFlight
    <3> QED
      BY <3>2, <3>3
  <2>2. CASE FinishStart(c)
    <3>1. /\ broker'[c].state = "active" /\ broker'[c].cv = cv[Serves[c]]
          /\ handler'[c].phase = "idle"
      BY <1>0, <2>2, SweptBrokerFacts DEF FinishStart, RegisterBroker, HandlerRow
    <3>2. /\ st'[Serves[c]] # Absent /\ cv' = cv /\ cv[Serves[c]] \in Nat
      BY <1>0, <2>2 DEF FinishStart, RegisterBroker, SweepOnly, Live, Absent, TypeOK
    <3> QED
      BY <3>1, <3>2 DEF BindingOf, Phase, Bound
  <2>3. CASE \E m \in Requests : BeginRequest(c, m)
    <3>1. /\ broker' = SweptBroker /\ UNCHANGED <<pl, cv>> /\ handler'[c].seen = pl[Serves[c]]
          /\ Phase(c) = "idle"
      BY <1>0, <2>3 DEF BeginRequest, ValidateBroker, SweepOnly, HandlerRow
    <3>2. SameRow(c)
      BY <1>0, <3>1, SweptBrokerFacts DEF SameRow
    <3>3. broker[c].state # "none" /\ st[Serves[c]] # Absent
      BY <1>0, <3>1 DEF BindingOf, Registered
    <3>4. st'[Serves[c]] # Absent
      BY <1>0, <1>1, <3>3, VersionedContent
    <3> QED
      BY <1>0, <3>1, <3>2, <3>3, <3>4 DEF SameRow, BindingOf
  <2>4. CASE PromoteScope(c)
    <3>1. Phase(c) \in Bound /\ broker[c].state # "none" /\ st[Serves[c]] # Absent
      BY <1>0, <2>4 DEF PromoteScope, Phase, Bound, BindingOf, Registered
    <3>2. CASE cv'[Serves[c]] # cv[Serves[c]]
      <4>1. /\ handler'[c].phase = "promoted"
            /\ broker'[c].cv = cv'[Serves[c]] /\ broker'[c].state = broker[c].state
        BY <1>0, <2>4, <3>2 DEF PromoteScope, PromoteForBroker, HandlerRow, BrokerRow
      <4>2. st'[Serves[c]] # Absent /\ cv'[Serves[c]] \in Nat
        BY <1>0, <1>1, <3>1, VersionedContent, TypeStep DEF TypeOK
      <4> QED
        BY <3>1, <4>1, <4>2 DEF BindingOf, Phase, Bound
    <3>3. CASE cv'[Serves[c]] = cv[Serves[c]]
      <4>1. handler'[c] = Idle("idle") /\ broker' = broker
        BY <1>0, <2>4, <3>3 DEF PromoteScope, PromoteForBroker
      <4> QED
        BY <1>0, <1>5, <1>7, <3>1, <4>1 DEF SameRow, Bound, Phase
    <3> QED
      BY <3>2, <3>3
  <2>5. CASE ReadPromoted(c)
    <3>1. /\ UNCHANGED <<vars, brokerVars>> /\ handler'[c].seen = pl[Serves[c]]
          /\ Phase(c) \in Registered
      BY <1>0, <2>5 DEF ReadPromoted, HandlerRow, Registered, InFlight
    <3> QED
      BY <1>0, <3>1 DEF BindingOf, vars, brokerVars
  <2>6. CASE Refuse(c) \/ Commit(c) \/ ReportRollback(c)
    <3>1. handler'[c] = Idle("idle") /\ handler[c].phase \in Registered
      BY <1>0, <2>6 DEF Refuse, Commit, ReportRollback, Registered, InFlight, Phase
    <3>2. CASE Commit(c)
      <4>1. broker' = [SweptBroker EXCEPT ![c].tree = handler[c].post]
        BY <3>2 DEF Commit, CommitOperation
      <4>2. /\ broker'[c].cv = broker[c].cv
            /\ broker'[c].state = "none" <=> broker[c].state = "none"
        BY <1>0, <4>1, SweptBrokerFacts DEF BrokerRow
      <4> QED
        BY <1>0, <1>1, <1>7, <3>1, <4>2, BindingKept DEF Phase, Bound
    <3>3. CASE Refuse(c) \/ ReportRollback(c)
      <4>1. SameRow(c)
        BY <3>3 DEF Refuse, ReportRollback, FailOperation, SameRow, brokerVars
      <4> QED
        BY <1>5, <1>7, <3>1, <4>1 DEF Bound
    <3> QED
      BY <2>6, <3>2, <3>3
  <2>7. CASE Prepare(c) \/ (\E m \in 0..MaxContents : Mutate(c, m))
    <3>1. handler[c].phase \in Bound /\ handler'[c].seen = handler[c].seen
      <4>1. CASE Prepare(c)
        BY <1>0, <4>1 DEF Prepare, Phase, Bound, HandlerRow
      <4>2. ASSUME NEW m \in 0..MaxContents, Mutate(c, m)
            PROVE  handler[c].phase \in Bound /\ handler'[c].seen = handler[c].seen
        BY <1>0, <4>2 DEF Mutate, Phase, Bound, HandlerRow
      <4> QED
        BY <2>7, <4>1, <4>2
    <3>2. broker' = SweptBroker \/ broker' = broker
      BY <2>7 DEF Prepare, PrepareOperation, SweepAll, Mutate, brokerVars
    <3>3. SameRow(c)
      BY <1>0, <3>2, SweptBrokerFacts DEF SameRow
    <3> QED
      BY <1>6, <3>1, <3>3
  <2>8. CASE Rollback(c)
    <3>1. /\ handler'[c].phase = "restored" /\ handler[c].phase \in Registered
          /\ SameRow(c)
      BY <1>0, <2>8 DEF Rollback, Phase, Registered, InFlight, HandlerRow, SameRow, brokerVars
    <3> QED
      BY <1>5, <3>1 DEF Bound
  <2> QED
    BY <1>8, <2>1, <2>2, <2>3, <2>4, <2>5, <2>6, <2>7, <2>8 DEF BrokerStep
<1> QED
  BY <1>3, <1>4, <1>8 DEF RuntimeNext

AuthorizedCommit ==
    \A b \in Brokers :
         op[b].state = "pending" /\ op'[b].state = "committed" =>
            /\ st'[Serves[b]] \in Live
            /\ pl'[Serves[b]] = handler[b].seen
            /\ counter'[RootOf[b]] = broker[b].token

(* Only the commit of an instance makes its operation committed. *)
LEMMA CommittedByCommit ==
    ASSUME RuntimeTypeInv, [RuntimeNext]_allVars, NEW c \in Brokers,
           op[c].state = "pending", op'[c].state = "committed"
    PROVE  Commit(c)
<1>0. op \in [Brokers -> OpRow]
  BY DEF RuntimeTypeInv, RuntimeTypeOK, BrokerTypeOK, OpRow
<1>1. ASSUME NEW b \in Brokers, BrokerStep(b) PROVE Commit(c)
  <2>1. CASE FinishStart(b) \/ \E m \in Requests : BeginRequest(b, m)
    BY <2>1 DEF FinishStart, RegisterBroker, BeginRequest, ValidateBroker
  <2>2. CASE PromoteScope(b)
    BY <2>2 DEF PromoteScope, PromoteForBroker
  <2>3. CASE Prepare(b)
    BY <1>0, <2>3 DEF Prepare, PrepareOperation, OpRow
  <2>4. CASE Commit(b)
    <3>1. op' = [op EXCEPT ![b].state = "committed"]
      BY <2>4 DEF Commit, CommitOperation
    <3>2. c = b
      BY <1>0, <3>1
    <3> QED
      BY <2>4, <3>2
  <2>5. CASE Close(b)
    BY <2>5 DEF Close, StopBroker, brokerVars
  <2>6. CASE ReportRollback(b)
    BY <1>0, <2>6 DEF ReportRollback, FailOperation, OpRow
  <2>7. CASE AcquireLock(b) \/ FailStart(b) \/ Crash(b) \/ ReadPromoted(b) \/ Refuse(b)
             \/ (\E m \in 0..MaxContents : Mutate(b, m)) \/ Rollback(b)
    BY <2>7 DEF AcquireLock, FailStart, Crash, ReadPromoted, Refuse, Mutate, Rollback, brokerVars
  <2> QED
    BY <1>1, <2>1, <2>2, <2>3, <2>4, <2>5, <2>6, <2>7 DEF BrokerStep
<1>2. ASSUME RegistryStep PROVE FALSE
  <2>1. CASE UNCHANGED op
    BY <2>1
  <2>2. CASE FenceBrokers
    BY <1>0, <2>2 DEF FenceBrokers, OpRow
  <2> QED
    BY <1>2, <2>1, <2>2 DEF RegistryStep, GovernedStep, BrokerTick, brokerVars
<1>3. CASE UNCHANGED allVars \/ \E w \in Roots, base \in Bases : ResetWorktree(w, base)
  <2>1. op' = op
    BY <1>3 DEF ResetWorktree, allVars, brokerVars
  <2> QED
    BY <2>1
<1> QED
  BY <1>1, <1>2, <1>3 DEF RuntimeNext

(* A commit finds the instance valid, hence bound to the present content   *)
(* and in possession of the newest token.                                  *)
LEMMA CommitStep ==
    ASSUME RuntimeTypeInv, AuthorityInv, BindingInv, [RuntimeNext]_allVars
    PROVE  AuthorizedCommit
<1> SUFFICES ASSUME NEW c \in Brokers, op[c].state = "pending", op'[c].state = "committed"
             PROVE  /\ st'[Serves[c]] \in Live
                    /\ pl'[Serves[c]] = handler[c].seen
                    /\ counter'[RootOf[c]] = broker[c].token
  BY DEF AuthorizedCommit
<1>3. Commit(c)
  BY CommittedByCommit
<1>4. /\ Phase(c) = "mutated" /\ ValidBroker(c)
      /\ SweepOnly(0) /\ UNCHANGED counter
  BY <1>3 DEF Commit, CommitOperation, CanCommit
<1>5. st'[Serves[c]] \in Live /\ pl' = pl
  BY <1>4 DEF ValidBroker, SweepOnly
<1>6. pl[Serves[c]] = handler[c].seen
  BY <1>4 DEF ValidBroker, BindingInv, BindingOf, Bound
<1>7. counter[RootOf[c]] = broker[c].token
  BY <1>4 DEF ValidBroker, AuthorityInv, WriterAuthority
<1> QED
  BY <1>4, <1>5, <1>6, <1>7

(* No mutation is committed but under the authority that allowed it, for   *)
(* any number of brokers and intents: what was amended, promoted for       *)
(* another instance, fenced or taken over in between is refused.           *)
THEOREM CommitsAreAuthorized == RuntimeSpec => CommittedUnderAuthority
<1>1. RuntimeInit => AuthorityInv /\ BindingInv
  BY DEF RuntimeInit, BrokerInit, AuthorityInv, WriterAuthority, LeasesOwnRoot, NoLease,
         BindingInv, BindingOf, Phase, Idle, Registered, InFlight, Bound
<1>2. RuntimeTypeInv /\ AuthorityInv /\ BindingInv /\ [RuntimeNext]_allVars
        => AuthorityInv' /\ BindingInv'
  BY AuthorityStep, BindingStep
<1>3. RuntimeTypeInv /\ AuthorityInv /\ BindingInv /\ [RuntimeNext]_allVars
        => [AuthorizedCommit]_allVars
  BY CommitStep
<1>4. RuntimeSpec => [][AuthorizedCommit]_allVars
  BY <1>1, <1>2, <1>3, RuntimeTypeCorrect, PTL DEF RuntimeSpec
<1> QED
  BY <1>4 DEF CommittedUnderAuthority, AuthorizedCommit

-----------------------------------------------------------------------------
(* What is left in a worktree.                                             *)

(* The process holds its worktree and nobody's request runs beside it.     *)
Held(c) == lock[RootOf[c]] = c /\ c \notin disturbed

(* Behind TreeProvenance: an instance has no row before its process is up, *)
(* no request of another process runs in a worktree held undisturbed, and  *)
(* in such a worktree a prepared handler has saved the content it found,   *)
(* and between the mutation and its end the saved content is the one of    *)
(* the expected tree and the tree is the one the commit will record.       *)
ProvenanceOf(c) ==
    /\ Phase(c) \in {"off", "starting"} => broker[c].state = "none" /\ ~serving[c]
    /\ Held(c) =>
         /\ \A b \in Brokers \ {c} : RootOf[b] = RootOf[c] => Phase(b) \notin InFlight
         /\ broker[c].state # "none" /\ Phase(c) # "mutated" => Tree(c) = broker[c].tree
         /\ Phase(c) = "prepared" => handler[c].backup = Tree(c)[2]
         /\ Phase(c) = "mutated" => /\ broker[c].state # "none"
                                    /\ handler[c].post = Tree(c)
                                    /\ broker[c].tree = <<Tree(c)[1], handler[c].backup>>

ProvenanceInv == \A c \in Brokers : ProvenanceOf(c)

(* A worktree held undisturbed after a step has no request of another      *)
(* process, and was held undisturbed before unless its lock is new.        *)
LEMMA HeldAlone ==
    ASSUME NEW c \in Brokers, ProvenanceOf(c),
           Disturb \/ UNCHANGED <<lock, handler, disturbed>>, Held(c)'
    PROVE  /\ \A b \in Brokers \ {c} : RootOf[b] = RootOf[c] => Phase(b)' \notin InFlight
           /\ Held(c) \/ lock[RootOf[c]] # c
<1>1. CASE Disturb
  BY <1>1 DEF Held, Disturb, Phase
<1>2. CASE UNCHANGED <<lock, handler, disturbed>>
  BY <1>2 DEF ProvenanceOf, Held, Phase
<1> QED
  BY <1>1, <1>2

(* A process whose row and handler stay sees nothing of a step that leaves *)
(* the tree it holds.                                                      *)
LEMMA ProvenanceKept ==
    ASSUME NEW c \in Brokers, ProvenanceOf(c), SameRow(c), handler'[c] = handler[c],
           serving'[c] => serving[c],
           Disturb \/ UNCHANGED <<lock, handler, disturbed>>,
           lock'[RootOf[c]] = c => lock[RootOf[c]] = c,
           Held(c) => tree'[RootOf[c]] = tree[RootOf[c]]
    PROVE  ProvenanceOf(c)'
<1>1. Phase(c)' = Phase(c)
  BY DEF Phase
<1>2. CASE Held(c)'
  <2>1. Held(c)
    BY <1>2, HeldAlone DEF Held
  <2>2. Tree(c)' = Tree(c)
    BY <2>1 DEF Tree
  <2> QED
    BY <1>1, <1>2, <2>1, <2>2, HeldAlone DEF ProvenanceOf, SameRow
<1>3. CASE ~Held(c)'
  BY <1>1, <1>3 DEF ProvenanceOf, SameRow
<1> QED
  BY <1>2, <1>3

(* A step of one process leaves the locks of others, and the trees they    *)
(* hold undisturbed: it writes a tree only while it carries a request.     *)
LEMMA OthersUndisturbed ==
    ASSUME RuntimeTypeInv, NEW b \in Brokers, BrokerStep(b),
           NEW c \in Brokers \ {b}, ProvenanceOf(c)
    PROVE  /\ serving'[c] = serving[c]
           /\ lock'[RootOf[c]] = c => lock[RootOf[c]] = c
           /\ Held(c) => tree'[RootOf[c]] = tree[RootOf[c]]
<1>0. /\ lock \in [Roots -> Brokers \cup {NoBroker}] /\ serving \in [Brokers -> BOOLEAN]
      /\ tree \in [Roots -> Trees]
      /\ RootOf[b] \in Roots /\ RootOf[c] \in Roots /\ NoBroker \notin Brokers
  BY BrokerAssumption DEF RuntimeTypeInv, RuntimeTypeOK
<1>1. CASE AcquireLock(b) \/ FinishStart(b)
  BY <1>0, <1>1 DEF AcquireLock, FinishStart
<1>2. CASE FailStart(b) \/ Close(b) \/ Crash(b)
  BY <1>0, <1>2 DEF FailStart, Close, Crash, ReleasedLock
<1>3. CASE \/ \E m \in Requests : BeginRequest(b, m)
           \/ PromoteScope(b) \/ ReadPromoted(b) \/ Refuse(b) \/ Prepare(b)
           \/ Commit(b) \/ ReportRollback(b)
  BY <1>3 DEF BeginRequest, PromoteScope, ReadPromoted, Refuse, Prepare, Commit, ReportRollback
<1>4. CASE (\E m \in 0..MaxContents : Mutate(b, m)) \/ Rollback(b)
  <2>1. UNCHANGED <<lock, serving>> /\ Phase(b) \in InFlight
    BY <1>4 DEF Mutate, Rollback, InFlight
  <2>2. Held(c) => RootOf[b] # RootOf[c]
    BY <2>1 DEF ProvenanceOf
  <2>3. \A v \in Roots \ {RootOf[b]} : tree'[v] = tree[v]
    BY <1>0, <1>4 DEF Mutate, Rollback
  <2> QED
    BY <1>0, <2>1, <2>2, <2>3
<1> QED
  BY <1>1, <1>2, <1>3, <1>4 DEF BrokerStep

(* Every step keeps the provenance of every worktree. *)
LEMMA ProvenanceStep ==
    ASSUME RuntimeTypeInv, BindingInv, ProvenanceInv, [RuntimeNext]_allVars,
           Disturb \/ UNCHANGED <<lock, handler, disturbed>>
    PROVE  ProvenanceInv'
<1> SUFFICES ASSUME NEW c \in Brokers PROVE ProvenanceOf(c)'
  BY DEF ProvenanceInv
<1> DEFINE w == RootOf[c]
<1>0. /\ lock \in [Roots -> Brokers \cup {NoBroker}] /\ serving \in [Brokers -> BOOLEAN]
      /\ tree \in [Roots -> Trees] /\ handler \in [Brokers -> HandlerRow]
      /\ broker \in [Brokers -> BrokerRow] /\ BrokerTypeOK
      /\ w \in Roots /\ NoBroker \notin Brokers
      /\ ProvenanceOf(c)
  BY BrokerAssumption
     DEF RuntimeTypeInv, RuntimeTypeOK, BrokerTypeOK, HandlerRow, BrokerRow, ProvenanceInv
<1>1. Tree(c) \in Trees /\ handler[c].backup \in Nat
  BY <1>0 DEF Tree, HandlerRow
<1>2. CASE UNCHANGED allVars \/ RegistryStep
  BY <1>0, <1>2, EnvironmentKeeps, ProvenanceKept DEF allVars, runtimeVars, RegistryStep
<1>3. CASE \E v \in Roots, base \in Bases : ResetWorktree(v, base)
  <2>1. /\ UNCHANGED <<lock, serving>>
        /\ Held(c) => tree'[w] = tree[w]
    BY <1>0, <1>3 DEF ResetWorktree, Held
  <2> QED
    BY <1>0, <1>3, <2>1, EnvironmentKeeps, ProvenanceKept
<1>4. ASSUME NEW b \in Brokers \ {c}, BrokerStep(b) PROVE ProvenanceOf(c)'
  BY <1>0, <1>4, OthersKept, OthersUndisturbed, ProvenanceKept
<1>5. Idle("idle").phase = "idle" /\ Idle("dead").phase = "dead"
  BY DEF Idle
<1>6. ReleasedLock(c)[w] # c
  BY <1>0 DEF ReleasedLock
<1>a. ASSUME lock'[w] = lock[w], Held(c)'
      PROVE  /\ Held(c)
             /\ \A b \in Brokers \ {c} : RootOf[b] = RootOf[c] => Phase(b)' \notin InFlight
  BY <1>0, <1>a, HeldAlone DEF Held
<1>b. ASSUME lock'[w] # c, handler'[c].phase \in {"off", "starting"} => broker'[c].state = "none" /\ ~serving'[c]
      PROVE  ProvenanceOf(c)'
  BY <1>b DEF ProvenanceOf, Held, Phase
<1>7. ASSUME broker'[c].state = "none" <=> broker[c].state = "none",
             broker'[c].tree = broker[c].tree, UNCHANGED <<lock, serving, tree>>,
             handler[c].phase \notin {"off", "starting", "mutated"},
             handler'[c].phase \in {"idle", "validated", "promoted", "scoped"}
      PROVE  ProvenanceOf(c)'
  BY <1>0, <1>7, <1>a DEF ProvenanceOf, Phase, Tree
<1>8. CASE BrokerStep(c)
  <2>1. CASE AcquireLock(c)
    <3>1. /\ handler'[c].phase = "starting" /\ UNCHANGED <<broker, serving>>
          /\ broker[c].state = "none" /\ ~serving[c]
      BY <1>0, <2>1 DEF AcquireLock, brokerVars, ProvenanceOf, HandlerRow
    <3>2. Held(c)' => \A b \in Brokers \ {c} : RootOf[b] = RootOf[c] => Phase(b)' \notin InFlight
      BY <1>0, HeldAlone
    <3> QED
      BY <3>1, <3>2 DEF ProvenanceOf, Phase
  <2>2. CASE FinishStart(c)
    <3>1. /\ handler'[c].phase = "idle" /\ UNCHANGED <<lock, tree>>
          /\ broker'[c].tree = Tree(c)
      BY <1>0, <2>2, SweptBrokerFacts DEF FinishStart, RegisterBroker, HandlerRow
    <3> QED
      BY <1>a, <3>1 DEF ProvenanceOf, Phase, Tree
  <2>3. CASE FailStart(c)
    <3>1. /\ handler'[c].phase = "off" /\ lock'[w] # c /\ UNCHANGED <<broker, serving>>
          /\ broker[c].state = "none" /\ ~serving[c]
      BY <1>0, <1>6, <2>3 DEF FailStart, brokerVars, ProvenanceOf, HandlerRow
    <3> QED
      BY <1>b, <3>1
  <2>4. CASE Close(c)
    <3>1. lock'[w] # c /\ handler' = handler /\ serving[c]
      BY <1>0, <1>6, <2>4 DEF Close
    <3>2. handler'[c].phase \notin {"off", "starting"}
      BY <1>0, <3>1 DEF ProvenanceOf, Phase
    <3> QED
      BY <1>b, <3>1, <3>2
  <2>5. CASE Crash(c)
    <3>1. handler'[c].phase = "dead" /\ lock'[w] # c
      BY <1>0, <1>5, <1>6, <2>5 DEF Crash
    <3> QED
      BY <1>b, <3>1
  <2>6. CASE \E m \in Requests : BeginRequest(c, m)
    <3>1. /\ broker' = SweptBroker /\ UNCHANGED <<lock, serving, tree>>
          /\ handler[c].phase = "idle" /\ handler'[c].phase = "validated"
      BY <1>0, <2>6 DEF BeginRequest, ValidateBroker, Phase, HandlerRow
    <3>2. SameRow(c)
      BY <1>0, <3>1, SweptBrokerFacts DEF SameRow
    <3> QED
      BY <1>7, <3>1, <3>2 DEF SameRow
  <2>7. CASE PromoteScope(c) \/ ReadPromoted(c) \/ Refuse(c) \/ ReportRollback(c)
    <3>1. handler'[c].phase \in {"idle", "promoted", "scoped"}
      BY <1>0, <1>5, <2>7 DEF PromoteScope, ReadPromoted, Refuse, ReportRollback, HandlerRow
    <3>2. handler[c].phase \in {"validated", "promoted", "scoped", "restored"}
      BY <2>7 DEF PromoteScope, ReadPromoted, Refuse, ReportRollback, Phase
    <3>3. /\ broker'[c].state = broker[c].state /\ broker'[c].tree = broker[c].tree
          /\ UNCHANGED <<lock, serving, tree>>
      BY <1>0, <2>7 DEF PromoteScope, PromoteForBroker, ReadPromoted, Refuse, ReportRollback,
                        FailOperation, brokerVars, BrokerRow
    <3> QED
      BY <1>7, <3>1, <3>2, <3>3
  <2>8. CASE Prepare(c)
    <3>1. /\ broker' = SweptBroker /\ UNCHANGED <<lock, serving, tree>>
          /\ handler[c].phase \in {"validated", "scoped"}
          /\ handler'[c].phase = "prepared" /\ handler'[c].backup = Tree(c)[2]
      BY <1>0, <2>8 DEF Prepare, PrepareOperation, SweepAll, Phase, HandlerRow
    <3>2. SameRow(c)
      BY <1>0, <3>1, SweptBrokerFacts DEF SameRow
    <3> QED
      BY <1>0, <1>a, <3>1, <3>2 DEF ProvenanceOf, Phase, Tree, SameRow
  <2>9. ASSUME NEW m \in 0..MaxContents, Mutate(c, m) PROVE ProvenanceOf(c)'
    <3>1. /\ UNCHANGED <<broker, lock, serving>> /\ Phase(c) = "prepared"
          /\ handler'[c].phase = "mutated" /\ handler'[c].post = <<Tree(c)[1], m>>
          /\ handler'[c].backup = handler[c].backup
      BY <1>0, <2>9 DEF Mutate, brokerVars, HandlerRow
    <3>2. tree'[w] = <<Tree(c)[1], m>>
      <4>1. m \in Nat
        BY RuntimeAssumption
      <4>2. tree'[w] = [Tree(c) EXCEPT ![2] = m]
        BY <1>0, <2>9 DEF Mutate, Tree
      <4> QED
        BY <1>1, <4>1, <4>2, TreeFacts
    <3>3. broker[c].state # "none"
      BY <1>0, <3>1 DEF InFlight, BindingInv, BindingOf, Registered
    <3>4. ASSUME Held(c)' PROVE broker[c].tree = <<tree'[w][1], handler'[c].backup>>
      <4>1. Tree(c) = broker[c].tree /\ handler[c].backup = Tree(c)[2]
        BY <1>0, <1>a, <3>1, <3>3, <3>4 DEF ProvenanceOf
      <4>2. tree'[w][1] = Tree(c)[1]
        BY <3>2
      <4>3. Tree(c) = <<Tree(c)[1], Tree(c)[2]>>
        BY <1>1 DEF Trees
      <4> QED
        BY <3>1, <4>1, <4>2, <4>3
    <3> QED
      BY <1>a, <3>1, <3>2, <3>3, <3>4 DEF ProvenanceOf, Phase, Tree
  <2>10. CASE Commit(c)
    <3>1. /\ broker'[c].tree = handler[c].post /\ UNCHANGED <<lock, serving, tree>>
          /\ Phase(c) = "mutated" /\ handler'[c].phase = "idle"
      BY <1>0, <1>5, <2>10, SweptBrokerFacts DEF Commit, CommitOperation, BrokerRow
    <3>2. Held(c)' => broker'[c].tree = Tree(c)
      BY <1>0, <1>a, <3>1 DEF ProvenanceOf
    <3> QED
      BY <1>a, <3>1, <3>2 DEF ProvenanceOf, Phase, Tree
  <2>11. CASE Rollback(c)
    <3>1. /\ UNCHANGED <<broker, lock, serving>> /\ Phase(c) = "mutated"
          /\ handler'[c].phase = "restored"
      BY <1>0, <2>11 DEF Rollback, brokerVars, HandlerRow
    <3>2. tree'[w] = <<Tree(c)[1], handler[c].backup>>
      <4>1. tree'[w] = [Tree(c) EXCEPT ![2] = handler[c].backup]
        BY <1>0, <2>11 DEF Rollback, Tree
      <4> QED
        BY <1>1, <4>1, TreeFacts
    <3>3. Held(c)' => tree'[w] = broker[c].tree
      BY <1>0, <1>a, <3>1, <3>2 DEF ProvenanceOf
    <3> QED
      BY <1>a, <3>1, <3>3 DEF ProvenanceOf, Phase, Tree
  <2> QED
    BY <1>8, <2>1, <2>2, <2>3, <2>4, <2>5, <2>6, <2>7, <2>8, <2>9, <2>10, <2>11 DEF BrokerStep
<1> QED
  BY <1>2, <1>3, <1>4, <1>8 DEF RuntimeNext

(* The history restricts nothing: it is carried along by the steps of the  *)
(* runtime, and so by those of the registry.                               *)
LEMMA RuntimeHistoryStep ==
    ASSUME RequestsKnown, [RuntimeHistNext]_runtimeHistVars
    PROVE  /\ [RuntimeNext]_allVars
           /\ [HistNext]_histVars
           /\ Disturb \/ UNCHANGED <<lock, handler, disturbed>>
<1>1. CASE RuntimeHistNext
  <2>1. RuntimeNext /\ Overlook /\ Disturb
    BY <1>1 DEF RuntimeHistNext
  <2>2. CASE Next
    BY <2>1, <2>2 DEF HistNext
  <2>3. CASE UNCHANGED vars
    <3>1. UNCHANGED <<st, cv>>
      BY <2>3 DEF vars
    <3>2. LetThrough = {} /\ EndedInside = {}
      BY <3>1 DEF LetThrough, EndedInside
    <3> QED
      BY <2>1, <2>3, <3>2 DEF Overlook, histVars
  <2> QED
    BY <2>1, <2>2, <2>3, RegistryStepOf
<1>2. CASE UNCHANGED runtimeHistVars
  BY <1>2 DEF runtimeHistVars, allVars, runtimeVars, histVars
<1> QED
  BY <1>1, <1>2

LEMMA RuntimeHistoryRefines == RuntimeHistSpec => RuntimeSpec /\ HistSpec
<1>1. RuntimeHistInit => RuntimeInit /\ HistInit
  BY DEF RuntimeHistInit, RuntimeInit, HistInit
<1>2. [RuntimeHistNext]_runtimeHistVars => [RuntimeNext]_allVars
  BY DEF RuntimeHistNext, runtimeHistVars
<1>3. RuntimeTypeInv /\ [RuntimeHistNext]_runtimeHistVars => [HistNext]_histVars
  BY RuntimeHistoryStep DEF RuntimeTypeInv
<1> QED
  BY <1>1, <1>2, <1>3, RuntimeTypeCorrect, PTL DEF RuntimeHistSpec, RuntimeSpec, HistSpec

(* While a process holds its worktree, the tree is the one its committed   *)
(* operations lead to, except between a mutation and its end, for any      *)
(* number of brokers and roots and with a crash or a close between any two *)
(* steps: unless a request of another broker, left running by its close,   *)
(* has run beside this one.                                                *)
THEOREM RefusalsLeaveNoTrace == RuntimeHistSpec => []TreeProvenance
<1>1. RuntimeHistInit => BindingInv /\ ProvenanceInv
  <2> SUFFICES ASSUME RuntimeInit, NEW c \in Brokers
               PROVE  BindingOf(c) /\ ProvenanceOf(c)
    BY DEF BindingInv, ProvenanceInv, RuntimeHistInit
  <2>1. /\ Phase(c) = "off" /\ broker[c].state = "none" /\ ~serving[c]
        /\ lock[RootOf[c]] = NoBroker /\ NoBroker # c
    BY BrokerAssumption DEF RuntimeInit, BrokerInit, Phase, Idle
  <2> QED
    BY <2>1 DEF BindingOf, ProvenanceOf, Held, Registered, InFlight, Bound
<1>2. RuntimeTypeInv /\ BindingInv /\ ProvenanceInv /\ [RuntimeHistNext]_runtimeHistVars
        => BindingInv' /\ ProvenanceInv'
  BY RuntimeHistoryStep, BindingStep, ProvenanceStep DEF RuntimeTypeInv
<1>3. ProvenanceInv => TreeProvenance
  BY DEF ProvenanceInv, ProvenanceOf, Held, TreeProvenance
<1> QED
  BY <1>1, <1>2, <1>3, RuntimeHistoryRefines, RuntimeTypeCorrect, PTL DEF RuntimeHistSpec
-----------------------------------------------------------------------------
(* What the registry and the brokers promise together.                     *)

(* The lines of its file a request is about. *)
Touches(m, n) == m.region # NoRegion => m.region[1] <= n /\ n <= m.region[2]

(* A request that is authorised is about lines the intent declared to      *)
(* write.                                                                  *)
LEMMA AuthorizedWrites ==
    ASSUME NEW p \in ContentType \cup {NoPayload}, NEW m \in Requests, Authorized(p, m),
           NEW n \in Nat, Touches(m, n)
    PROVE  MayWrite(p, m.path, n)
<1>1. PICK o \in p.ops : /\ o.committed /\ o.access \in m.modes
                         /\ o.kind \in PathKinds /\ CoversPath(o.ident, m.path)
                         /\ RegionCovers(o.region, m.region)
  BY DEF Authorized
<1>2. /\ ~IsPattern(m.path) /\ "read" \notin m.modes /\ m.region \in Regions
      /\ o \in Operations
  BY <1>1, RequestAssumption, MutationAssumption, ContentFacts
<1>3. o \in CommittedWrites(p)
  BY <1>1, <1>2 DEF CommittedWrites, Mutating
<1>4. o.region # NoRegion => LineInterval(o.region)[1] <= n /\ n <= LineInterval(o.region)[2]
  <2> SUFFICES ASSUME o.region # NoRegion
               PROVE  LineInterval(o.region)[1] <= n /\ n <= LineInterval(o.region)[2]
    OBVIOUS
  <2>1. /\ m.region # NoRegion
        /\ ParsedRegion(o.region) # NoRegion
        /\ o.region[1] <= m.region[1] /\ m.region[2] <= o.region[2]
    BY <1>1 DEF RegionCovers
  <2>2. o.region[1] <= o.region[2]
    BY <2>1 DEF ParsedRegion
  <2>3. o.region \in Nat \X Nat /\ m.region \in Nat \X Nat
    BY <1>2, <2>1 DEF Regions, Operations
  <2> QED
    BY <2>1, <2>2, <2>3 DEF LineInterval, Touches
<1>5. Reaches(o, m.path, n)
  BY <1>1, <1>2, <1>4 DEF Reaches
<1> QED
  BY <1>3, <1>5 DEF MayWrite

(* From its preparation to its commit a mutation is one that the content   *)
(* the handler has seen authorises.                                        *)
Prepared == {"prepared", "mutated"}

Entitled(c) == Phase(c) \in Prepared => Authorized(handler[c].seen, handler[c].request)

EntitledInv == \A c \in Brokers : Entitled(c)

LEMMA EntitledStep ==
    ASSUME RuntimeTypeInv, EntitledInv, [RuntimeNext]_allVars
    PROVE  EntitledInv'
<1> SUFFICES ASSUME NEW c \in Brokers PROVE Entitled(c)'
  BY DEF EntitledInv
<1>0. Entitled(c) /\ handler \in [Brokers -> HandlerRow]
  BY DEF EntitledInv, RuntimeTypeInv, RuntimeTypeOK, HandlerRow
<1>1. ASSUME handler'[c].seen = handler[c].seen, handler'[c].request = handler[c].request,
             Phase(c)' \in Prepared => Phase(c) \in Prepared
      PROVE  Entitled(c)'
  BY <1>0, <1>1 DEF Entitled, Authorized
<1>2. ASSUME handler'[c].phase \notin Prepared PROVE Entitled(c)'
  BY <1>2 DEF Entitled, Phase
<1>3. ASSUME handler'[c] = handler[c] PROVE Entitled(c)'
  BY <1>1, <1>3 DEF Phase
<1>4. CASE \/ UNCHANGED allVars \/ RegistryStep
           \/ \E w \in Roots, base \in Bases : ResetWorktree(w, base)
  BY <1>3, <1>4, EnvironmentKeeps
<1>5. ASSUME NEW b \in Brokers \ {c}, BrokerStep(b) PROVE Entitled(c)'
  BY <1>3, <1>5, OthersKept
<1>6. CASE BrokerStep(c)
  <2>0. Idle("idle").phase = "idle" /\ Idle("dead").phase = "dead"
    BY DEF Idle
  <2>1. CASE Prepare(c)
    <3>1. /\ handler'[c].seen = handler[c].seen /\ handler'[c].request = handler[c].request
          /\ Authorized(handler[c].seen, handler[c].request)
      BY <1>0, <2>1 DEF Prepare, HandlerRow
    <3> QED
      BY <3>1 DEF Entitled, Authorized
  <2>2. ASSUME NEW m \in 0..MaxContents, Mutate(c, m) PROVE Entitled(c)'
    <3>1. /\ handler'[c].seen = handler[c].seen /\ handler'[c].request = handler[c].request
          /\ Phase(c) \in Prepared
      BY <1>0, <2>2 DEF Mutate, HandlerRow, Prepared
    <3> QED
      BY <1>1, <3>1
  <2>3. CASE Close(c)
    BY <1>3, <2>3 DEF Close
  <2>4. CASE \/ AcquireLock(c) \/ FinishStart(c) \/ FailStart(c) \/ Crash(c)
             \/ \E m \in Requests : BeginRequest(c, m)
    <3>1. handler'[c].phase \in {"starting", "idle", "off", "dead", "validated"}
      <4>1. CASE AcquireLock(c) \/ FailStart(c) \/ Crash(c)
        BY <1>0, <2>0, <4>1 DEF AcquireLock, FailStart, Crash, HandlerRow
      <4>2. CASE FinishStart(c)
        BY <1>0, <4>2 DEF FinishStart, HandlerRow
      <4>3. CASE \E m \in Requests : BeginRequest(c, m)
        BY <1>0, <4>3 DEF BeginRequest, HandlerRow
      <4> QED
        BY <2>4, <4>1, <4>2, <4>3
    <3> QED
      BY <1>2, <3>1 DEF Prepared
  <2>5. CASE PromoteScope(c) \/ ReadPromoted(c) \/ Refuse(c) \/ Commit(c) \/ Rollback(c)
             \/ ReportRollback(c)
    <3>1. handler'[c].phase \in {"promoted", "idle", "scoped", "restored"}
      BY <1>0, <2>0, <2>5 DEF PromoteScope, ReadPromoted, Refuse, Commit, Rollback, ReportRollback,
                              HandlerRow
    <3> QED
      BY <1>2, <3>1 DEF Prepared
  <2> QED
    BY <1>6, <2>1, <2>2, <2>3, <2>4, <2>5 DEF BrokerStep
<1> QED
  BY <1>4, <1>5, <1>6 DEF RuntimeNext

(* Whatever a broker commits, no other live intent may write: nothing that *)
(* became of the intent or of a rival between the authorisation of the     *)
(* request and its commit lets two of them write one line of one file.     *)
ExclusiveCommit ==
    \A b \in Brokers :
        op[b].state = "pending" /\ op'[b].state = "committed" =>
            \A j \in Intents \ {Serves[b]}, n \in Lines :
                /\ st'[j] \in Live /\ {Serves[b], j} \cap overlooked' = {}
                /\ handler[b].request.path \in Paths /\ Touches(handler[b].request, n)
                => ~MayWrite(pl'[j], handler[b].request.path, n)

CommitsExclude == [][ExclusiveCommit]_runtimeHistVars

(* Intents, brokers and handlers together: for any number of them and any  *)
(* crash or amendment between two steps, a mutation reaches a worktree for *)
(* good only if no other live intent may write what it touches, unless the *)
(* lease of one of the two ended between the clock reads of a transaction  *)
(* that let another intent in.                                             *)
THEOREM CommitsAreExclusive == RuntimeHistSpec => CommitsExclude
<1>1. RuntimeInit => AuthorityInv /\ BindingInv /\ EntitledInv
  BY DEF RuntimeInit, BrokerInit, AuthorityInv, WriterAuthority, LeasesOwnRoot, NoLease,
         BindingInv, BindingOf, EntitledInv, Entitled, Prepared, Phase, Idle, Registered,
         InFlight, Bound
<1>2. RuntimeTypeInv /\ AuthorityInv /\ BindingInv /\ EntitledInv /\ [RuntimeNext]_allVars
        => AuthorityInv' /\ BindingInv' /\ EntitledInv'
  BY AuthorityStep, BindingStep, EntitledStep
<1>3. ASSUME RuntimeTypeInv, AuthorityInv, BindingInv, EntitledInv, [RuntimeNext]_allVars,
             LiveWritersSeparated'
      PROVE  ExclusiveCommit
  <2> SUFFICES ASSUME NEW b \in Brokers, op[b].state = "pending", op'[b].state = "committed",
                      NEW j \in Intents \ {Serves[b]}, NEW n \in Lines, st'[j] \in Live,
                      {Serves[b], j} \cap overlooked' = {},
                      handler[b].request.path \in Paths, Touches(handler[b].request, n)
               PROVE  ~MayWrite(pl'[j], handler[b].request.path, n)
    BY DEF ExclusiveCommit
  <2> DEFINE i == Serves[b]
             m == handler[b].request
  <2>1. i \in Intents /\ st'[i] \in Live /\ pl'[i] = handler[b].seen
    BY <1>3, CommitStep, BrokerAssumption DEF AuthorizedCommit
  <2>2. Phase(b) = "mutated"
    BY <1>3, CommittedByCommit DEF Commit
  <2>3. m \in Requests /\ Authorized(handler[b].seen, m)
    BY <1>3, <2>2 DEF RuntimeTypeInv, RequestsKnown, InFlight, EntitledInv, Entitled, Prepared
  <2>4. handler[b].seen \in ContentType \cup {NoPayload} /\ n \in Nat
    BY <1>3, LinesAssumption DEF RuntimeTypeInv, RuntimeTypeOK
  <2>5. MayWrite(pl'[i], m.path, n)
    BY <2>1, <2>3, <2>4, AuthorizedWrites
  <2>6. ~WriteClash(pl'[i], pl'[j], Paths, Lines)
    BY <1>3, <2>1 DEF LiveWritersSeparated
  <2> QED
    BY <2>5, <2>6 DEF WriteClash
<1>4. RuntimeHistSpec => []LiveWritersSeparated
  BY RuntimeHistoryRefines, WritersStaySeparated
<1>5. RuntimeHistSpec => [](RuntimeTypeInv /\ AuthorityInv /\ BindingInv /\ EntitledInv)
  BY <1>1, <1>2, RuntimeHistoryRefines, RuntimeTypeCorrect, PTL DEF RuntimeSpec
<1>6. RuntimeHistSpec => [][ExclusiveCommit]_runtimeHistVars
  <2>1. [RuntimeHistNext]_runtimeHistVars => [RuntimeNext]_allVars
    BY DEF RuntimeHistNext, runtimeHistVars
  <2> QED
    BY <1>3, <1>4, <1>5, <2>1, PTL DEF RuntimeHistSpec
<1> QED
  BY <1>6 DEF CommitsExclude
=============================================================================
