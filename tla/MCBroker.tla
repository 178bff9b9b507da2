------------------------------- MODULE MCBroker -------------------------------
(***************************************************************************)
(* One worktree, two broker instances of one worker, and the producer of a *)
(* contract the worker reads.  The worker's file scope is contingent, so   *)
(* the first mutation promotes it.                                         *)
(***************************************************************************)
EXTENDS RuntimeHistory, TLC

CONSTANTS producer, worker, b1, b2, w1

Op(kind, ident, signature, subject, access, committed) ==
    [ kind |-> kind, ident |-> ident, region |-> NoRegion, signature |-> signature,
      subject |-> subject, access |-> access, committed |-> committed, ambiguous |-> FALSE ]

Contract(signature, access) == Op("contract", <<"", "api">>, signature, <<"", "cart">>, access, TRUE)

Content(ops) == [ops |-> ops, base |-> "c1", deps |-> {}, amendment |-> FALSE, semantics |-> "ok"]

MCIntents == {producer, worker}
MCBases   == {"c1", "c2"}
MCPayloads ==
    producer :> { Content({Contract("s1", "write")}) }
    @@ worker :> { Content({ Contract("s1", "read"),
                             Op("file", <<"a", "*">>, NoSignature, NoSubject, "write", FALSE) }) }
MCRequests == [path : {<<"a", "x">>}, region : {NoRegion}, modes : {{"write"}}]
MCPaths    == {<<"a", "x">>}
MCLines    == {1}
MCBrokers  == {b1, b2}
MCRoots    == {w1}
MCServes   == [b \in MCBrokers |-> worker]
MCRootOf   == [b \in MCBrokers |-> w1]
Symmetry   == Permutations(MCBrokers)

(* The producer arrives first and has its contract found broken: its other *)
(* operations are in MCRegistry.  A paused worker may refresh and go on.   *)
ProducerStep ==
    /\ \/ \E p \in Payloads[producer] : AdmitIntent(producer, p)
       \/ InvalidateDependents(producer, ContractKeys(pl[producer]))
    /\ FenceBrokers

(* The operator checks out the base of the worker's contents.              *)
BrokerNext ==
    \/ \E b \in Brokers : BrokerStep(b)
    \/ st[worker] # Absent /\ \E w \in Roots : ResetWorktree(w, pl[worker].base)
    \/ ProducerStep /\ UNCHANGED runtimeVars
    \/ /\ st[producer] # Absent
       /\ \/ GovernedStep(worker) \/ BrokerTick
          \/ HeartbeatIntent(worker) /\ UNCHANGED brokerVars
       /\ UNCHANGED runtimeVars

BrokerSpec ==
    /\ RuntimeHistInit /\ \A w \in Roots : tree[w] = <<"c1", 0>>
    /\ [][BrokerNext /\ Overlook /\ Disturb]_runtimeHistVars
=============================================================================
