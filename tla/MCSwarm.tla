-------------------------------- MODULE MCSwarm --------------------------------
(***************************************************************************)
(* Two work items, one the prerequisite of the other.                      *)
(***************************************************************************)
EXTENDS SwarmRuns, TLC

CONSTANTS base, dependent

MCWork == {base, dependent}
OneWork == {base}
MCDeps == [w \in Work |-> IF w = dependent THEN {base} ELSE {}]
MCRank == [w \in Work |-> IF w = base THEN 0 ELSE 1]

Relaunched == \E r \in Runs : r[2] > 1 /\ row[r].state # "none"
AtWork == { r \in Runs : row[r].state \in Active \/ proc[r].pc \in RunnerUp }
UnderWay == { x \in { <<"pause", pauser # "idle">>, <<"recover", rescuer # NoRescue>>,
                      <<"cancel", canceller # NoCancel>> } : x[2] }

(* One operator at a time acts on the runs, beside the verifier and the    *)
(* integrator; once an item is launched again, one run at a time and no    *)
(* further graph.                                                          *)
Bounded ==
    /\ Cardinality(UnderWay) < 2
    /\ Relaunched => Cardinality(AtWork) < 2 /\ session.graph = 1
=============================================================================
