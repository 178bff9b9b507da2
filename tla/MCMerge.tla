-------------------------------- MODULE MCMerge --------------------------------
(***************************************************************************)
(* Two independent work items, and a third that depends on the first.      *)
(***************************************************************************)
EXTENDS MergeQueue, TLC

CONSTANTS base, other, dependent

Three == {base, other, dependent}
Two == {base, other}
MCDeps == [w \in Work |-> IF w = dependent THEN {base} ELSE {}]
MCRank == [w \in Work |-> IF w = base THEN 0 ELSE IF w = other THEN 1 ELSE 2]

(* One operator; one work item at a time is on its second run (bound). *)
OneOperatorBounded ==
    /\ OneOperator
    /\ Cardinality({ w \in Work : LastOf(w, Attempts) > 1 }) < 2
=============================================================================
