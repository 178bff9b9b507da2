---------------------------- MODULE RuntimeHistory ----------------------------
(***************************************************************************)
(* The broker runtime with its history.  _BrokerCore.close takes no        *)
(* request lock and the handler threads are daemons, so a request may      *)
(* outlive the worktree lock of its broker and run beside a successor.     *)
(* The history remembers the successors this happened to; it never guards  *)
(* a step.                                                                 *)
(***************************************************************************)
EXTENDS BrokerRuntime, ArbitrationHistory

VARIABLE disturbed   \* holders of a worktree beside another broker's request, now or before

runtimeHistVars == <<allVars, overlooked, disturbed>>

(* Phases in which a handler carries a request. *)
InFlight == {"validated", "promoted", "scoped", "prepared", "mutated", "restored"}

Disturb ==
    disturbed' =
        { b \in Brokers :
            /\ lock'[RootOf[b]] = b
            /\ \/ b \in disturbed
               \/ \E c \in Brokers \ {b} :
                     RootOf[c] = RootOf[b] /\ handler'[c].phase \in InFlight }

RuntimeHistInit == RuntimeInit /\ overlooked = {} /\ disturbed = {}
RuntimeHistNext == RuntimeNext /\ Overlook /\ Disturb
RuntimeHistSpec == RuntimeHistInit /\ [][RuntimeHistNext]_runtimeHistVars

-----------------------------------------------------------------------------
(* While a broker process holds its worktree, the tree is the one its      *)
(* committed operations lead to except between a mutation and its commit:  *)
(* a refused commit leaves no trace of the mutation, whether or not other  *)
(* processes crashed or were closed in the middle of a request before,     *)
(* unless such a request was still running while the process held it.      *)
TreeProvenance ==
    \A b \in Brokers \ disturbed :
        /\ broker[b].state # "none" /\ lock[RootOf[b]] = b
        /\ Phase(b) # "mutated"
        => Tree(b) = broker[b].tree
=============================================================================
