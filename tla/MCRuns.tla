-------------------------------- MODULE MCRuns --------------------------------
(***************************************************************************)
(* A run with two hooks or commands of the agent at once.                  *)
(***************************************************************************)
EXTENDS ControlledRuns, TLC

CONSTANTS h1, h2, start, again, task, propose, edit, stop, turn

MCHooks == {h1, h2}

MCOperation ==
    ("final" :> "verify_completion" @@ "abort" :> "cancel" @@ "seal" :> "stop_session"
     @@ start :> "start_session" @@ again :> "resume" @@ task :> "submit_task"
     @@ propose :> "propose_intent" @@ edit :> "request_mutation" @@ stop :> "verify_completion"
     @@ turn :> "end_turn")

MCRequests == DOMAIN MCOperation

MCAfter ==
    [ r \in MCRequests |->
        CASE r = task -> {start} [] r = again -> {propose}
          [] r = propose -> {task} [] r = edit -> {propose}
          [] r \in {stop, turn} -> {task} [] OTHER -> {} ]

(* Bounds: one error on record; only decisions on the agent's work overlap, *)
(* duplicates of one request or a verification and an edit, and they do in *)
(* a run that is not interactive.                                          *)
FewErrors == Cardinality({ i \in DOMAIN events : events[i].result = "failed" }) <= 1

Busy == { h \in Hooks : call[h].at # "idle" }

Overlap ==
    \/ Cardinality(Busy) < 2
    \/ /\ ~run.interactive
       /\ {call[h].request : h \in Busy} \in {{propose}, {edit}, {edit, stop}, {stop}}

Symmetry == Permutations(MCHooks)
=============================================================================
