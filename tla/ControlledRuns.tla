----------------------------- MODULE ControlledRuns -----------------------------
(***************************************************************************)
(* One controlled run of Codex, controlled_run.py, over the adapter,       *)
(* connectors/codex_adapter.py.  The agent's hooks and commands and the    *)
(* launcher make adapter calls.  A call consults the request cache, acts   *)
(* on the session, reads the binding again, records its events and caches  *)
(* its answer, in that order, and may die in between; calls run at once,   *)
(* and an unanswered request is made again.  When the agent is gone the    *)
(* launcher verifies, or cancels, and writes the outcome of the run.       *)
(*                                                                         *)
(* What the connector does to session and intent is one step here (its     *)
(* steps are CodexSessions'), except that an admission leaves the registry *)
(* with an intent the session file comes to name only in a later step.     *)
(* Every request carries an identity.                                      *)
(***************************************************************************)
EXTENDS LifecycleEvents

CONSTANTS
    Hooks,   \* processes of the agent that call the adapter
    After    \* After[r]: requests that have succeeded before the agent makes r

Own == {"final", "abort", "seal"}   \* the launcher's requests

ASSUME RunAssumption ==
    /\ Own \subseteq Requests /\ "launcher" \notin Hooks
    /\ Operation["final"] = "verify_completion"
    /\ Operation["abort"] = "cancel"
    /\ Operation["seal"] = "stop_session"
    /\ After \in [Requests -> SUBSET Requests]

VARIABLES
    auth,    \* the session and its intent: phase, and the version of the binding;
             \* spare: the admitted intent the session does not name yet
    cache,   \* the cached answer of each request
    call,    \* the call each process is in
    run      \* the launcher

runVars == <<events, auth, cache, call, run>>

(* "none" no session, "open" no task yet, "tasked" no intent yet; then the *)
(* intent, which may have lost its authority ("lapsed").                   *)
Phases == {"none", "open", "tasked", "active", "lapsed", "completed", "released"}

Bound == auth.phase \in {"active", "lapsed", "completed", "released"}

NoAnswer == [status |-> "none", verified |-> FALSE, version |-> 0]

Granted == [status |-> "succeeded", verified |-> FALSE, version |-> 0]

Failed(version) == [status |-> "failed", verified |-> FALSE, version |-> version]

(* expected: the binding the request names, 0 for none. *)
Idle == [at |-> "idle", request |-> "final", expected |-> 0, answer |-> NoAnswer]

Callers == Hooks \cup {"launcher"}

RunInit ==
    /\ events = <<>>
    /\ auth = [phase |-> "none", version |-> 0, spare |-> "none"]
    /\ cache = [r \in Requests |-> NoAnswer]
    /\ call = [c \in Callers |-> Idle]
    /\ run \in [ interactive : BOOLEAN, phase : {"running"}, clean : {TRUE},
                 outcome : {"NONE"}, cancellation : {"none"} ]

-----------------------------------------------------------------------------
(* What an operation does to the session, and what it answers.             *)

Reply(out, status) == out = [status |-> status, verified |-> FALSE, version |-> 0]

Verified(out) == out = [status |-> "succeeded", verified |-> TRUE, version |-> 0]

Became(phase) == auth' = [auth EXCEPT !.phase = phase]

(* Another version of the intent. *)
Amended == auth.version < MaxVersion /\ auth' = [auth EXCEPT !.version = @ + 1]

Serve(operation, out) ==
    \/ /\ operation \in {"start_session", "resume"} /\ Reply(out, "succeeded")
       /\ Became(IF auth.phase = "none" THEN "open" ELSE auth.phase)
    \/ /\ operation = "submit_task" /\ Reply(out, "succeeded")
       /\ Became(IF Bound THEN auth.phase ELSE "tasked")
    \/ /\ operation = "propose_intent" /\ Reply(out, "succeeded")
       /\ auth.phase = "active" /\ UNCHANGED auth
    \/ /\ operation = "propose_intent" /\ Reply(out, "denied")
       /\ auth.phase = "tasked" /\ UNCHANGED auth
    \/ /\ operation \in {"request_mutation", "request_amendment"} /\ Reply(out, "denied")
       /\ UNCHANGED auth
    \/ /\ operation = "request_mutation" /\ Reply(out, "succeeded")
       /\ auth.phase = "active" /\ UNCHANGED auth
    \/ /\ operation \in {"request_mutation", "request_amendment"} /\ Reply(out, "succeeded")
       /\ auth.phase = "active" /\ Amended
    \/ /\ operation \in {"observe_result", "stop_session", "end_turn"} /\ Reply(out, "succeeded")
       /\ UNCHANGED auth
    \/ /\ operation = "verify_completion" /\ Verified(out)
       /\ auth.phase \in {"active", "completed"} /\ Became("completed")
    \/ /\ operation = "verify_completion"
       /\ Reply(out, IF Bound THEN "denied" ELSE "succeeded")
       /\ auth.phase # "completed" /\ UNCHANGED auth
    \/ /\ operation = "cancel" /\ Reply(out, "cancelled")
       /\ auth.phase \notin {"none", "completed"}
       /\ Became(IF Bound THEN "released" ELSE auth.phase)

(* A first intent is proposed, or the successor of one that expired.  Its  *)
(* identity is the session's, so a repetition finds the same one.          *)
Admitting(operation) ==
    \/ operation = "propose_intent" /\ auth.phase = "tasked"
    \/ operation = "resume" /\ auth.phase = "lapsed"

Reserved == auth' = [auth EXCEPT !.spare = IF @ = "none" THEN "live" ELSE @]

(* _write_session: the session names the intent it was admitted for. *)
Named ==
    auth' = IF auth.spare = "none" THEN auth
            ELSE [ phase |-> IF auth.spare = "live" THEN "active" ELSE "lapsed",
                   version |-> auth.version + 1, spare |-> "none" ]

-----------------------------------------------------------------------------
(* _perform                                                                *)

Go(c, step) == call' = [call EXCEPT ![c] = [@ EXCEPT !.at = step]]

(* The call returns or raises; only the launcher looks. *)
End(c, how) ==
    call' = [call EXCEPT ![c] = IF c = "launcher" THEN [@ EXCEPT !.at = how] ELSE Idle]

(* _validate_lifecycle_state and _cached_response; the end of a turn is not *)
(* looked up.                                                              *)
Begin(c, r, expected) ==
    /\ call[c].at \in {"idle", "answered", "raised"}
    /\ Valid(events)
    /\ LET hit == cache[r] # NoAnswer /\ Operation[r] # "end_turn"
       IN  call' = [call EXCEPT ![c] =
                      [ at |-> IF hit THEN "replay" ELSE "act", request |-> r,
                        expected |-> expected, answer |-> cache[r] ]]

(* A hook or a command of the agent; tool hooks of a session without an    *)
(* intent bypass the adapter, and Stop takes another way in the TUI.       *)
HookBegin(h, r) ==
    /\ run.phase = "running"
    /\ r \notin Own
    /\ \A q \in After[r] : cache[q].status = "succeeded"
    /\ Operation[r] \in {"request_mutation", "observe_result"} => Bound
    /\ Operation[r] \in {"verify_completion", "stop_session"} => ~run.interactive
    /\ Operation[r] = "end_turn" => run.interactive
    /\ Begin(h, r, 0)
    /\ UNCHANGED <<events, auth, cache, run>>

(* The action, which may raise after it took effect. *)
Act(c) ==
    /\ call[c].at = "act"
    /\ call[c].expected \in {0, auth.version}
    /\ \E out \in Responses :
         /\ Serve(Operation[call[c].request], out)
         /\ call' = [call EXCEPT ![c] = [@ EXCEPT !.at = "respond", !.answer = out]]
    /\ UNCHANGED <<events, cache, run>>

(* An admission: plane.admit, plane.activate, and the session is written.  *)
Admit(c) ==
    /\ call[c].at = "act"
    /\ call[c].expected \in {0, auth.version}
    /\ Admitting(Operation[call[c].request])
    /\ auth.version < MaxVersion
    /\ Reserved
    /\ Go(c, "activate")
    /\ UNCHANGED <<events, cache, run>>

Activate(c) ==
    /\ call[c].at = "activate"
    /\ auth.spare = "live" \/ (auth.spare = "none" /\ auth.phase = "active")
    /\ Go(c, "bind")
    /\ UNCHANGED <<events, auth, cache, run>>

Bind(c) ==
    /\ call[c].at = "bind"
    /\ Named
    /\ call' = [call EXCEPT ![c] = [@ EXCEPT !.at = "respond", !.answer = Granted]]
    /\ UNCHANGED <<events, cache, run>>

(* A stale binding, or an action that raises, before or after its effect   *)
(* (at the end of a turn that is the same as a hook that dies).            *)
ActRaises(c) ==
    /\ call[c].at \in {"act", "activate", "bind"} /\ Operation[call[c].request] # "end_turn"
    /\ \/ UNCHANGED auth
       \/ /\ call[c].at = "act" /\ call[c].expected \in {0, auth.version}
          /\ \E out \in Responses : Serve(Operation[call[c].request], out)
       \/ call[c].at = "bind" /\ Named
    /\ call' = [call EXCEPT ![c] =
                  [@ EXCEPT !.at = "record", !.answer = Failed(call[c].expected)]]
    /\ UNCHANGED <<events, cache, run>>

(* The binding is read again for the answer. *)
Respond(c) ==
    /\ call[c].at = "respond"
    /\ LET answer == [call[c].answer EXCEPT !.version = auth.version]
       IN  call' = [call EXCEPT ![c] = [@ EXCEPT !.at = "record", !.answer = answer]]
    /\ UNCHANGED <<events, auth, cache, run>>

(* _record_lifecycle; an error, once recorded, is raised and not cached. *)
Record(c) ==
    /\ call[c].at \in {"record", "replay"}
    /\ LET batch == Batch(call[c].request, call[c].answer)
           last  == Operation[call[c].request] = "end_turn" \/ call[c].at = "replay"
       IN  \/ /\ Append1(batch)
              /\ IF call[c].answer.status = "failed" THEN End(c, "raised")
                 ELSE IF last THEN End(c, "answered")
                 ELSE Go(c, "store")
           \/ Refuses(batch) /\ End(c, "raised") /\ UNCHANGED events
    /\ UNCHANGED <<auth, cache, run>>

(* _store_response *)
Store(c) ==
    /\ call[c].at = "store"
    /\ cache' = [cache EXCEPT ![call[c].request] = call[c].answer]
    /\ End(c, "answered")
    /\ UNCHANGED <<events, auth, run>>

(* A hook's process dies. *)
HookDies(h) ==
    /\ call[h].at # "idle"
    /\ call' = [call EXCEPT ![h] = Idle]
    /\ UNCHANGED <<events, auth, cache, run>>

(* The lease runs out, or the intent is fenced. *)
Lapse ==
    /\ \/ auth.phase = "active" /\ Became("lapsed")
       \/ auth.spare = "live" /\ auth' = [auth EXCEPT !.spare = "lapsed"]
    /\ UNCHANGED <<events, cache, call, run>>

-----------------------------------------------------------------------------
(* run_controlled_task and run_interactive_codex                           *)

Launcher(phase) == run' = [run EXCEPT !.phase = phase]

Over(outcome) == run' = [run EXCEPT !.phase = "over", !.outcome = outcome]

(* Policy and the deterministic gate only take a verification away. *)
Gated(outcome) ==
    IF outcome = "VERIFIED" THEN {"VERIFIED", "REVIEW_REQUIRED", "REJECTED"} ELSE {outcome}

(* Variant: the exit status of Codex decides. *)
ClassifiedExit(verified) == IF run.clean THEN Gated("VERIFIED") ELSE {"FAILED"}

(* _classify_outcome *)
Classified(verified) ==
    IF ~run.clean THEN {"FAILED"}
    ELSE IF verified THEN Gated("VERIFIED")
    ELSE {"REJECTED", "REVIEW_REQUIRED"}

(* In the TUI, changes that no known intent claims reject the run. *)
Unclaimed(outcome) == IF run.interactive THEN {outcome, "REJECTED"} ELSE {outcome}

(* Codex waits for its hooks before it exits. *)
Exit(clean) ==
    /\ run.phase = "running"
    /\ \A h \in Hooks : call[h].at = "idle"
    /\ run' = [run EXCEPT !.phase = "exited", !.clean = clean]
    /\ UNCHANGED <<events, auth, cache, call>>

(* No session was bound to the run. *)
ExitUnknown ==
    /\ run.phase = "exited" /\ auth.phase = "none"
    /\ \E outcome \in Unclaimed(IF run.interactive /\ run.clean THEN "CANCELLED" ELSE "FAILED") :
         Over(outcome)
    /\ UNCHANGED <<events, auth, cache, call>>

(* The session has no intent. *)
ExitUnbound ==
    /\ run.phase = "exited" /\ auth.phase \in {"open", "tasked"}
    /\ \E outcome \in IF run.interactive THEN Unclaimed("CANCELLED") ELSE Classified(FALSE) :
         Over(outcome)
    /\ UNCHANGED <<events, auth, cache, call>>

FinalVerify ==
    /\ run.phase = "exited" /\ auth.phase \in {"active", "lapsed", "released"}
    /\ Begin("launcher", "final", auth.version)
    /\ Launcher("verifying")
    /\ UNCHANGED <<events, auth, cache>>

(* The interactive launcher seals the session before the run is over. *)
Settle(outcome) ==
    IF run.interactive
    THEN Begin("launcher", "seal", 0) /\ run' = [run EXCEPT !.phase = "sealing", !.outcome = outcome]
    ELSE Over(outcome) /\ UNCHANGED call

(* A hook has verified already. *)
AlreadyVerified ==
    /\ run.phase = "exited" /\ auth.phase = "completed"
    /\ \E outcome \in Classified(TRUE) : Settle(outcome)
    /\ UNCHANGED <<events, auth, cache>>

FinalVerified ==
    /\ run.phase = "verifying" /\ call["launcher"].at = "answered"
    /\ \E outcome \in Classified(call["launcher"].answer.verified) : Settle(outcome)
    /\ UNCHANGED <<events, auth, cache>>

Sealed ==
    /\ run.phase = "sealing" /\ call["launcher"].at = "answered"
    /\ Over(run.outcome)
    /\ UNCHANGED <<events, auth, cache, call>>

(* Variant: only Codex itself is terminated, as in the TUI. *)
TerminatedAlone == call' = [call EXCEPT !["launcher"] = Idle]

(* _terminate_process kills the process group, the hooks with it;          *)
(* _terminate_interactive_process ends Codex alone.                        *)
Terminated ==
    call' = [ c \in Callers |-> IF c = "launcher" \/ ~run.interactive THEN Idle ELSE call[c] ]

(* The time is up; the intent has not been looked at yet. *)
TimeOut ==
    /\ run.phase = "running"
    /\ \E outcome \in Unclaimed("TIMED_OUT") :
         run' = [run EXCEPT !.phase = "stopped", !.outcome = outcome]
    /\ Terminated
    /\ UNCHANGED <<events, auth, cache>>

(* Ctrl-C, which the interactive launcher ignores. *)
Interrupt ==
    /\ run.phase \in {"running", "exited", "verifying"} /\ ~run.interactive
    /\ run' = [run EXCEPT !.phase = "stopped", !.outcome = "CANCELLED"]
    /\ Terminated
    /\ UNCHANGED <<events, auth, cache>>

(* Any other exception: waiting for Codex or reading the binding fails, or *)
(* the final verification or the sealing raised.                           *)
GaveUp ==
    /\ \E outcome \in Unclaimed("FAILED") :
         /\ \/ run.phase \in {"running", "exited"}
            \/ /\ run.phase \in {"verifying", "sealing"} /\ call["launcher"].at = "raised"
               /\ outcome = "FAILED"
         /\ run' = [run EXCEPT !.phase = "stopped", !.outcome = outcome]
    /\ Terminated
    /\ UNCHANGED <<events, auth, cache>>

(* _cancel_authority, for the binding the session has now. *)
Revoke ==
    /\ run.phase = "stopped"
    /\ IF auth.phase = "none"
       THEN Over(run.outcome) /\ UNCHANGED call
       ELSE Launcher("revoking") /\ Begin("launcher", "abort", auth.version)
    /\ UNCHANGED <<events, auth, cache>>

Revoked ==
    /\ run.phase = "revoking" /\ call["launcher"].at \in {"answered", "raised"}
    /\ run' = [run EXCEPT !.phase = "over", !.cancellation =
                  IF call["launcher"].at = "answered" THEN "cancelled" ELSE "failed"]
    /\ UNCHANGED <<events, auth, cache, call>>

RunNext ==
    \/ \E h \in Hooks : HookDies(h) \/ \E r \in Requests : HookBegin(h, r)
    \/ \E c \in Callers :
         \/ Act(c) \/ Admit(c) \/ Activate(c) \/ Bind(c) \/ ActRaises(c)
         \/ Respond(c) \/ Record(c) \/ Store(c)
    \/ Lapse
    \/ \E clean \in BOOLEAN : Exit(clean)
    \/ ExitUnknown \/ ExitUnbound \/ FinalVerify \/ AlreadyVerified \/ FinalVerified \/ Sealed
    \/ TimeOut \/ Interrupt \/ GaveUp \/ Revoke \/ Revoked

RunSpec == RunInit /\ [][RunNext]_runVars

-----------------------------------------------------------------------------
(* A request is decided once: whatever is retried, duplicated or lost, the *)
(* stream holds at most one outcome of it.                                 *)
OneOutcomePerRequest ==
    \A i, j \in DOMAIN events :
        /\ events[i].request = events[j].request
        /\ events[i].result # "requested" /\ events[j].result # "requested"
        => i = j

(* An answer that will be replayed is the one the stream recorded, also    *)
(* when duplicates of the request ran at once or a process died between.   *)
CachedIsRecorded ==
    \A r \in Requests : cache[r] # NoAnswer => Range(Batch(r, cache[r])) \subseteq Range(events)

(* A stream whose report says "verified" belongs to completed work.        *)
VerifiedReportIsCompleted == ReportsVerified => auth.phase = "completed"

(* A run recorded as VERIFIED completed its intent, whoever verified it.   *)
VerifiedRunIsCompleted == run.outcome = "VERIFIED" => auth.phase = "completed"

(* When a run reports its authority cancelled, the session names no intent *)
(* that has any: no hook of the terminated agent admits, resumes or binds  *)
(* one after the cancellation read what it releases.  (In the TUI only     *)
(* Codex itself is terminated.  An intent whose admission was cut off      *)
(* before the session was written is not one the session names: the        *)
(* cancellation does not find it, and nothing is claimed of it.)           *)
CancelRevokes ==
    run.cancellation = "cancelled" /\ ~run.interactive => auth.phase # "active"
=============================================================================
