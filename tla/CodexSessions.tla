----------------------------- MODULE CodexSessions -----------------------------
(***************************************************************************)
(* The Codex connector, connectors/codex.py: sessions bound to intents of  *)
(* one worktree.  A session is one JSON file.  Every hook and every        *)
(* codex-intent command loads it whole, makes several registry             *)
(* transactions, and writes its whole copy back; nothing locks the file.   *)
(* Each call is therefore a sequence of steps below, any number of calls   *)
(* run at once, and each may die (or raise) between two steps.             *)
(*                                                                         *)
(* The registry is the life cycle IntentRegistry implements.  Its verdicts,*)
(* lease expiry and the Git checks (HEAD and branch unchanged) are left    *)
(* open; heartbeats only postpone an expiry.  Sessions begin bootstrapped. *)
(***************************************************************************)
EXTENDS IntentLifecycle, FiniteSets

CONSTANTS
    Sessions,
    Callers,     \* processes: hooks and commands
    Of,          \* Of[c]: the session caller c works for
    May,         \* May[c]: the calls c makes
    MaxResume,   \* bound on successors of an intent
    MaxVersion,  \* bound on content_version
    Scope        \* mutations that may be committed beside the proposal

Calls == {"admit", "amend", "guard", "verify", "abandon", "resume", "touch"}

ASSUME CodexAssumption ==
    /\ MaxResume \in Nat /\ MaxVersion \in Nat \ {0}
    /\ Intents = Sessions \X (0..MaxResume)
    /\ NoContent = {}
    /\ Of \in [Callers -> Sessions]
    /\ May \in [Callers -> SUBSET Calls]

VARIABLES
    file,   \* the session file of each session
    call    \* the call each caller is in: its next step and its copy of the file

vars == <<state, content, version, file, call>>

NoTicket == [nth |-> 0, version |-> 0, want |-> {}]
Tickets  == [nth : 0..MaxResume, version : 0..MaxVersion, want : SUBSET Scope]

(* nth: how many times the intent was succeeded (resume_recoveries), and so *)
(* which intent is reserved; bound: active_intent_id names it; clean:       *)
(* completion.verified.  "open" stands for the states no guard reads.       *)
Files ==
    [ nth : 0..MaxResume, bound : BOOLEAN, clean : BOOLEAN,
      task : {"open", "verified", "abandoned"}, ticket : Tickets ]

Bootstrapped ==
    [nth |-> 0, bound |-> FALSE, clean |-> FALSE, task |-> "open", ticket |-> NoTicket]

Steps ==
    {"idle", "write", "write_ticket", "admit", "activate", "read", "reread", "amend",
     "reactivate", "guard", "verify", "complete", "release", "resume", "renew",
     "succeed", "rebind"}

(* scope and expected: what amend_codex_scope has read of the intent. *)
Idle == [at |-> "idle", copy |-> Bootstrapped, scope |-> {}, expected |-> 0]

CallType ==
    [at : Steps, copy : Files, scope : SUBSET Scope, expected : 0..MaxVersion]

CodexTypeOK ==
    /\ state \in [Intents -> {Absent, "BLOCKED", "ADMITTED", "ACTIVE", "COMPLETED",
                              "RELEASED", "EXPIRED", "STALE"}]
    /\ content \in [Intents -> SUBSET Scope]
    /\ version \in [Intents -> 0..MaxVersion]
    /\ file \in [Sessions -> Files]
    /\ call \in [Callers -> CallType]

Init ==
    /\ LifecycleInit
    /\ file = [s \in Sessions |-> Bootstrapped]
    /\ call = [c \in Callers |-> Idle]

Registry == <<state, content, version>>

Intent(s, f) == <<s, f.nth>>

(* The intent the caller's copy of the session names. *)
Mine(c) == Intent(Of[c], call[c].copy)

Authorized(s) == file[s].bound /\ state[Intent(s, file[s])] \in Live

At(c, step) == call[c].at = step

-----------------------------------------------------------------------------
(* How a call begins, goes on and ends.                                    *)

(* _load_session *)
Load(c, kind, step) ==
    /\ kind \in May[c]
    /\ At(c, "idle")
    /\ call' = [call EXCEPT ![c] = [Idle EXCEPT !.at = step, !.copy = file[Of[c]]]]
    /\ UNCHANGED <<Registry, file>>

(* The caller goes on with a changed copy; the file is untouched. *)
Go(c, step, copy) ==
    /\ call' = [call EXCEPT ![c] = [@ EXCEPT !.at = step, !.copy = copy]]
    /\ UNCHANGED file

Opened(f) == [f EXCEPT !.task = "open"]

WithoutTicket(f) == [f EXCEPT !.ticket = NoTicket]

(* _write_session: the whole copy, whatever the file holds by now. *)
Write(c) ==
    /\ At(c, "write")
    /\ file' = [file EXCEPT ![Of[c]] = call[c].copy]
    /\ call' = [call EXCEPT ![c] = Idle]
    /\ UNCHANGED Registry

(* A call that raises or whose process dies; an error stop after verify is *)
(* written by VerifyFailed.                                                *)
Die(c) ==
    /\ ~At(c, "idle")
    /\ call' = [call EXCEPT ![c] = Idle]
    /\ UNCHANGED <<Registry, file>>

(* Prompts, PostToolUse and SessionEnd at most rewrite what they loaded. *)
Touch(c) == Load(c, "touch", "write")

(* Stop in an interactive run: the verification waits for the launcher. *)
TurnEnd(c) ==
    /\ "touch" \in May[c] /\ At(c, "idle")
    /\ file[Of[c]].bound
    /\ Go(c, "write", [Opened(file[Of[c]]) EXCEPT !.clean = FALSE])
    /\ UNCHANGED Registry

-----------------------------------------------------------------------------
(* admit_codex_intent.                                                     *)

(* _other_active_codex_sessions *)
OthersAuthorized(c) == { s \in Sessions \ {Of[c]} : Authorized(s) }

AdmitRefused(c) ==
    /\ OthersAuthorized(c) # {}
    /\ "admit" \in May[c] /\ At(c, "idle")
    /\ Go(c, "write", Opened(file[Of[c]]))
    /\ UNCHANGED Registry

AdmitStart(c) ==
    /\ OthersAuthorized(c) = {}
    /\ Load(c, "admit", "admit")

(* A decision already recorded is returned when the proposal is the same. *)
Recorded(i, scope) ==
    state[i] \notin {Absent, "BLOCKED"} /\ version[i] = 1 /\ content[i] = scope

AdmitSubmit(c) ==
    /\ At(c, "admit")
    /\ \/ Admit({}, Mine(c), "ADMITTED", {}) /\ Go(c, "activate", call[c].copy)
       \/ Admit({}, Mine(c), "BLOCKED", {}) /\ Go(c, "write", Opened(call[c].copy))
       \/ /\ call[c].copy.nth = 0 /\ Recorded(Mine(c), {})
          /\ Go(c, "activate", call[c].copy)
          /\ UNCHANGED Registry

AdmitActivate(c) ==
    /\ At(c, "activate")
    /\ Activate(Mine(c))
    /\ Go(c, "write", [Opened(call[c].copy) EXCEPT !.bound = TRUE])

-----------------------------------------------------------------------------
(* PreToolUse: the guard, contingent promotion and amendment tickets.      *)

GuardStart(c) == Load(c, "guard", "guard")

(* Allowed inside the committed scope, or denied for good; the counters    *)
(* are recorded either way.                                                *)
GuardPlain(c) ==
    /\ At(c, "guard")
    /\ Go(c, "write", call[c].copy)
    /\ UNCHANGED Registry

GuardPromote(c) ==
    /\ At(c, "guard") /\ call[c].copy.bound
    /\ version[Mine(c)] < MaxVersion
    /\ \E m \in Scope \ content[Mine(c)] :
         Promote({}, Mine(c), content[Mine(c)] \cup {m})
    /\ Go(c, "write", call[c].copy)

(* _attach_scope_amendment_ticket: bound to the content that denied it. *)
GuardTicket(c) ==
    /\ At(c, "guard") /\ call[c].copy.bound
    /\ state[Mine(c)] \in Live
    /\ \E m \in Scope \ content[Mine(c)] :
         Go(c, "write_ticket",
            [call[c].copy EXCEPT !.ticket =
               [nth |-> call[c].copy.nth, version |-> version[Mine(c)], want |-> {m}]])
    /\ UNCHANGED Registry

(* The ticket is written at once and again with the counters. *)
WriteTicket(c) ==
    /\ At(c, "write_ticket")
    /\ file' = [file EXCEPT ![Of[c]] = call[c].copy]
    /\ call' = [call EXCEPT ![c] = [@ EXCEPT !.at = "write"]]
    /\ UNCHANGED Registry

-----------------------------------------------------------------------------
(* amend_codex_scope.                                                      *)

AmendStart(c) ==
    /\ file[Of[c]].bound
    /\ file[Of[c]].ticket.want # {}
    /\ file[Of[c]].ticket.nth = file[Of[c]].nth
    /\ Load(c, "amend", "read")

(* The ticket expired, or the reason is not grounded. *)
AmendDenied(c) ==
    /\ At(c, "read")
    /\ Go(c, "write", WithoutTicket(call[c].copy))
    /\ UNCHANGED Registry

(* The content must be the one the ticket was issued for (its fingerprint). *)
AmendRead(c) ==
    /\ At(c, "read")
    /\ version[Mine(c)] = call[c].copy.ticket.version
    /\ ~(call[c].copy.ticket.want \subseteq content[Mine(c)])
    /\ call' = [call EXCEPT ![c] = [@ EXCEPT !.at = "reread", !.scope = content[Mine(c)]]]
    /\ UNCHANGED <<Registry, file>>

(* _intent_record_version: a read of its own. *)
AmendReadVersion(c) ==
    /\ At(c, "reread")
    /\ call' = [call EXCEPT ![c] = [@ EXCEPT !.at = "amend", !.expected = version[Mine(c)]]]
    /\ UNCHANGED <<Registry, file>>

AmendSubmit(c) ==
    /\ At(c, "amend")
    /\ version[Mine(c)] = call[c].expected
    /\ \/ /\ version[Mine(c)] < MaxVersion
          /\ Amend({}, Mine(c), {}, call[c].scope \cup call[c].copy.ticket.want)
          /\ Go(c, "reactivate", call[c].copy)
       \/ /\ state[Mine(c)] \in Live \cup {"STALE"}
          /\ Go(c, "write", WithoutTicket(call[c].copy))
          /\ UNCHANGED Registry

AmendActivate(c) ==
    /\ At(c, "reactivate")
    /\ Activate(Mine(c))
    /\ Go(c, "write", WithoutTicket(Opened(call[c].copy)))

-----------------------------------------------------------------------------
(* verify_codex_completion, from the Stop hook or the command line.        *)

VerifyStart(c) ==
    /\ file[Of[c]].bound
    /\ file[Of[c]].task # "verified"
    /\ Load(c, "verify", "verify")

(* Variant: the session is marked before the registry is asked. *)
VerifyCleanEarly(c) ==
    /\ At(c, "verify")
    /\ Go(c, "write", WithoutTicket([call[c].copy EXCEPT !.task = "verified", !.clean = TRUE]))
    /\ UNCHANGED Registry

(* Manifest, acceptance and obligations are clean. *)
VerifyClean(c) ==
    /\ At(c, "verify")
    /\ Go(c, "complete", call[c].copy)
    /\ UNCHANGED Registry

(* Unclean evidence, or an error the Stop hook records. *)
VerifyFailed(c) ==
    /\ call[c].at \in {"verify", "complete"}
    /\ Go(c, "write", [Opened(call[c].copy) EXCEPT !.clean = FALSE])
    /\ UNCHANGED Registry

(* A verification repeated after a crash finds the intent completed. *)
VerifyComplete(c) ==
    /\ At(c, "complete")
    /\ \/ Complete(Mine(c))
       \/ state[Mine(c)] = "COMPLETED" /\ UNCHANGED Registry
    /\ Go(c, "write", WithoutTicket([call[c].copy EXCEPT !.task = "verified", !.clean = TRUE]))

-----------------------------------------------------------------------------
(* abandon_codex_intent.                                                   *)

(* Variant: the session takes the name of the registry's state. *)
AbandonedReleased(f) == WithoutTicket([f EXCEPT !.task = "released"])

Abandoned(f) == WithoutTicket([f EXCEPT !.task = "abandoned"])

(* Variant: the session is marked before the intent is released. *)
AbandonStartMarked(c) ==
    /\ "abandon" \in May[c] /\ At(c, "idle")
    /\ file[Of[c]].task # "verified"
    /\ file' = [file EXCEPT ![Of[c]] = Abandoned(@)]
    /\ call' = [call EXCEPT ![c] = [Idle EXCEPT !.at = "release", !.copy = file[Of[c]]]]
    /\ UNCHANGED Registry

AbandonStart(c) ==
    /\ file[Of[c]].task # "verified"
    /\ Load(c, "abandon", "release")

(* Release after completion is a no-op. *)
AbandonRelease(c) ==
    /\ At(c, "release")
    /\ \/ call[c].copy.bound /\ Release(Mine(c))
       \/ call[c].copy.bound /\ state[Mine(c)] = "COMPLETED" /\ UNCHANGED Registry
       \/ ~call[c].copy.bound /\ UNCHANGED Registry
    /\ Go(c, "write", Abandoned(call[c].copy))

-----------------------------------------------------------------------------
(* _record_session_handshake with source "resume" and                      *)
(* _recover_resumed_session.                                               *)

ResumeStart(c) == Load(c, "resume", "resume")

(* Nothing bound, or nothing to recover, or HEAD or the branch moved. *)
ResumeKept(c) ==
    /\ At(c, "resume")
    /\ ~call[c].copy.bound \/ state[Mine(c)] \notin Live
    /\ IF call[c].copy.bound /\ state[Mine(c)] = "COMPLETED" /\ call[c].copy.clean
       THEN Go(c, "write", [call[c].copy EXCEPT !.task = "verified"])
       ELSE IF call[c].copy.bound /\ state[Mine(c)] # "COMPLETED"
       THEN Go(c, "write", Opened(call[c].copy))
       ELSE Go(c, "write", call[c].copy)
    /\ UNCHANGED Registry

ResumeLive(c) ==
    /\ At(c, "resume") /\ call[c].copy.bound
    /\ state[Mine(c)] \in Live
    /\ Go(c, "renew", call[c].copy)
    /\ UNCHANGED Registry

ResumeRenew(c) ==
    /\ At(c, "renew")
    /\ Activate(Mine(c))
    /\ Go(c, "write", Opened(call[c].copy))

(* Variant: any intent that lost its authority is succeeded. *)
ResumeExpiredOrStale(c) ==
    /\ At(c, "resume") /\ call[c].copy.bound
    /\ state[Mine(c)] \notin {"COMPLETED", "RELEASED"}
    /\ call[c].copy.nth < MaxResume
    /\ Go(c, "succeed", call[c].copy)
    /\ UNCHANGED Registry

ResumeExpired(c) ==
    /\ At(c, "resume") /\ call[c].copy.bound
    /\ state[Mine(c)] = "EXPIRED"
    /\ call[c].copy.nth < MaxResume
    /\ Go(c, "succeed", call[c].copy)
    /\ UNCHANGED Registry

Successor(c) == <<Of[c], call[c].copy.nth + 1>>

(* Variant: the successor starts from the first proposal. *)
InheritedProposal(c) == {}

(* The execution contract the successor repeats. *)
Inherited(c) == content[Mine(c)]

ResumeSubmit(c) ==
    /\ At(c, "succeed")
    /\ \/ Admit({}, Successor(c), "ADMITTED", Inherited(c)) /\ Go(c, "rebind", call[c].copy)
       \/ Admit({}, Successor(c), "BLOCKED", Inherited(c)) /\ Go(c, "write", Opened(call[c].copy))
       \/ /\ Recorded(Successor(c), Inherited(c))
          /\ Go(c, "rebind", call[c].copy)
          /\ UNCHANGED Registry

ResumeRebind(c) ==
    /\ At(c, "rebind")
    /\ Activate(Successor(c))
    /\ Go(c, "write", [Opened(call[c].copy) EXCEPT !.nth = @ + 1])

-----------------------------------------------------------------------------
(* Leases run out, and other users of the registry fence an intent.        *)
Expire(i) == state[i] \in Live /\ Settle({i})  /\ UNCHANGED <<file, call>>

Fence(i) == Invalidate({i}) /\ UNCHANGED <<file, call>>

CallStep(c) ==
    \/ Write(c) \/ Die(c) \/ Touch(c) \/ TurnEnd(c)
    \/ AdmitRefused(c) \/ AdmitStart(c) \/ AdmitSubmit(c) \/ AdmitActivate(c)
    \/ GuardStart(c) \/ GuardPlain(c) \/ GuardPromote(c) \/ GuardTicket(c) \/ WriteTicket(c)
    \/ AmendStart(c) \/ AmendDenied(c) \/ AmendRead(c) \/ AmendReadVersion(c)
    \/ AmendSubmit(c) \/ AmendActivate(c)
    \/ VerifyStart(c) \/ VerifyClean(c) \/ VerifyFailed(c) \/ VerifyComplete(c)
    \/ AbandonStart(c) \/ AbandonRelease(c)
    \/ ResumeStart(c) \/ ResumeKept(c) \/ ResumeLive(c) \/ ResumeRenew(c)
    \/ ResumeExpired(c) \/ ResumeSubmit(c) \/ ResumeRebind(c)

Next ==
    \/ \E c \in Callers : CallStep(c)
    \/ \E i \in Intents : Expire(i) \/ Fence(i)

Spec == Init /\ [][Next]_vars

-----------------------------------------------------------------------------
(* A session's intents succeed each other: at most one of them holds       *)
(* authority, although two resumes may run at once, a resume may die after *)
(* its admission, and stale copies of the session may come back and be     *)
(* resumed again.                                                          *)
OneIntentPerSession ==
    \A s \in Sessions : \A m, n \in 0..MaxResume :
        m # n => state[<<s, m>>] \notin Live \/ state[<<s, n>>] \notin Live

(* A session that says "verified" is bound to an intent that was completed: *)
(* no stale copy, rebinding or crash leaves the mark on unfinished work.    *)
VerifiedIsCompleted ==
    \A s \in Sessions : file[s].task = "verified" =>
        file[s].bound /\ state[Intent(s, file[s])] \in {"COMPLETED", "STALE", "RELEASED"}

(* A session that says "abandoned" is bound to no intent with authority,   *)
(* whatever calls of the agent were in flight when the operator gave it up. *)
AbandonedHasNoAuthority ==
    \A s \in Sessions : file[s].task = "abandoned" => ~Authorized(s)

(* A successor repeats the execution contract of its predecessor with all  *)
(* the scope that was promoted or amended into it; an amendment in flight  *)
(* when the lease ran out does not reach the predecessor afterwards.       *)
ContractInherited ==
    \A s \in Sessions : \A n \in 0..(MaxResume - 1) :
        state[<<s, n + 1>>] # Absent => content[<<s, n>>] \subseteq content[<<s, n + 1>>]
=============================================================================
