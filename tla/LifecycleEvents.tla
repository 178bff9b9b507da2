---------------------------- MODULE LifecycleEvents ----------------------------
(***************************************************************************)
(* The normalized event stream of one adapter session,                     *)
(* protocol/lifecycle.py: which event may follow which, what one adapter   *)
(* request contributes, and how the store takes a batch in one             *)
(* transaction.  The position of an event in the stream is its sequence    *)
(* number and its causal link; timestamps, digests and payload summaries   *)
(* are left out, except for what tells two answers to one request apart.   *)
(***************************************************************************)
EXTENDS Naturals, Sequences, FiniteSets, Functions

CONSTANTS
    Requests,     \* request identifiers
    Operation,    \* Operation[r]: the adapter operation request r asks for;
                  \* "end_turn" is the Stop hook of an interactive run
    MaxVersion    \* bound on the intent version an event carries

Operations ==
    {"start_session", "resume", "submit_task", "propose_intent", "request_mutation",
     "observe_result", "request_amendment", "verify_completion", "cancel", "stop_session",
     "end_turn"}

ASSUME LifecycleAssumption ==
    Operation \in [Requests -> Operations] /\ MaxVersion \in Nat

VARIABLE events   \* the stream of the session

(* A response, or a portable error ("failed"), as the events summarise it. *)
Responses ==
    [ status : {"succeeded", "denied", "cancelled", "failed"},
      verified : BOOLEAN, version : 0..MaxVersion ]

(* Events after which a session goes on. *)
Working ==
    {"SessionStarted", "TaskSubmitted", "AdmissionGranted", "MutationAllowed",
     "MutationDenied", "MutationObserved", "ScopeExpansionGranted",
     "ScopeExpansionDenied", "VerificationCompleted"}

(* _ALLOWED_PREVIOUS; "nothing" stands for the start of the stream. *)
AllowedPrevious ==
    [ SessionStarted          |-> Working \cup {"AdmissionDenied", "AgentStopped", "nothing"},
      TaskSubmitted           |-> {"SessionStarted", "VerificationCompleted", "AgentStopped"},
      IntentProposed          |-> {"TaskSubmitted", "AdmissionDenied"},
      AdmissionRequested      |-> {"IntentProposed"},
      AdmissionGranted        |-> {"AdmissionRequested"},
      AdmissionDenied         |-> {"AdmissionRequested"},
      MutationRequested       |-> Working,
      MutationAllowed         |-> {"MutationRequested"},
      MutationDenied          |-> {"MutationRequested"},
      MutationObserved        |-> {"MutationAllowed", "MutationObserved"},
      ScopeExpansionRequested |-> Working,
      ScopeExpansionGranted   |-> {"ScopeExpansionRequested"},
      ScopeExpansionDenied    |-> {"ScopeExpansionRequested"},
      VerificationStarted     |-> Working \cup {"AgentStopped"},
      VerificationCompleted   |-> {"VerificationStarted"},
      AgentStopped            |-> Working \cup {"AdmissionDenied"},
      SessionEnded            |-> Working \cup {"AdmissionDenied", "AgentStopped"} ]

(* Variant: the identity also hashes the version the event carries. *)
IdentityVersioned(e) == <<e.request, e.type, e.version>>

(* _event_identity; a batch holds a type once, so the ordinal adds nothing. *)
Identity(e) == <<e.request, e.type>>

(* validate_lifecycle_events *)
Valid(stream) ==
    /\ \A i \in DOMAIN stream :
         (IF i = 1 THEN "nothing" ELSE stream[i - 1].type) \in AllowedPrevious[stream[i].type]
    /\ Cardinality({ Identity(stream[i]) : i \in DOMAIN stream }) = Len(stream)

-----------------------------------------------------------------------------
(* lifecycle_event_drafts                                                  *)

Decided(answer, yes, no) == IF answer.status = "succeeded" THEN yes ELSE no

DraftTypes(operation, answer) ==
    [ start_session     |-> <<"SessionStarted">>,
      resume            |-> <<"SessionStarted">>,
      submit_task       |-> <<"TaskSubmitted">>,
      propose_intent    |-> <<"IntentProposed", "AdmissionRequested",
                              Decided(answer, "AdmissionGranted", "AdmissionDenied")>>,
      request_mutation  |-> <<"MutationRequested",
                              Decided(answer, "MutationAllowed", "MutationDenied")>>,
      observe_result    |-> <<"MutationObserved">>,
      request_amendment |-> <<"ScopeExpansionRequested",
                              Decided(answer, "ScopeExpansionGranted", "ScopeExpansionDenied")>>,
      verify_completion |-> <<"VerificationStarted", "VerificationCompleted">>,
      cancel            |-> <<"AgentStopped">>,
      end_turn          |-> <<"AgentStopped">>,
      stop_session      |-> <<"SessionEnded">> ][operation]

(* Variant: the runtime was asked and did not fail. *)
ClaimsVerifiedAnswered(answer) == answer.status # "failed"

ClaimsVerified(answer) == answer.status = "succeeded" /\ answer.verified

(* The events of one request.  The last one carries the decision, except   *)
(* that a submitted task and the end of an interactive turn have none.     *)
Batch(r, answer) ==
    LET types == DraftTypes(Operation[r], answer)
    IN  [ k \in DOMAIN types |->
            [ type     |-> types[k],
              request  |-> r,
              version  |-> answer.version,
              result   |-> IF k = Len(types) /\ Operation[r] \notin {"submit_task", "end_turn"}
                           THEN answer.status ELSE "requested",
              verified |-> types[k] = "VerificationCompleted" /\ ClaimsVerified(answer) ] ]

-----------------------------------------------------------------------------
(* append_batch                                                            *)

Stored == Range(events)

(* Variant: by the identities of the events alone. *)
RepeatedIdentity(batch) ==
    \A b \in Range(batch) : \E e \in Stored : Identity(b) = Identity(e)

(* A repeated request resolves to the events it already has. *)
Repeated(batch) == Range(batch) \subseteq Stored

(* Another outcome of a request that is already there, in part or whole. *)
Conflicting(batch) ==
    ~Repeated(batch)
    /\ \E e \in Stored : \E b \in Range(batch) : Identity(b) = Identity(e)

Appendable(batch) ==
    ~Repeated(batch) /\ ~Conflicting(batch) /\ Valid(events \o batch)

(* The store takes the batch, whole, or has it already. *)
Append1(batch) ==
    \/ Repeated(batch) /\ UNCHANGED events
    \/ Appendable(batch) /\ events' = events \o batch

(* It raises and rolls back. *)
Refuses(batch) == ~Repeated(batch) /\ ~Appendable(batch)

(* build_lifecycle_report: the last verification decides. *)
ReportsVerified ==
    \E i \in DOMAIN events :
        /\ events[i].type = "VerificationCompleted" /\ events[i].verified
        /\ \A j \in DOMAIN events : events[j].type = "VerificationCompleted" => j <= i
=============================================================================
