------------------------- MODULE ControlledRunsProofs -------------------------
(***************************************************************************)
(* For any set of requests, hooks and agents' orders: a request is decided *)
(* once, cached answers are recorded, verified runs and reports are about  *)
(* completed work, and after a cancellation the session names no authority. *)
(***************************************************************************)
EXTENDS ControlledRuns, Integers, TLAPS

-----------------------------------------------------------------------------
(* Types, as wide as the steps need them.                                  *)

Statuses == {"none", "succeeded", "denied", "cancelled", "failed"}

AnswerShape == [status : Statuses, verified : BOOLEAN, version : Nat]

EventTypes == DOMAIN AllowedPrevious

EventShape ==
    [ type : EventTypes, request : Requests, version : Nat,
      result : Statuses \cup {"requested"}, verified : BOOLEAN ]

CallShape ==
    [ at : {"idle", "act", "activate", "bind", "replay", "respond", "record", "store",
            "answered", "raised"},
      request : Requests, expected : Nat, answer : AnswerShape ]

RunShape ==
    [ interactive : BOOLEAN,
      phase : {"running", "exited", "verifying", "sealing", "stopped", "revoking", "over"},
      clean : BOOLEAN,
      outcome : {"NONE", "VERIFIED", "REVIEW_REQUIRED", "REJECTED", "FAILED",
                 "CANCELLED", "TIMED_OUT"},
      cancellation : {"none", "cancelled", "failed"} ]

(* An intent waits for its name only while the session names none that is  *)
(* at work or done.                                                        *)
AuthShape ==
    { a \in [phase : Phases, version : Nat, spare : {"none", "live", "lapsed"}] :
        a.phase \in {"active", "completed"} => a.spare = "none" }

Shapes ==
    /\ events \in Seq(EventShape)
    /\ auth \in AuthShape
    /\ cache \in [Requests -> AnswerShape]
    /\ call \in [Callers -> CallShape]
    /\ run \in RunShape

(* The first event of a request, which its operation alone decides. *)
HeadType(r) == DraftTypes(Operation[r], NoAnswer)[1]

-----------------------------------------------------------------------------
(* What one request contributes.                                           *)

(* The types of a batch: one to three, the first decided by the operation. *)
LEMMA DraftTypesShape ==
    ASSUME NEW operation \in Operations, NEW answer
    PROVE  /\ DraftTypes(operation, answer) \in Seq(EventTypes)
           /\ Len(DraftTypes(operation, answer)) \in Nat \ {0}
           /\ DraftTypes(operation, answer)[1] = DraftTypes(operation, NoAnswer)[1]
  <1>1. \A type \in {"SessionStarted", "TaskSubmitted", "MutationObserved",
                     "VerificationStarted", "VerificationCompleted", "AgentStopped",
                     "SessionEnded"} : type \in EventTypes
    BY DEF EventTypes, AllowedPrevious
  <1>2. \A type \in {"IntentProposed", "AdmissionRequested", "AdmissionGranted",
                     "AdmissionDenied", "MutationRequested", "MutationAllowed",
                     "MutationDenied", "ScopeExpansionRequested", "ScopeExpansionGranted",
                     "ScopeExpansionDenied"} : type \in EventTypes
    BY DEF EventTypes, AllowedPrevious
  <1>3. CASE operation \in {"start_session", "resume"}
    <2>1. \A out : DraftTypes(operation, out) = <<"SessionStarted">>
      BY <1>3 DEF DraftTypes
    <2>2. \A out :
            /\ <<"SessionStarted">> \in Seq(EventTypes)
            /\ Len(<<"SessionStarted">>) \in Nat \ {0}
            /\ <<"SessionStarted">>[1] = "SessionStarted"
      BY <1>1
    <2> QED  BY <2>1, <2>2, Zenon
  <1>4. CASE operation \in {"cancel", "end_turn"}
    <2>1. \A out : DraftTypes(operation, out) = <<"AgentStopped">>
      BY <1>4 DEF DraftTypes
    <2>2. \A out :
            /\ <<"AgentStopped">> \in Seq(EventTypes)
            /\ Len(<<"AgentStopped">>) \in Nat \ {0}
            /\ <<"AgentStopped">>[1] = "AgentStopped"
      BY <1>1
    <2> QED  BY <2>1, <2>2, Zenon
  <1>5. CASE operation = "submit_task"
    <2>1. \A out : DraftTypes(operation, out) = <<"TaskSubmitted">>
      BY <1>5 DEF DraftTypes
    <2>2. \A out :
            /\ <<"TaskSubmitted">> \in Seq(EventTypes)
            /\ Len(<<"TaskSubmitted">>) \in Nat \ {0}
            /\ <<"TaskSubmitted">>[1] = "TaskSubmitted"
      BY <1>1
    <2> QED  BY <2>1, <2>2, Zenon
  <1>6. CASE operation = "observe_result"
    <2>1. \A out : DraftTypes(operation, out) = <<"MutationObserved">>
      BY <1>6 DEF DraftTypes
    <2>2. \A out :
            /\ <<"MutationObserved">> \in Seq(EventTypes)
            /\ Len(<<"MutationObserved">>) \in Nat \ {0}
            /\ <<"MutationObserved">>[1] = "MutationObserved"
      BY <1>1
    <2> QED  BY <2>1, <2>2, Zenon
  <1>7. CASE operation = "stop_session"
    <2>1. \A out : DraftTypes(operation, out) = <<"SessionEnded">>
      BY <1>7 DEF DraftTypes
    <2>2. \A out :
            /\ <<"SessionEnded">> \in Seq(EventTypes)
            /\ Len(<<"SessionEnded">>) \in Nat \ {0}
            /\ <<"SessionEnded">>[1] = "SessionEnded"
      BY <1>1
    <2> QED  BY <2>1, <2>2, Zenon
  <1>8. CASE operation = "verify_completion"
    <2>1. \A out : DraftTypes(operation, out) =
                      <<"VerificationStarted", "VerificationCompleted">>
      BY <1>8 DEF DraftTypes
    <2>2. \A out :
            /\ <<"VerificationStarted", "VerificationCompleted">> \in Seq(EventTypes)
            /\ Len(<<"VerificationStarted", "VerificationCompleted">>) \in Nat \ {0}
            /\ <<"VerificationStarted", "VerificationCompleted">>[1] = "VerificationStarted"
      BY <1>1
    <2> QED  BY <2>1, <2>2, Zenon
  <1>9. CASE operation = "propose_intent"
    <2>1. \A out : DraftTypes(operation, out) =
                      <<"IntentProposed", "AdmissionRequested",
                        Decided(out, "AdmissionGranted", "AdmissionDenied")>>
      BY <1>9 DEF DraftTypes
    <2>2. \A out :
            /\ <<"IntentProposed", "AdmissionRequested", Decided(out, "AdmissionGranted", "AdmissionDenied")>> \in Seq(EventTypes)
            /\ Len(<<"IntentProposed", "AdmissionRequested", Decided(out, "AdmissionGranted", "AdmissionDenied")>>) \in Nat \ {0}
            /\ <<"IntentProposed", "AdmissionRequested", Decided(out, "AdmissionGranted", "AdmissionDenied")>>[1] = "IntentProposed"
      BY <1>2 DEF Decided
    <2> QED  BY <2>1, <2>2, Zenon
  <1>10. CASE operation = "request_mutation"
    <2>1. \A out : DraftTypes(operation, out) =
                      <<"MutationRequested", Decided(out, "MutationAllowed", "MutationDenied")>>
      BY <1>10 DEF DraftTypes
    <2>2. \A out :
            /\ <<"MutationRequested", Decided(out, "MutationAllowed", "MutationDenied")>> \in Seq(EventTypes)
            /\ Len(<<"MutationRequested", Decided(out, "MutationAllowed", "MutationDenied")>>) \in Nat \ {0}
            /\ <<"MutationRequested", Decided(out, "MutationAllowed", "MutationDenied")>>[1] = "MutationRequested"
      BY <1>2 DEF Decided
    <2> QED  BY <2>1, <2>2, Zenon
  <1>11. CASE operation = "request_amendment"
    <2>1. \A out : DraftTypes(operation, out) =
                      <<"ScopeExpansionRequested",
                        Decided(out, "ScopeExpansionGranted", "ScopeExpansionDenied")>>
      BY <1>11 DEF DraftTypes
    <2>2. \A out :
            /\ <<"ScopeExpansionRequested", Decided(out, "ScopeExpansionGranted", "ScopeExpansionDenied")>> \in Seq(EventTypes)
            /\ Len(<<"ScopeExpansionRequested", Decided(out, "ScopeExpansionGranted", "ScopeExpansionDenied")>>) \in Nat \ {0}
            /\ <<"ScopeExpansionRequested", Decided(out, "ScopeExpansionGranted", "ScopeExpansionDenied")>>[1] = "ScopeExpansionRequested"
      BY <1>2 DEF Decided
    <2> QED  BY <2>1, <2>2, Zenon
  <1> QED
    BY <1>3, <1>4, <1>5, <1>6, <1>7, <1>8, <1>9, <1>10, <1>11 DEF Operations

(* A batch: events of one request, only the last of which can be decided,  *)
(* and none verified unless the answer is.                                 *)
LEMMA BatchShape ==
    ASSUME NEW r \in Requests, NEW answer \in AnswerShape
    PROVE  /\ Batch(r, answer) \in Seq(EventShape)
           /\ Len(Batch(r, answer)) \in Nat \ {0}
           /\ \A k \in 1..Len(Batch(r, answer)) :
                /\ Batch(r, answer)[k].request = r
                /\ Batch(r, answer)[k].result # "requested" => k = Len(Batch(r, answer))
                /\ Batch(r, answer)[k].verified => answer.verified
           /\ Batch(r, answer)[1].type = HeadType(r)
  <1> DEFINE types == DraftTypes(Operation[r], answer)
  <1>1. Operation[r] \in Operations
    BY LifecycleAssumption
  <1>2. types \in Seq(EventTypes) /\ Len(types) \in Nat \ {0} /\ types[1] = HeadType(r)
    BY <1>1, DraftTypesShape DEF HeadType
  <1> HIDE DEF types
  <1>3. DOMAIN types = 1..Len(types) /\ \A k \in 1..Len(types) : types[k] \in EventTypes
    BY <1>2
  <1>4. ClaimsVerified(answer) \in BOOLEAN /\ (ClaimsVerified(answer) => answer.verified)
    BY DEF ClaimsVerified, AnswerShape
  <1>5. Batch(r, answer) =
          [ k \in 1..Len(types) |->
              [ type     |-> types[k],
                request  |-> r,
                version  |-> answer.version,
                result   |-> IF k = Len(types) /\ Operation[r] \notin {"submit_task", "end_turn"}
                             THEN answer.status ELSE "requested",
                verified |-> types[k] = "VerificationCompleted" /\ ClaimsVerified(answer) ] ]
    BY <1>3, Zenon DEF Batch, types
  <1>6. \A k \in 1..Len(types) : Batch(r, answer)[k] \in EventShape
    <2> SUFFICES ASSUME NEW k \in 1..Len(types)
                 PROVE  Batch(r, answer)[k] \in EventShape
      OBVIOUS
    <2>1. types[k] \in EventTypes /\ answer.status \in Statuses /\ answer.version \in Nat
      BY <1>3 DEF AnswerShape
    <2>2. (types[k] = "VerificationCompleted" /\ ClaimsVerified(answer)) \in BOOLEAN
      BY <1>4
    <2> DEFINE result == IF k = Len(types) /\ Operation[r] \notin {"submit_task", "end_turn"}
                         THEN answer.status ELSE "requested"
    <2>3. result \in Statuses \cup {"requested"}
      BY <2>1
    <2> HIDE DEF result
    <2>4. Batch(r, answer)[k] =
            [ type |-> types[k], request |-> r, version |-> answer.version,
              result |-> result,
              verified |-> types[k] = "VerificationCompleted" /\ ClaimsVerified(answer) ]
      BY <1>5 DEF result
    <2> QED
      BY <2>1, <2>2, <2>3, <2>4 DEF EventShape
  <1>7. Batch(r, answer) \in Seq(EventShape) /\ Len(Batch(r, answer)) = Len(types)
    BY <1>2, <1>5, <1>6
  <1>8. \A k \in 1..Len(types) :
          /\ Batch(r, answer)[k].request = r
          /\ Batch(r, answer)[k].result # "requested" => k = Len(types)
          /\ Batch(r, answer)[k].verified => answer.verified
    BY <1>4, <1>5
  <1>9. Batch(r, answer)[1].type = HeadType(r)
    BY <1>2, <1>5
  <1> QED
    BY <1>2, <1>7, <1>8, <1>9

(* What an operation does: completed work stays completed, only completed  *)
(* work is verified, and a cancellation leaves no active intent.           *)
LEMMA ServeShape ==
    ASSUME auth \in AuthShape, MaxVersion \in Nat,
           NEW operation, NEW out \in Responses, Serve(operation, out)
    PROVE  /\ out \in AnswerShape /\ out.status # "failed"
           /\ auth' \in AuthShape
           /\ auth.phase = "completed" => auth'.phase = "completed"
           /\ out.verified => auth'.phase = "completed"
           /\ operation = "cancel" => auth'.phase # "active"
  <1>1. out \in AnswerShape
    BY DEF Responses, AnswerShape, Statuses
  <1>2. out.status # "failed"
    BY DEF Serve, Reply, Verified, Bound
  <1>3. auth' \in AuthShape
    BY DEF Serve, Became, Amended, Phases, Bound, AuthShape
  <1>4. auth.phase = "completed" => auth'.phase = "completed"
    BY DEF Serve, Became, Amended, Bound, AuthShape
  <1>5. out.verified => auth'.phase = "completed"
    BY DEF Serve, Became, Reply, Verified, AuthShape
  <1>6. operation = "cancel" => auth'.phase # "active"
    BY DEF Serve, Became, Bound, AuthShape
  <1> QED
    BY <1>1, <1>2, <1>3, <1>4, <1>5, <1>6

(* The steps of an admission: none of them touches completed work.         *)
LEMMA AdmissionShape ==
    ASSUME auth \in AuthShape, NEW operation,
           (Admitting(operation) /\ Reserved) \/ Named
    PROVE  auth' \in AuthShape /\ (auth.phase = "completed" => auth'.phase = "completed")
  BY DEF AuthShape, Admitting, Reserved, Named, Phases

-----------------------------------------------------------------------------
(* The forms a call takes.                                                 *)

(* No answer and no call have their shapes. *)
LEMMA NoAnswerShape == NoAnswer \in AnswerShape /\ Idle \in CallShape
  BY RunAssumption DEF NoAnswer, Idle, AnswerShape, CallShape, Statuses, Own

(* A call begins on the cached answer, and is replayed only if there is one. *)
LEMMA BeginForm ==
    ASSUME NEW c, NEW r, NEW expected, Begin(c, r, expected)
    PROVE  \E step \in {"act", "replay"} :
             /\ step = "replay" => cache[r] # NoAnswer
             /\ call' = [call EXCEPT ![c] =
                           [ at |-> step, request |-> r,
                             expected |-> expected, answer |-> cache[r] ]]
  BY DEF Begin

(* A call ends where it was, or is forgotten. *)
LEMMA EndForm ==
    ASSUME NEW c, NEW how, End(c, how)
    PROVE  \E done \in {Idle, [call[c] EXCEPT !.at = how]} :
             /\ c = "launcher" => done = [call[c] EXCEPT !.at = how]
             /\ call' = [call EXCEPT ![c] = done]
  BY DEF End

(* A step of the recording: where the call is afterwards. *)
LEMMA RecordForm ==
    ASSUME NEW c, Record(c), call[c] \in CallShape
    PROVE  \E done \in {Idle, [call[c] EXCEPT !.at = "answered"],
                        [call[c] EXCEPT !.at = "raised"], [call[c] EXCEPT !.at = "store"]} :
             /\ call' = [call EXCEPT ![c] = done]
             /\ c = "launcher" => done # Idle
             /\ done.at = "store" => Append1(Batch(call[c].request, call[c].answer))
             /\ c = "launcher" /\ done.at \in {"store", "answered"} =>
                    call[c].answer.status # "failed"
             /\ \/ Append1(Batch(call[c].request, call[c].answer))
                \/ UNCHANGED events
  <1>1. [call[c] EXCEPT !.at = "raised"].at = "raised"
    BY DEF CallShape
  <1>2. Idle.at = "idle"
    BY DEF Idle
  <1>5. /\ [call[c] EXCEPT !.at = "answered"].at = "answered"
        /\ [call[c] EXCEPT !.at = "store"].at = "store"
    BY DEF CallShape
  <1>3. CASE Refuses(Batch(call[c].request, call[c].answer)) /\ End(c, "raised")
             /\ UNCHANGED events
    <2>1. PICK done \in {Idle, [call[c] EXCEPT !.at = "raised"]} :
                 /\ c = "launcher" => done = [call[c] EXCEPT !.at = "raised"]
                 /\ call' = [call EXCEPT ![c] = done]
      BY <1>3, EndForm
    <2>2. done.at \notin {"store", "answered"}
      BY <2>1, <1>1, <1>2
    <2> QED
      BY <2>1, <2>2, <1>1, <1>2, <1>3
  <1>4. CASE Append1(Batch(call[c].request, call[c].answer))
    <2>1. CASE call[c].answer.status = "failed" /\ End(c, "raised")
      <3>1. PICK done \in {Idle, [call[c] EXCEPT !.at = "raised"]} :
                   /\ c = "launcher" => done = [call[c] EXCEPT !.at = "raised"]
                   /\ call' = [call EXCEPT ![c] = done]
        BY <2>1, EndForm
      <3>2. done.at \notin {"store", "answered"}
        BY <3>1, <1>1, <1>2
      <3> QED
        BY <3>1, <3>2, <1>1, <1>2, <1>4
    <2>2. CASE call[c].answer.status # "failed" /\ End(c, "answered")
      <3>1. PICK done \in {Idle, [call[c] EXCEPT !.at = "answered"]} :
                   /\ c = "launcher" => done = [call[c] EXCEPT !.at = "answered"]
                   /\ call' = [call EXCEPT ![c] = done]
        BY <2>2, EndForm
      <3> QED
        BY <3>1, <2>2, <1>2, <1>4, <1>5
    <2>3. CASE call[c].answer.status # "failed" /\ Go(c, "store")
      <3>1. call' = [call EXCEPT ![c] = [call[c] EXCEPT !.at = "store"]]
        BY <2>3 DEF Go
      <3> QED
        BY <3>1, <2>3, <1>2, <1>4, <1>5
    <2>4. ~Refuses(Batch(call[c].request, call[c].answer))
      BY <1>4 DEF Refuses, Append1
    <2>5. \/ call[c].answer.status = "failed" /\ End(c, "raised")
          \/ call[c].answer.status # "failed" /\ End(c, "answered")
          \/ call[c].answer.status # "failed" /\ Go(c, "store")
      BY <2>4, Zenon DEF Record
    <2> QED
      BY <2>1, <2>2, <2>3, <2>5, Zenon
  <1> QED
    BY <1>3, <1>4 DEF Record

-----------------------------------------------------------------------------
(* The stream.                                                             *)

(* Where the elements of a concatenation come from. *)
LEMMA Concat ==
    ASSUME NEW S, NEW s \in Seq(S), NEW t \in Seq(S)
    PROVE  /\ s \o t \in Seq(S)
           /\ DOMAIN (s \o t) = 1..(Len(s) + Len(t))
           /\ \A i \in 1..Len(s) : (s \o t)[i] = s[i] /\ i \in DOMAIN (s \o t)
           /\ \A k \in 1..Len(t) :
                (s \o t)[Len(s) + k] = t[k] /\ Len(s) + k \in DOMAIN (s \o t)
           /\ \A i \in DOMAIN (s \o t) :
                \/ i \in 1..Len(s)
                \/ i - Len(s) \in 1..Len(t) /\ (s \o t)[i] = t[i - Len(s)]
  <1>1. s \o t \in Seq(S) /\ DOMAIN (s \o t) = 1..(Len(s) + Len(t))
    OBVIOUS
  <1>2. Len(s) \in Nat /\ Len(t) \in Nat
    OBVIOUS
  <1>3. \A i \in 1..Len(s) : (s \o t)[i] = s[i]
    OBVIOUS
  <1>4. \A i \in 1..Len(s) : i \in 1..(Len(s) + Len(t))
    BY <1>2
  <1>5. \A k \in 1..Len(t) : (s \o t)[Len(s) + k] = t[k]
    OBVIOUS
  <1>6. \A k \in 1..Len(t) : Len(s) + k \in 1..(Len(s) + Len(t))
    BY <1>2
  <1>7. \A i \in 1..(Len(s) + Len(t)) : i \in 1..Len(s) \/ i - Len(s) \in 1..Len(t)
    BY <1>2
  <1>8. \A i \in 1..(Len(s) + Len(t)) :
          i - Len(s) \in 1..Len(t) => (s \o t)[i] = t[i - Len(s)]
    BY <1>2
  <1> QED
    BY <1>1, <1>3, <1>4, <1>5, <1>6, <1>7, <1>8

(* Whoever has an event in the stream has his first one there. *)
HeadInStream ==
    \A i \in DOMAIN events : \E j \in DOMAIN events :
        events[j].request = events[i].request /\ events[j].type = HeadType(events[i].request)

(* What is about to be cached is recorded. *)
StoredCalls ==
    \A c \in Callers :
        call[c].at = "store" => Range(Batch(call[c].request, call[c].answer)) \subseteq Range(events)

StreamInv ==
    HeadInStream /\ OneOutcomePerRequest /\ CachedIsRecorded /\ StoredCalls

(* A batch that is taken is of a request that has no event yet. *)
LEMMA AppendedIsNew ==
    ASSUME Shapes, HeadInStream, NEW r \in Requests, NEW answer \in AnswerShape,
           Appendable(Batch(r, answer))
    PROVE  \A i \in DOMAIN events : events[i].request # r
  <1> SUFFICES ASSUME NEW i \in DOMAIN events, events[i].request = r
               PROVE  FALSE
    OBVIOUS
  <1>1. PICK j \in DOMAIN events : events[j].request = r /\ events[j].type = HeadType(r)
    BY DEF HeadInStream
  <1> DEFINE b == Batch(r, answer)
  <1>2. b \in Seq(EventShape) /\ Len(b) \in Nat \ {0}
        /\ \A k \in 1..Len(b) : b[k].request = r
        /\ b[1].type = HeadType(r)
    BY BatchShape
  <1> HIDE DEF b
  <1>3. 1 \in DOMAIN b /\ b[1].request = r /\ b[1].type = HeadType(r)
    BY <1>2
  <1>4. Identity(b[1]) = Identity(events[j])
    BY <1>1, <1>3 DEF Identity
  <1>5. b[1] \in Range(b) /\ events[j] \in Stored
    BY <1>1, <1>3 DEF Range, Stored
  <1> QED
    BY <1>4, <1>5 DEF Appendable, Conflicting, b

(* Taking a batch keeps the stream in order. *)
LEMMA AppendKeeps ==
    ASSUME Shapes, HeadInStream, OneOutcomePerRequest,
           NEW r \in Requests, NEW answer \in AnswerShape, Append1(Batch(r, answer))
    PROVE  /\ events' \in Seq(EventShape)
           /\ HeadInStream' /\ OneOutcomePerRequest'
           /\ Range(events) \subseteq Range(events')
           /\ Range(Batch(r, answer)) \subseteq Range(events')
           /\ \A i \in DOMAIN events' :
                events'[i].verified =>
                    answer.verified \/ \E j \in DOMAIN events : events[j].verified
  <1>1. CASE Repeated(Batch(r, answer)) /\ UNCHANGED events
    <2>1. events' = events /\ Range(Batch(r, answer)) \subseteq Range(events)
      BY <1>1 DEF Repeated, Stored
    <2>2. HeadInStream' /\ OneOutcomePerRequest'
      BY <2>1 DEF HeadInStream, OneOutcomePerRequest
    <2> QED
      BY <2>1, <2>2 DEF Shapes
  <1>2. CASE Appendable(Batch(r, answer)) /\ events' = events \o Batch(r, answer)
    <2> DEFINE b == Batch(r, answer)
    <2>1. \A i \in DOMAIN events : events[i].request # r
      BY <1>2, AppendedIsNew
    <2>2. /\ b \in Seq(EventShape)
          /\ Len(b) \in Nat \ {0}
          /\ \A k \in 1..Len(b) :
               /\ b[k].request = r
               /\ b[k].result # "requested" => k = Len(b)
               /\ b[k].verified => answer.verified
          /\ b[1].type = HeadType(r)
      BY BatchShape
    <2>3. events \in Seq(EventShape) /\ events' = events \o b
      BY <1>2 DEF Shapes
    <2> HIDE DEF b
    <2> DEFINE n == Len(events)
    <2>4. n \in Nat /\ DOMAIN events = 1..n /\ DOMAIN b = 1..Len(b)
      BY <2>2, <2>3
    <2>5. events' \in Seq(EventShape) /\ DOMAIN events' = 1..(n + Len(b))
      BY <2>2, <2>3, Concat
    <2>6. /\ \A i \in 1..n : events'[i] = events[i]
          /\ \A k \in 1..Len(b) : events'[n + k] = b[k] /\ n + k \in DOMAIN events'
          /\ \A i \in DOMAIN events' :
               i \in 1..n \/ (i - n \in 1..Len(b) /\ events'[i] = b[i - n])
      BY <2>2, <2>3, Concat
    <2>7. \A i \in 1..n : i \in DOMAIN events'
      BY <2>2, <2>3, Concat
    <2> HIDE DEF n
    <2>8. HeadInStream'
      <3> SUFFICES ASSUME NEW i \in DOMAIN events'
                   PROVE  \E j \in DOMAIN events' :
                             /\ events'[j].request = events'[i].request
                             /\ events'[j].type = HeadType(events'[i].request)
        BY DEF HeadInStream, HeadType
      <3>1. CASE i \in 1..n
        BY <3>1, <2>4, <2>6, <2>7 DEF HeadInStream
      <3>2. CASE i - n \in 1..Len(b) /\ events'[i] = b[i - n]
        <4>1. events'[i].request = r
          BY <3>2, <2>2
        <4>2. 1 \in 1..Len(b)
          BY <2>2
        <4>3. n + 1 \in DOMAIN events' /\ events'[n + 1] = b[1]
          BY <4>2, <2>6
        <4>4. b[1].request = r /\ b[1].type = HeadType(r)
          BY <4>2, <2>2
        <4> QED
          BY <4>1, <4>3, <4>4
      <3> QED
        BY <3>1, <3>2, <2>6
    <2>9. OneOutcomePerRequest'
      <3> SUFFICES ASSUME NEW i \in DOMAIN events', NEW j \in DOMAIN events',
                          events'[i].request = events'[j].request,
                          events'[i].result # "requested", events'[j].result # "requested"
                   PROVE  i = j
        BY DEF OneOutcomePerRequest
      <3>1. CASE i \in 1..n /\ j \in 1..n
        BY <3>1, <2>4, <2>6 DEF OneOutcomePerRequest
      <3>2. CASE i \in 1..n /\ j \notin 1..n
        <4>1. events'[i].request # r
          BY <3>2, <2>1, <2>4, <2>6
        <4>2. events'[j].request = r
          BY <3>2, <2>2, <2>6
        <4> QED
          BY <4>1, <4>2
      <3>3. CASE i \notin 1..n /\ j \in 1..n
        <4>1. events'[j].request # r
          BY <3>3, <2>1, <2>4, <2>6
        <4>2. events'[i].request = r
          BY <3>3, <2>2, <2>6
        <4> QED
          BY <4>1, <4>2
      <3>4. CASE i \notin 1..n /\ j \notin 1..n
        <4>1. i - n = Len(b) /\ j - n = Len(b)
          BY <3>4, <2>2, <2>6
        <4> QED
          BY <4>1, <2>4, <2>5
      <3> QED
        BY <3>1, <3>2, <3>3, <3>4
    <2>10. Range(events) \subseteq Range(events') /\ Range(b) \subseteq Range(events')
      BY <2>4, <2>6, <2>7 DEF Range
    <2>11. \A i \in DOMAIN events' :
             events'[i].verified => answer.verified \/ \E j \in DOMAIN events : events[j].verified
      BY <2>2, <2>4, <2>6
    <2> QED
      BY <2>5, <2>8, <2>9, <2>10, <2>11 DEF b
  <1> QED
    BY <1>1, <1>2 DEF Append1

-----------------------------------------------------------------------------
(* Steps that decide nothing: they start, answer or forget calls, or move  *)
(* the launcher on.                                                        *)

(* No call comes to hold an answer to store, or a new verification. *)
QuietCalls ==
    /\ call' \in [Callers -> CallShape]
    /\ \A c \in Callers :
         \/ call'[c] = call[c]
         \/ /\ call'[c].at # "store"
            /\ call'[c].answer.verified =>
                  call[c].answer.verified \/ \E r \in Requests : cache[r].verified

(* The run is VERIFIED only on account of a verification. *)
QuietRun ==
    /\ run' \in RunShape
    /\ run'.outcome = "VERIFIED" =>
          \/ run.outcome = "VERIFIED" \/ auth.phase = "completed"
          \/ \E c \in Callers : call[c].answer.verified

QuietStep == UNCHANGED <<events, auth, cache>> /\ QuietCalls /\ QuietRun

(* One call is replaced by one that stores nothing and verifies nothing new. *)
LEMMA OneCallQuiet ==
    ASSUME Shapes, NEW c \in Callers, NEW done \in CallShape,
           call' = [call EXCEPT ![c] = done], done.at # "store",
           done.answer.verified =>
               call[c].answer.verified \/ \E r \in Requests : cache[r].verified
    PROVE  QuietCalls
  BY DEF Shapes, QuietCalls

(* A call that begins. *)
LEMMA BeginQuiet ==
    ASSUME Shapes, NEW c \in Callers, NEW r \in Requests, NEW expected \in Nat,
           Begin(c, r, expected)
    PROVE  QuietCalls
  <1>1. PICK step \in {"act", "replay"} :
            call' = [call EXCEPT ![c] =
                      [ at |-> step, request |-> r,
                        expected |-> expected, answer |-> cache[r] ]]
    BY BeginForm
  <1> DEFINE done == [ at |-> step, request |-> r,
                       expected |-> expected, answer |-> cache[r] ]
  <1>2. cache[r] \in AnswerShape
    BY DEF Shapes
  <1>3. done \in CallShape /\ done.at # "store" /\ done.answer = cache[r]
    BY <1>1, <1>2 DEF CallShape
  <1> HIDE DEF done
  <1> QED
    BY <1>1, <1>3, OneCallQuiet DEF done

(* The launcher calls, with requests of its own. *)
LEMMA LauncherCaller == "launcher" \in Callers /\ Own \subseteq Requests /\ Hooks \subseteq Callers
  BY RunAssumption DEF Callers

(* Forgotten calls. *)
LEMMA TerminatedQuiet ==
    ASSUME Shapes, Terminated
    PROVE  QuietCalls
  BY NoAnswerShape DEF Shapes, Terminated, QuietCalls, Idle, NoAnswer

(* A hook that dies. *)
LEMMA HookDiesQuiet ==
    ASSUME Shapes, NEW h \in Hooks, HookDies(h)
    PROVE  QuietStep
  <1>1. h \in Callers /\ Idle \in CallShape /\ Idle.at # "store" /\ ~Idle.answer.verified
    BY LauncherCaller, NoAnswerShape DEF Idle, NoAnswer
  <1>2. QuietCalls
    BY <1>1, OneCallQuiet DEF HookDies
  <1> QED
    BY <1>2 DEF HookDies, QuietStep, QuietRun, Shapes

(* A hook that begins a request. *)
LEMMA HookBeginQuiet ==
    ASSUME Shapes, NEW h \in Hooks, NEW r \in Requests, HookBegin(h, r)
    PROVE  QuietStep
  BY BeginQuiet, LauncherCaller DEF HookBegin, QuietStep, QuietRun, Shapes

(* An admitted intent is activated. *)
LEMMA ActivateQuiet ==
    ASSUME Shapes, NEW c \in Callers, Activate(c)
    PROVE  QuietStep
  <1> DEFINE done == [call[c] EXCEPT !.at = "bind"]
  <1>1. call[c] \in CallShape
    BY DEF Shapes
  <1>2. done \in CallShape /\ done.at # "store" /\ done.answer = call[c].answer
    BY <1>1 DEF CallShape
  <1>3. call' = [call EXCEPT ![c] = done]
    BY Zenon DEF Activate, Go
  <1> HIDE DEF done
  <1>4. QuietCalls
    BY <1>2, <1>3, OneCallQuiet
  <1> QED
    BY <1>4 DEF Activate, QuietStep, QuietRun, Shapes

(* An answer gets its version. *)
LEMMA RespondQuiet ==
    ASSUME Shapes, NEW c \in Callers, Respond(c)
    PROVE  QuietStep
  <1> DEFINE done == [call[c] EXCEPT !.at = "record",
                                     !.answer = [call[c].answer EXCEPT !.version = auth.version]]
  <1>1. call[c] \in CallShape /\ call[c].answer \in AnswerShape /\ auth.version \in Nat
    BY DEF Shapes, CallShape, AuthShape
  <1>2. done \in CallShape /\ done.at # "store"
        /\ done.answer.verified = call[c].answer.verified
    BY <1>1 DEF CallShape, AnswerShape
  <1>3. call' = [call EXCEPT ![c] = done]
    BY Zenon DEF Respond
  <1> HIDE DEF done
  <1>4. QuietCalls
    BY <1>2, <1>3, OneCallQuiet
  <1> QED
    BY <1>4 DEF Respond, QuietStep, QuietRun, Shapes

(* A run that is over, or settles, has an outcome it is entitled to. *)
LEMMA ClassifiedShape ==
    ASSUME NEW verified \in BOOLEAN, NEW outcome \in Classified(verified)
    PROVE  /\ outcome \in {"VERIFIED", "REVIEW_REQUIRED", "REJECTED", "FAILED"}
           /\ outcome = "VERIFIED" => verified
  BY DEF Classified, Gated

(* A run that settles. *)
LEMMA SettleQuiet ==
    ASSUME Shapes, NEW verified \in BOOLEAN, NEW outcome \in Classified(verified),
           Settle(outcome),
           verified => auth.phase = "completed" \/ \E c \in Callers : call[c].answer.verified
    PROVE  QuietCalls /\ QuietRun
  <1>1. QuietCalls
    <2>1. CASE Begin("launcher", "seal", 0)
      BY <2>1, BeginQuiet, LauncherCaller DEF Own
    <2>2. CASE UNCHANGED call
      BY <2>2 DEF QuietCalls, Shapes
    <2> QED
      BY <2>1, <2>2 DEF Settle
  <1>2. run \in RunShape
    BY DEF Shapes
  <1>3. outcome \in {"VERIFIED", "REVIEW_REQUIRED", "REJECTED", "FAILED"}
    BY ClassifiedShape
  <1>4. \/ run' = [run EXCEPT !.phase = "sealing", !.outcome = outcome]
        \/ run' = [run EXCEPT !.phase = "over", !.outcome = outcome]
    BY DEF Settle, Over
  <1>5. run' \in RunShape /\ run'.outcome = outcome
    BY <1>2, <1>3, <1>4 DEF RunShape
  <1> QED
    BY <1>1, <1>5, ClassifiedShape DEF QuietRun

(* The remaining steps of the launcher. *)
LEMMA LauncherQuiet ==
    ASSUME Shapes,
           \/ \E clean \in BOOLEAN : Exit(clean)
           \/ ExitUnknown \/ ExitUnbound \/ Sealed \/ GaveUp \/ Revoked
           \/ TimeOut \/ Interrupt \/ FinalVerify \/ Revoke
           \/ AlreadyVerified \/ FinalVerified
    PROVE  QuietStep
  <1>1. /\ run \in RunShape /\ auth.version \in Nat
        /\ call["launcher"].answer.verified \in BOOLEAN
    BY LauncherCaller DEF Shapes, CallShape, AnswerShape, AuthShape
  <1>2. "seal" \in Requests /\ "final" \in Requests /\ "abort" \in Requests
    BY LauncherCaller DEF Own
  <1>3. UNCHANGED call => QuietCalls
    BY DEF QuietCalls, Shapes
  <1>4. ASSUME NEW clean \in BOOLEAN, Exit(clean) PROVE QuietStep
    BY <1>1, <1>3, <1>4 DEF Exit, QuietStep, QuietRun, RunShape
  <1>5. CASE ExitUnknown
    BY <1>1, <1>3, <1>5 DEF ExitUnknown, Unclaimed, Over, QuietStep, QuietRun, RunShape
  <1>6. CASE ExitUnbound
    <2>1. PICK outcome \in {"CANCELLED", "REJECTED", "REVIEW_REQUIRED", "FAILED"} : Over(outcome)
      BY <1>6 DEF ExitUnbound, Unclaimed, Classified
    <2> QED
      BY <1>1, <1>3, <1>6, <2>1 DEF ExitUnbound, Unclaimed, Over, QuietStep, QuietRun, RunShape
  <1>7. CASE Sealed
    BY <1>1, <1>3, <1>7 DEF Sealed, Over, QuietStep, QuietRun, RunShape
  <1>8. CASE GaveUp
    BY <1>1, <1>8, TerminatedQuiet DEF GaveUp, Unclaimed, QuietStep, QuietRun, RunShape
  <1>9. CASE Revoked
    BY <1>1, <1>3, <1>9 DEF Revoked, QuietStep, QuietRun, RunShape
  <1>10. CASE TimeOut
    BY <1>1, <1>10, TerminatedQuiet DEF TimeOut, Unclaimed, QuietStep, QuietRun, RunShape
  <1>11. CASE Interrupt
    BY <1>1, <1>11, TerminatedQuiet DEF Interrupt, QuietStep, QuietRun, RunShape
  <1>12. CASE FinalVerify
    <2>1. QuietCalls
      BY <1>1, <1>2, <1>12, LauncherCaller, BeginQuiet DEF FinalVerify
    <2> QED
      BY <1>1, <1>12, <2>1 DEF FinalVerify, Launcher, QuietStep, QuietRun, RunShape
  <1>13. CASE Revoke
    <2>1. QuietCalls
      BY <1>1, <1>2, <1>3, <1>13, LauncherCaller, BeginQuiet DEF Revoke
    <2>2. QuietRun
      BY <1>1, <1>13 DEF Revoke, Over, Launcher, QuietRun, RunShape
    <2> QED
      BY <1>13, <2>1, <2>2 DEF Revoke, QuietStep
  <1>14. CASE AlreadyVerified
    BY <1>14, SettleQuiet DEF AlreadyVerified, QuietStep
  <1>15. CASE FinalVerified
    <2>1. PICK outcome \in Classified(call["launcher"].answer.verified) : Settle(outcome)
      BY <1>15 DEF FinalVerified
    <2>2. QuietCalls /\ QuietRun
      BY <1>1, <2>1, LauncherCaller, SettleQuiet
    <2> QED
      BY <1>15, <2>2 DEF FinalVerified, QuietStep
  <1> QED
    BY <1>4, <1>5, <1>6, <1>7, <1>8, <1>9, <1>10, <1>11, <1>12, <1>13, <1>14, <1>15

(* A step takes effect, records, stores, lapses, or decides nothing. *)
LEMMA StepForms ==
    ASSUME Shapes, [RunNext]_runVars
    PROVE  \/ QuietStep \/ Lapse
           \/ \E c \in Callers :
                \/ Act(c) \/ Admit(c) \/ Bind(c) \/ ActRaises(c)
                \/ Record(c) \/ Store(c)
  <1>1. CASE UNCHANGED runVars
    BY <1>1 DEF runVars, QuietStep, QuietCalls, QuietRun, Shapes
  <1>2. CASE RunNext
    BY <1>2, HookDiesQuiet, HookBeginQuiet, ActivateQuiet, RespondQuiet, LauncherQuiet, Zenon DEF RunNext
  <1> QED
    BY <1>1, <1>2

-----------------------------------------------------------------------------
(* Verified means completed.                                               *)

Done(verified) == verified => auth.phase = "completed"

VerifiedInv ==
    /\ \A i \in DOMAIN events : Done(events[i].verified)
    /\ \A r \in Requests : Done(cache[r].verified)
    /\ \A c \in Callers : Done(call[c].answer.verified)
    /\ Done(run.outcome = "VERIFIED")

RunsInv == Shapes /\ StreamInv /\ VerifiedInv

(* At the start nothing is recorded, cached or verified. *)
LEMMA RunsInvInit ==
    ASSUME RunInit
    PROVE  RunsInv
  <1>1. Shapes
    <2>1. events \in Seq(EventShape)
      BY DEF RunInit
    <2>2. auth \in AuthShape
      BY DEF RunInit, Phases, AuthShape
    <2>3. cache \in [Requests -> AnswerShape] /\ call \in [Callers -> CallShape]
      BY NoAnswerShape DEF RunInit
    <2>4. run \in RunShape
      BY DEF RunInit, RunShape
    <2> QED
      BY <2>1, <2>2, <2>3, <2>4 DEF Shapes
  <1>2. DOMAIN events = {}
    BY DEF RunInit
  <1>3. StreamInv
    BY <1>2 DEF RunInit, StreamInv, HeadInStream, OneOutcomePerRequest, CachedIsRecorded,
                StoredCalls, Idle
  <1>4. VerifiedInv
    BY <1>2 DEF RunInit, VerifiedInv, Done, Idle, NoAnswer
  <1> QED
    BY <1>1, <1>3, <1>4 DEF RunsInv

(* A step that decides nothing keeps the invariant. *)
LEMMA QuietKeeps ==
    ASSUME RunsInv, QuietStep
    PROVE  RunsInv'
  <1>1. Shapes'
    BY DEF RunsInv, QuietStep, QuietCalls, QuietRun, Shapes
  <1>2. StreamInv'
    <2>1. HeadInStream' /\ OneOutcomePerRequest' /\ CachedIsRecorded'
      BY DEF RunsInv, StreamInv, QuietStep, HeadInStream, OneOutcomePerRequest, CachedIsRecorded
    <2>2. StoredCalls'
      BY DEF RunsInv, StreamInv, QuietStep, QuietCalls, StoredCalls
    <2> QED
      BY <2>1, <2>2 DEF StreamInv
  <1>3. VerifiedInv'
    <2>1. auth' = auth /\ events' = events /\ cache' = cache
      BY DEF QuietStep
    <2>2. \A c \in Callers : Done(call'[c].answer.verified)
      BY DEF RunsInv, VerifiedInv, QuietStep, QuietCalls, Done
    <2>3. Done(run'.outcome = "VERIFIED")
      BY DEF RunsInv, VerifiedInv, QuietStep, QuietRun, Done
    <2> QED
      BY <2>1, <2>2, <2>3 DEF RunsInv, VerifiedInv, Done
  <1> QED
    BY <1>1, <1>2, <1>3 DEF RunsInv

(* The session changes, and a call holds the answer or a failure. *)
LEMMA ActKeeps ==
    ASSUME RunsInv, NEW c \in Callers, Act(c) \/ Admit(c) \/ Bind(c) \/ ActRaises(c)
    PROVE  RunsInv' /\ (auth.phase = "completed" => auth'.phase = "completed")
  <1>1. /\ Shapes /\ call[c] \in CallShape
        /\ auth \in AuthShape /\ MaxVersion \in Nat
    BY LifecycleAssumption DEF RunsInv, Shapes
  <1>2. PICK done \in CallShape :
            /\ call' = [call EXCEPT ![c] = done]
            /\ done.at # "store"
            /\ done.answer.verified => auth'.phase = "completed"
            /\ auth' \in AuthShape
            /\ auth.phase = "completed" => auth'.phase = "completed"
    <2>1. CASE Act(c)
      <3>1. PICK out \in Responses :
              /\ Serve(Operation[call[c].request], out)
              /\ call' = [call EXCEPT ![c] = [call[c] EXCEPT !.at = "respond", !.answer = out]]
        BY <2>1 DEF Act
      <3>2. /\ out \in AnswerShape
            /\ auth' \in AuthShape
            /\ auth.phase = "completed" => auth'.phase = "completed"
            /\ out.verified => auth'.phase = "completed"
        BY <1>1, <3>1, ServeShape
      <3> DEFINE done == [call[c] EXCEPT !.at = "respond", !.answer = out]
      <3>3. done \in CallShape /\ done.at = "respond" /\ done.answer = out
        BY <1>1, <3>2 DEF CallShape
      <3> QED
        BY <3>1, <3>2, <3>3
    <2>2. CASE ActRaises(c)
      <3> DEFINE failed == Failed(call[c].expected)
                 done == [call[c] EXCEPT !.at = "record", !.answer = failed]
      <3>1. failed \in AnswerShape /\ ~failed.verified
        BY <1>1 DEF Failed, AnswerShape, CallShape, Statuses
      <3>2. call' = [call EXCEPT ![c] = done]
        BY <2>2 DEF ActRaises
      <3>3. /\ auth' \in AuthShape
            /\ auth.phase = "completed" => auth'.phase = "completed"
        <4>1. CASE UNCHANGED auth
          BY <1>1, <4>1
        <4>2. CASE \E out \in Responses : Serve(Operation[call[c].request], out)
          BY <1>1, <4>2, ServeShape
        <4>3. CASE Named
          BY <1>1, <4>3, AdmissionShape
        <4> QED
          BY <2>2, <4>1, <4>2, <4>3 DEF ActRaises
      <3> HIDE DEF failed
      <3>4. done \in CallShape /\ done.at = "record" /\ done.answer = failed
        BY <1>1, <3>1 DEF CallShape
      <3> QED
        BY <3>1, <3>2, <3>3, <3>4
    <2>3. CASE Admit(c)
      <3> DEFINE done == [call[c] EXCEPT !.at = "activate"]
      <3>1. call' = [call EXCEPT ![c] = done]
        BY <2>3 DEF Admit, Go
      <3>2. /\ auth' \in AuthShape
            /\ auth.phase = "completed" => auth'.phase = "completed"
        BY <1>1, <2>3, AdmissionShape DEF Admit
      <3>3. auth.phase # "completed"
        BY <2>3 DEF Admit, Admitting
      <3>4. done \in CallShape /\ done.at = "activate" /\ done.answer = call[c].answer
        BY <1>1 DEF CallShape
      <3>5. done.answer.verified => auth'.phase = "completed"
        BY <3>3, <3>4 DEF RunsInv, VerifiedInv, Done
      <3> QED
        BY <3>1, <3>2, <3>4, <3>5
    <2>4. CASE Bind(c)
      <3> DEFINE done == [call[c] EXCEPT !.at = "respond", !.answer = Granted]
      <3>1. call' = [call EXCEPT ![c] = done]
        BY <2>4 DEF Bind
      <3>2. /\ auth' \in AuthShape
            /\ auth.phase = "completed" => auth'.phase = "completed"
        BY <1>1, <2>4, AdmissionShape DEF Bind
      <3>3. Granted \in AnswerShape /\ ~Granted.verified
        BY DEF Granted, AnswerShape, Statuses
      <3>4. done \in CallShape /\ done.at = "respond" /\ done.answer = Granted
        BY <1>1, <3>3 DEF CallShape
      <3> QED
        BY <3>1, <3>2, <3>3, <3>4
    <2> QED
      BY <2>1, <2>2, <2>3, <2>4
  <1>3. events' = events /\ cache' = cache /\ run' = run
    BY DEF Act, Admit, Bind, ActRaises
  <1>4. Shapes'
    BY <1>1, <1>2, <1>3 DEF Shapes
  <1>5. StreamInv'
    <2>1. HeadInStream' /\ OneOutcomePerRequest' /\ CachedIsRecorded'
      BY <1>3 DEF RunsInv, StreamInv, HeadInStream, OneOutcomePerRequest, CachedIsRecorded
    <2>2. StoredCalls'
      BY <1>1, <1>2, <1>3 DEF RunsInv, StreamInv, StoredCalls, Shapes
    <2> QED
      BY <2>1, <2>2 DEF StreamInv
  <1>6. VerifiedInv'
    BY <1>1, <1>2, <1>3 DEF RunsInv, VerifiedInv, Done, Shapes
  <1> QED
    BY <1>2, <1>4, <1>5, <1>6 DEF RunsInv

(* The recording of a request keeps the invariant. *)
LEMMA RecordKeeps ==
    ASSUME RunsInv, NEW c \in Callers, Record(c)
    PROVE  RunsInv'
  <1>1. Shapes /\ HeadInStream /\ OneOutcomePerRequest
    BY DEF RunsInv, StreamInv
  <1>2. call[c] \in CallShape /\ call[c].request \in Requests /\ call[c].answer \in AnswerShape
    BY <1>1 DEF Shapes, CallShape
  <1> DEFINE b == Batch(call[c].request, call[c].answer)
  <1>3. PICK done \in {Idle, [call[c] EXCEPT !.at = "answered"],
                      [call[c] EXCEPT !.at = "raised"], [call[c] EXCEPT !.at = "store"]} :
          /\ call' = [call EXCEPT ![c] = done]
          /\ done.at = "store" => Append1(b)
          /\ Append1(b) \/ UNCHANGED events
    BY <1>2, RecordForm
  <1>4. done \in CallShape /\ (done.answer.verified => call[c].answer.verified)
        /\ (done.at = "store" => done.request = call[c].request /\ done.answer = call[c].answer)
    <2>1. CASE done = Idle
      BY <2>1, NoAnswerShape DEF Idle, NoAnswer
    <2>2. CASE done # Idle
      BY <1>2, <1>3, <2>2 DEF CallShape
    <2> QED
      BY <2>1, <2>2
  <1>5. auth' = auth /\ cache' = cache /\ run' = run
    BY DEF Record
  <1>6. /\ events' \in Seq(EventShape) /\ HeadInStream' /\ OneOutcomePerRequest'
        /\ Range(events) \subseteq Range(events')
        /\ Append1(b) => Range(b) \subseteq Range(events')
        /\ \A i \in DOMAIN events' :
             events'[i].verified =>
                 call[c].answer.verified \/ \E j \in DOMAIN events : events[j].verified
    <2>1. CASE Append1(b)
      BY <1>1, <1>2, <2>1, AppendKeeps
    <2>2. CASE ~Append1(b)
      <3>1. events' = events
        BY <1>3, <2>2
      <3> QED
        BY <1>1, <2>2, <3>1 DEF Shapes, HeadInStream, OneOutcomePerRequest
    <2> QED
      BY <2>1, <2>2
  <1> HIDE DEF b
  <1>7. Shapes'
    BY <1>1, <1>3, <1>4, <1>5, <1>6 DEF Shapes
  <1>8. CachedIsRecorded'
    BY <1>5, <1>6 DEF RunsInv, StreamInv, CachedIsRecorded, Batch
  <1>9. StoredCalls'
    <2> SUFFICES ASSUME NEW d \in Callers, call'[d].at = "store"
                 PROVE  Range(Batch(call'[d].request, call'[d].answer)) \subseteq Range(events')
      BY DEF StoredCalls, Batch
    <2>1. CASE d = c
      <3>1. call'[d] = done
        BY <1>1, <1>3, <2>1 DEF Shapes
      <3> QED
        BY <1>3, <1>4, <1>6, <3>1 DEF b
    <2>2. CASE d # c
      <3>1. call'[d] = call[d]
        BY <1>1, <1>3, <2>2 DEF Shapes
      <3> QED
        BY <1>6, <3>1 DEF RunsInv, StreamInv, StoredCalls
    <2> QED
      BY <2>1, <2>2
  <1>10. VerifiedInv'
    BY <1>1, <1>3, <1>4, <1>5, <1>6 DEF RunsInv, VerifiedInv, Done, Shapes
  <1> QED
    BY <1>6, <1>7, <1>8, <1>9, <1>10 DEF RunsInv, StreamInv

(* What is cached was recorded. *)
LEMMA StoreKeeps ==
    ASSUME RunsInv, NEW c \in Callers, Store(c)
    PROVE  RunsInv'
  <1>1. /\ Shapes /\ call[c] \in CallShape
        /\ call[c].request \in Requests /\ call[c].answer \in AnswerShape
    BY DEF RunsInv, Shapes, CallShape
  <1>2. /\ events' = events /\ auth' = auth /\ run' = run
        /\ cache' = [cache EXCEPT ![call[c].request] = call[c].answer]
        /\ call[c].at = "store"
    BY DEF Store
  <1>3. PICK done \in {Idle, [call[c] EXCEPT !.at = "answered"]} :
          call' = [call EXCEPT ![c] = done]
    BY EndForm DEF Store
  <1>4. done \in CallShape /\ done.at # "store"
        /\ (done.answer.verified => call[c].answer.verified)
    <2>1. CASE done = Idle
      BY <2>1, NoAnswerShape DEF Idle, NoAnswer
    <2>2. CASE done # Idle
      BY <1>1, <1>3, <2>2 DEF CallShape
    <2> QED
      BY <2>1, <2>2
  <1>5. Shapes'
    BY <1>1, <1>2, <1>3, <1>4 DEF Shapes
  <1>6. StreamInv'
    <2>1. HeadInStream' /\ OneOutcomePerRequest'
      BY <1>2 DEF RunsInv, StreamInv, HeadInStream, OneOutcomePerRequest
    <2>2. CachedIsRecorded'
      <3> SUFFICES ASSUME NEW r \in Requests, cache'[r] # NoAnswer
                   PROVE  Range(Batch(r, cache'[r])) \subseteq Range(events)
        BY <1>2 DEF CachedIsRecorded, Batch
      <3>1. CASE r = call[c].request
        <4>1. cache'[r] = call[c].answer
          BY <1>1, <1>2, <3>1 DEF Shapes
        <4> QED
          BY <1>2, <3>1, <4>1 DEF RunsInv, StreamInv, StoredCalls
      <3>2. CASE r # call[c].request
        <4>1. cache'[r] = cache[r]
          BY <1>1, <1>2, <3>2 DEF Shapes
        <4> QED
          BY <4>1 DEF RunsInv, StreamInv, CachedIsRecorded
      <3> QED
        BY <3>1, <3>2
    <2>3. StoredCalls'
      BY <1>1, <1>2, <1>3, <1>4 DEF RunsInv, StreamInv, StoredCalls, Shapes
    <2> QED
      BY <2>1, <2>2, <2>3 DEF StreamInv
  <1>7. VerifiedInv'
    BY <1>1, <1>2, <1>3, <1>4 DEF RunsInv, VerifiedInv, Done, Shapes
  <1> QED
    BY <1>5, <1>6, <1>7 DEF RunsInv

(* Lost authority was not completed work. *)
LEMMA LapseKeeps ==
    ASSUME RunsInv, Lapse
    PROVE  RunsInv'
  <1>1. /\ UNCHANGED <<events, cache, call, run>>
        /\ auth \in AuthShape /\ auth.phase # "completed" /\ auth' \in AuthShape
    BY DEF Lapse, Became, RunsInv, Shapes, AuthShape, Phases
  <1>2. Shapes'
    BY <1>1 DEF RunsInv, Shapes
  <1>3. StreamInv'
    BY <1>1 DEF RunsInv, StreamInv, HeadInStream, OneOutcomePerRequest, CachedIsRecorded,
                StoredCalls
  <1>4. VerifiedInv'
    BY <1>1 DEF RunsInv, VerifiedInv, Done
  <1> QED
    BY <1>2, <1>3, <1>4 DEF RunsInv

(* The stream, the caches and the verifications agree in every state. *)
THEOREM RunsInvariant == RunSpec => []RunsInv
  <1>1. RunInit => RunsInv
    BY RunsInvInit
  <1>2. RunsInv /\ [RunNext]_runVars => RunsInv'
    <2> SUFFICES ASSUME RunsInv, [RunNext]_runVars
                 PROVE  RunsInv'
      OBVIOUS
    <2>1. Shapes
      BY DEF RunsInv
    <2> QED
      BY <2>1, StepForms, QuietKeeps, ActKeeps, RecordKeeps, StoreKeeps, LapseKeeps
  <1> QED
    BY <1>1, <1>2, PTL DEF RunSpec

(* Whatever is retried, duplicated or lost, append_batch leaves at most    *)
(* one outcome of a request in the stream.                                 *)
THEOREM RequestsAreDecidedOnce == RunSpec => []OneOutcomePerRequest
  <1>1. RunsInv => OneOutcomePerRequest
    BY DEF RunsInv, StreamInv
  <1> QED
    BY <1>1, RunsInvariant, PTL

(* What _cached_response replays is what the stream recorded.              *)
THEOREM CachedAnswersAreRecorded == RunSpec => []CachedIsRecorded
  <1>1. RunsInv => CachedIsRecorded
    BY DEF RunsInv, StreamInv
  <1> QED
    BY <1>1, RunsInvariant, PTL

(* A lifecycle report that says "verified" is about completed work.        *)
THEOREM ReportedWorkIsCompleted == RunSpec => []VerifiedReportIsCompleted
  <1>1. RunsInv => VerifiedReportIsCompleted
    BY DEF RunsInv, VerifiedInv, Done, VerifiedReportIsCompleted, ReportsVerified
  <1> QED
    BY <1>1, RunsInvariant, PTL

(* A run classified VERIFIED has a completed intent.                       *)
THEOREM VerifiedRunsAreCompleted == RunSpec => []VerifiedRunIsCompleted
  <1>1. RunsInv => VerifiedRunIsCompleted
    BY DEF RunsInv, VerifiedInv, Done, VerifiedRunIsCompleted
  <1> QED
    BY <1>1, RunsInvariant, PTL

-----------------------------------------------------------------------------
(* Cancellation.                                                           *)

(* When Codex is gone or killed, so are its hooks. *)
HooksGone ==
    ~run.interactive /\ run.phase # "running" => \A h \in Hooks : call[h].at = "idle"

HooksKeepOff == \A h \in Hooks : call[h].at = "idle" \/ call[h].request \notin Own

(* The cancellation is asked for once, at the end. *)
AbortIsLast ==
    call["launcher"].request = "abort" \/ cache["abort"] # NoAnswer =>
        run.phase \in {"revoking", "over"}

(* From the moment it took effect the intent has no authority. *)
AbortTakesEffect ==
    ~run.interactive /\ run.phase = "revoking" =>
        /\ call["launcher"].request = "abort"
        /\ call["launcher"].at \notin {"replay", "activate", "bind"}
        /\ \/ call["launcher"].at \in {"respond", "store", "answered"}
           \/ call["launcher"].at = "record" /\ call["launcher"].answer.status # "failed"
           => auth.phase # "active"

CancelledIsFinal ==
    run.cancellation = "cancelled" =>
        /\ run.phase = "over" /\ call["launcher"].at = "answered"
        /\ ~run.interactive => auth.phase # "active"

CancelInv == HooksGone /\ HooksKeepOff /\ AbortIsLast /\ AbortTakesEffect /\ CancelledIsFinal

(* At the start nothing is cancelled. *)
LEMMA CancelInvInit ==
    ASSUME RunInit
    PROVE  CancelInv
  <1>1. /\ \A c \in Callers : call[c] = Idle
        /\ run.phase = "running" /\ run.cancellation = "none" /\ cache["abort"] = NoAnswer
    BY LauncherCaller DEF RunInit, Own
  <1>2. call["launcher"] = Idle /\ \A h \in Hooks : call[h] = Idle
    BY <1>1, LauncherCaller
  <1> QED
    BY <1>1, <1>2 DEF CancelInv, HooksGone, HooksKeepOff, AbortIsLast, AbortTakesEffect,
                      CancelledIsFinal, Idle

(* A hook's step: nothing of the launcher's, and only before Codex is gone. *)
LEMMA HookStepCancels ==
    ASSUME Shapes, CancelInv, NEW h \in Hooks, NEW done,
           call' = [call EXCEPT ![h] = done], run' = run, cache'["abort"] = cache["abort"],
           call[h].at # "idle" \/ run.phase = "running",
           done.at = "idle" \/ done.request \notin Own
    PROVE  CancelInv'
  <1>1. call'["launcher"] = call["launcher"]
    BY RunAssumption, LauncherCaller DEF Shapes
  <1>2. run.interactive \/ run.phase = "running"
    BY DEF CancelInv, HooksGone
  <1>3. HooksGone' /\ AbortTakesEffect' /\ CancelledIsFinal'
    BY <1>1, <1>2 DEF CancelInv, HooksGone, AbortTakesEffect, CancelledIsFinal
  <1>4. HooksKeepOff'
    BY LauncherCaller DEF CancelInv, HooksKeepOff, Shapes
  <1>5. AbortIsLast'
    BY <1>1 DEF CancelInv, AbortIsLast
  <1> QED
    BY <1>3, <1>4, <1>5 DEF CancelInv

(* A step of the launcher's call. *)
LEMMA LauncherCallCancels ==
    ASSUME Shapes, CancelInv, NEW done,
           call' = [call EXCEPT !["launcher"] = done], run' = run,
           cache'["abort"] = cache["abort"] \/ call["launcher"].request = "abort",
           call["launcher"].at # "answered",
           done.request = call["launcher"].request,
           ~run.interactive /\ run.phase = "revoking" =>
               /\ done.at \notin {"replay", "activate", "bind"}
               /\ (\/ done.at \in {"respond", "store", "answered"}
                   \/ done.at = "record" /\ done.answer.status # "failed"
                   => auth'.phase # "active")
    PROVE  CancelInv'
  <1>1. call'["launcher"] = done
    BY LauncherCaller DEF Shapes
  <1>2. \A h \in Hooks : call'[h] = call[h]
    BY RunAssumption, LauncherCaller DEF Shapes
  <1>3. HooksGone' /\ HooksKeepOff'
    BY <1>2 DEF CancelInv, HooksGone, HooksKeepOff
  <1>4. AbortIsLast'
    BY <1>1 DEF CancelInv, AbortIsLast
  <1>5. AbortTakesEffect'
    BY <1>1 DEF CancelInv, AbortTakesEffect
  <1>6. CancelledIsFinal'
    BY <1>1 DEF CancelInv, CancelledIsFinal
  <1> QED
    BY <1>3, <1>4, <1>5, <1>6 DEF CancelInv

(* Every step of a hook is one of those. *)
LEMMA HooksCancel ==
    ASSUME Shapes, CancelInv, NEW h \in Hooks,
           \/ HookDies(h) \/ \E r \in Requests : HookBegin(h, r)
           \/ Act(h) \/ Admit(h) \/ Activate(h) \/ Bind(h) \/ ActRaises(h)
           \/ Respond(h) \/ Record(h) \/ Store(h)
    PROVE  CancelInv'
  <1>1. /\ h \in Callers /\ h # "launcher" /\ call[h] \in CallShape
        /\ call[h].at = "idle" \/ call[h].request \notin Own
        /\ "abort" \in Own /\ "abort" \in Requests /\ Idle.at = "idle"
    BY RunAssumption, LauncherCaller DEF Shapes, CancelInv, HooksKeepOff, Own, Idle
  <1>2. CASE HookDies(h)
    BY <1>1, <1>2, HookStepCancels DEF HookDies
  <1>3. ASSUME NEW r \in Requests, HookBegin(h, r) PROVE CancelInv'
    <2>1. PICK step \in {"act", "replay"} :
            call' = [call EXCEPT ![h] =
                      [at |-> step, request |-> r, expected |-> 0, answer |-> cache[r]]]
      BY <1>3, BeginForm DEF HookBegin
    <2> DEFINE done == [at |-> step, request |-> r, expected |-> 0, answer |-> cache[r]]
    <2>2. done.request \notin Own
      BY <1>3 DEF HookBegin
    <2> HIDE DEF done
    <2> QED
      BY <1>3, <2>1, <2>2, HookStepCancels DEF HookBegin, done
  <1>4. CASE Act(h)
    <2>1. PICK out \in Responses :
            call' = [call EXCEPT ![h] = [call[h] EXCEPT !.at = "respond", !.answer = out]]
      BY <1>4 DEF Act
    <2>2. [call[h] EXCEPT !.at = "respond", !.answer = out].request \notin Own
      BY <1>1, <1>4 DEF CallShape, Act
    <2> QED
      BY <1>4, <2>1, <2>2, HookStepCancels DEF Act
  <1>5. CASE ActRaises(h)
    <2> DEFINE done == [call[h] EXCEPT !.at = "record", !.answer = Failed(call[h].expected)]
    <2>1. call' = [call EXCEPT ![h] = done]
      BY <1>5 DEF ActRaises
    <2>2. done.request \notin Own
      BY <1>1, <1>5 DEF CallShape, ActRaises
    <2> HIDE DEF done
    <2> QED
      BY <1>5, <2>1, <2>2, HookStepCancels DEF ActRaises
  <1>6. CASE Respond(h)
    <2> DEFINE answer == [call[h].answer EXCEPT !.version = auth.version]
               done == [call[h] EXCEPT !.at = "record", !.answer = answer]
    <2>1. call' = [call EXCEPT ![h] = done]
      BY <1>6 DEF Respond
    <2> HIDE DEF answer
    <2>2. done.request \notin Own
      BY <1>1, <1>6 DEF CallShape, Respond
    <2> HIDE DEF done
    <2> QED
      BY <1>6, <2>1, <2>2, HookStepCancels DEF Respond
  <1>7. CASE Record(h)
    <2>1. PICK done \in {Idle, [call[h] EXCEPT !.at = "answered"],
                        [call[h] EXCEPT !.at = "raised"], [call[h] EXCEPT !.at = "store"]} :
            call' = [call EXCEPT ![h] = done]
      BY <1>1, <1>7, RecordForm
    <2>2. done.at = "idle" \/ done.request \notin Own
      BY <1>1, <1>7, <2>1 DEF CallShape, Record
    <2> QED
      BY <1>7, <2>1, <2>2, HookStepCancels DEF Record
  <1>8. CASE Store(h)
    <2>1. call' = [call EXCEPT ![h] = Idle]
      BY <1>1, <1>8 DEF Store, End
    <2>2. cache'["abort"] = cache["abort"]
      BY <1>1, <1>8 DEF Store, Shapes, CallShape
    <2> QED
      BY <1>1, <1>8, <2>1, <2>2, HookStepCancels DEF Store
  <1>9. CASE Admit(h) \/ Activate(h)
    <2>1. PICK step \in {"activate", "bind"} :
            call' = [call EXCEPT ![h] = [call[h] EXCEPT !.at = step]]
      BY <1>9 DEF Admit, Activate, Go
    <2>2. [call[h] EXCEPT !.at = step].request \notin Own
      BY <1>1, <1>9 DEF CallShape, Admit, Activate
    <2> QED
      BY <1>9, <2>1, <2>2, HookStepCancels DEF Admit, Activate
  <1>10. CASE Bind(h)
    <2>1. call' = [call EXCEPT ![h] = [call[h] EXCEPT !.at = "respond", !.answer = Granted]]
      BY <1>10 DEF Bind
    <2>2. [call[h] EXCEPT !.at = "respond", !.answer = Granted].request \notin Own
      BY <1>1, <1>10 DEF CallShape, Bind
    <2> QED
      BY <1>10, <2>1, <2>2, HookStepCancels DEF Bind
  <1> QED
    BY <1>2, <1>3, <1>4, <1>5, <1>6, <1>7, <1>8, <1>9, <1>10

(* Every step of the launcher's call is one of those. *)
LEMMA LauncherCallsCancel ==
    ASSUME Shapes, CancelInv,
           \/ Act("launcher") \/ Admit("launcher") \/ Activate("launcher")
           \/ Bind("launcher") \/ ActRaises("launcher") \/ Respond("launcher")
           \/ Record("launcher") \/ Store("launcher")
    PROVE  CancelInv'
  <1> DEFINE L == call["launcher"]
  <1>1. /\ L \in CallShape /\ L.answer \in AnswerShape
        /\ auth \in AuthShape /\ MaxVersion \in Nat
    BY LauncherCaller, LifecycleAssumption DEF Shapes, CallShape
  <1>2. ~run.interactive /\ run.phase = "revoking" => Operation[L.request] = "cancel"
    BY RunAssumption DEF CancelInv, AbortTakesEffect
  <1>3. CASE Act("launcher")
    <2>1. PICK out \in Responses :
            /\ Serve(Operation[L.request], out)
            /\ call' = [call EXCEPT !["launcher"] = [L EXCEPT !.at = "respond", !.answer = out]]
      BY <1>3 DEF Act
    <2>2. Operation[L.request] = "cancel" => auth'.phase # "active"
      BY <1>1, <2>1, ServeShape
    <2> DEFINE done == [L EXCEPT !.at = "respond", !.answer = out]
    <2>3. done.request = L.request /\ done.at = "respond"
      BY <1>1 DEF CallShape
    <2> HIDE DEF done
    <2>4. call' = [call EXCEPT !["launcher"] = done]
      BY <2>1 DEF done
    <2> QED
      BY <1>2, <1>3, <2>2, <2>3, <2>4, LauncherCallCancels DEF Act
  <1>4. CASE ActRaises("launcher")
    <2> DEFINE failed == Failed(L.expected)
               done == [L EXCEPT !.at = "record", !.answer = failed]
    <2>1. call' = [call EXCEPT !["launcher"] = done]
      BY <1>4 DEF ActRaises
    <2>2. failed.status = "failed"
      BY DEF Failed
    <2> HIDE DEF failed
    <2>3. done.request = L.request /\ done.at = "record" /\ done.answer = failed
      BY <1>1 DEF CallShape
    <2> HIDE DEF done
    <2> QED
      BY <1>4, <2>1, <2>2, <2>3, LauncherCallCancels DEF ActRaises
  <1>5. CASE Respond("launcher")
    <2> DEFINE answer == [L.answer EXCEPT !.version = auth.version]
               done == [L EXCEPT !.at = "record", !.answer = answer]
    <2>1. call' = [call EXCEPT !["launcher"] = done]
      BY <1>5 DEF Respond
    <2> HIDE DEF answer
    <2>2. done.request = L.request /\ done.at = "record"
      BY <1>1 DEF CallShape
    <2> HIDE DEF done
    <2>3. ~run.interactive /\ run.phase = "revoking" => auth'.phase # "active"
      BY <1>5 DEF CancelInv, AbortTakesEffect, Respond
    <2> QED
      BY <1>5, <2>1, <2>2, <2>3, LauncherCallCancels DEF Respond
  <1>6. CASE Record("launcher")
    <2>1. PICK done \in {Idle, [L EXCEPT !.at = "answered"],
                        [L EXCEPT !.at = "raised"], [L EXCEPT !.at = "store"]} :
            /\ call' = [call EXCEPT !["launcher"] = done] /\ done # Idle
            /\ done.at \in {"store", "answered"} => L.answer.status # "failed"
      BY <1>1, <1>6, RecordForm
    <2>2. L.at \in {"record", "replay"} /\ UNCHANGED <<auth, cache, run>>
      BY <1>6 DEF Record
    <2>3. done.request = L.request /\ done.at \in {"answered", "raised", "store"}
      BY <1>1, <2>1 DEF CallShape
    <2>4. ~run.interactive /\ run.phase = "revoking" =>
            (done.at \in {"store", "answered"} => auth'.phase # "active")
      BY <2>1, <2>2 DEF CancelInv, AbortTakesEffect
    <2> QED
      BY <2>1, <2>2, <2>3, <2>4, LauncherCallCancels
  <1>7. CASE Store("launcher")
    <2> DEFINE done == [L EXCEPT !.at = "answered"]
    <2>1. call' = [call EXCEPT !["launcher"] = done]
      BY <1>7 DEF Store, End
    <2>2. done.request = L.request /\ done.at = "answered"
      BY <1>1 DEF CallShape
    <2>3. L.at = "store" /\ UNCHANGED <<auth, run>>
      BY <1>7 DEF Store
    <2>4. cache'["abort"] = cache["abort"] \/ L.request = "abort"
      BY <1>1, <1>7, LauncherCaller DEF Store, Shapes, CallShape, Own
    <2> HIDE DEF done
    <2>5. ~run.interactive /\ run.phase = "revoking" => auth'.phase # "active"
      BY <2>3 DEF CancelInv, AbortTakesEffect
    <2> QED
      BY <2>1, <2>2, <2>3, <2>4, <2>5, LauncherCallCancels
  <1>8. CASE Admit("launcher")
    <2> DEFINE done == [L EXCEPT !.at = "activate"]
    <2>1. call' = [call EXCEPT !["launcher"] = done] /\ L.at = "act" /\ UNCHANGED <<cache, run>>
      BY <1>8 DEF Admit, Go
    <2>2. done.request = L.request
      BY <1>1 DEF CallShape
    <2>3. run.interactive \/ run.phase # "revoking"
      BY <1>2, <1>8 DEF Admit, Admitting
    <2> HIDE DEF done
    <2> QED
      BY <2>1, <2>2, <2>3, LauncherCallCancels
  <1>9. CASE Activate("launcher") \/ Bind("launcher")
    <2>1. PICK done :
            /\ call' = [call EXCEPT !["launcher"] = done]
            /\ \/ done = [L EXCEPT !.at = "bind"]
               \/ done = [L EXCEPT !.at = "respond", !.answer = Granted]
      BY <1>9 DEF Activate, Bind, Go
    <2>2. done.request = L.request
      BY <1>1, <2>1 DEF CallShape
    <2>3. L.at \in {"activate", "bind"} /\ UNCHANGED <<cache, run>>
      BY <1>9 DEF Activate, Bind
    <2>4. run.interactive \/ run.phase # "revoking"
      BY <2>3 DEF CancelInv, AbortTakesEffect
    <2> QED
      BY <2>1, <2>2, <2>3, <2>4, LauncherCallCancels
  <1> QED
    BY <1>3, <1>4, <1>5, <1>6, <1>7, <1>8, <1>9

(* A step of the launcher that is not its cancellation: the hooks stay as  *)
(* they are or end, and it makes no request of its own or another one.     *)
LEMMA LauncherMoveCancels ==
    ASSUME Shapes, CancelInv, UNCHANGED <<auth, cache>>,
           run.phase \notin {"revoking", "over"}, run'.phase # "revoking",
           run'.interactive = run.interactive, run'.cancellation = run.cancellation,
           \A h \in Hooks : call'[h] = call[h] \/ call'[h].at = "idle",
           call'["launcher"].request # "abort" \/ call'["launcher"] = call["launcher"],
           run.phase # "running" \/ run.interactive \/ \A h \in Hooks : call'[h].at = "idle"
    PROVE  CancelInv'
  <1>1. HooksGone'
    BY DEF CancelInv, HooksGone
  <1>2. HooksKeepOff'
    BY DEF CancelInv, HooksKeepOff
  <1>3. AbortIsLast'
    BY DEF CancelInv, AbortIsLast
  <1>4. AbortTakesEffect'
    BY DEF AbortTakesEffect
  <1>5. CancelledIsFinal'
    BY DEF CancelInv, CancelledIsFinal
  <1> QED
    BY <1>1, <1>2, <1>3, <1>4, <1>5 DEF CancelInv

(* A request the launcher begins. *)
LEMMA LauncherBegins ==
    ASSUME Shapes, NEW r \in Requests, NEW expected, Begin("launcher", r, expected)
    PROVE  /\ \A h \in Hooks : call'[h] = call[h]
           /\ call'["launcher"].request = r
           /\ call'["launcher"].at \in {"act", "replay"}
           /\ call'["launcher"].at = "replay" => cache[r] # NoAnswer
  <1>1. PICK step \in {"act", "replay"} :
          /\ step = "replay" => cache[r] # NoAnswer
          /\ call' = [call EXCEPT !["launcher"] =
                        [ at |-> step, request |-> r,
                          expected |-> expected, answer |-> cache[r] ]]
    BY BeginForm
  <1>2. call'["launcher"] = [ at |-> step, request |-> r,
                              expected |-> expected, answer |-> cache[r] ]
    BY <1>1, LauncherCaller DEF Shapes
  <1>3. \A h \in Hooks : call'[h] = call[h]
    BY <1>1, RunAssumption, LauncherCaller DEF Shapes
  <1> QED
    BY <1>1, <1>2, <1>3

(* Every move of the launcher that is not a cancellation. *)
LEMMA LauncherMovesCancel ==
    ASSUME Shapes, CancelInv,
           \/ \E clean \in BOOLEAN : Exit(clean)
           \/ ExitUnknown \/ ExitUnbound \/ Sealed \/ GaveUp
           \/ TimeOut \/ Interrupt \/ FinalVerify
           \/ AlreadyVerified \/ FinalVerified
    PROVE  CancelInv'
  <1>1. run \in RunShape
    BY DEF Shapes
  <1>2. "seal" \in Requests /\ "final" \in Requests
    BY LauncherCaller DEF Own
  <1>3. ASSUME NEW clean \in BOOLEAN, Exit(clean) PROVE CancelInv'
    BY <1>1, <1>3, LauncherMoveCancels DEF Exit, RunShape
  <1>4. CASE ExitUnknown
    BY <1>1, <1>4, LauncherMoveCancels DEF ExitUnknown, Unclaimed, Over, RunShape
  <1>5. CASE ExitUnbound
    <2>1. PICK outcome : Over(outcome)
      BY <1>5 DEF ExitUnbound, Unclaimed
    <2> QED
      BY <1>1, <1>5, <2>1, LauncherMoveCancels DEF ExitUnbound, Unclaimed, Over, RunShape
  <1>6. CASE Sealed
    BY <1>1, <1>6, LauncherMoveCancels DEF Sealed, Over, RunShape
  <1>8. ASSUME Terminated
        PROVE  /\ call'["launcher"].request # "abort"
               /\ \A h \in Hooks : call'[h] = call[h] \/ call'[h].at = "idle"
               /\ ~run.interactive => \A h \in Hooks : call'[h].at = "idle"
    BY <1>8, LauncherCaller DEF Terminated, Idle
  <1>7. CASE GaveUp
    BY <1>1, <1>7, <1>8, LauncherMoveCancels DEF GaveUp, RunShape
  <1>9. CASE TimeOut
    BY <1>1, <1>8, <1>9, LauncherMoveCancels DEF TimeOut, Unclaimed, RunShape
  <1>10. CASE Interrupt
    BY <1>1, <1>8, <1>10, LauncherMoveCancels DEF Interrupt, RunShape
  <1>11. CASE FinalVerify
    <2>1. /\ \A h \in Hooks : call'[h] = call[h]
          /\ call'["launcher"].request = "final"
      BY <1>2, <1>11, LauncherBegins DEF FinalVerify
    <2> QED
      BY <1>1, <1>11, <2>1, LauncherMoveCancels DEF FinalVerify, Launcher, RunShape
  <1>12. ASSUME NEW outcome, Settle(outcome), run.phase \in {"exited", "verifying"},
                UNCHANGED <<auth, cache>>
         PROVE  CancelInv'
    <2>1. CASE Begin("launcher", "seal", 0)
               /\ run' = [run EXCEPT !.phase = "sealing", !.outcome = outcome]
      <3>1. /\ \A h \in Hooks : call'[h] = call[h]
            /\ call'["launcher"].request = "seal"
        BY <1>2, <2>1, LauncherBegins
      <3> QED
        BY <1>1, <1>12, <2>1, <3>1, LauncherMoveCancels DEF RunShape
    <2>2. CASE Over(outcome) /\ UNCHANGED call
      BY <1>1, <1>12, <2>2, LauncherMoveCancels DEF Over, RunShape
    <2> QED
      BY <1>12, <2>1, <2>2 DEF Settle
  <1>13. CASE AlreadyVerified
    BY <1>12, <1>13 DEF AlreadyVerified
  <1>14. CASE FinalVerified
    BY <1>12, <1>14 DEF FinalVerified
  <1> QED
    BY <1>3, <1>4, <1>5, <1>6, <1>7, <1>9, <1>10, <1>11, <1>13, <1>14

(* The launcher asks for the cancellation, of a fresh request. *)
LEMMA RevokeCancels ==
    ASSUME Shapes, CancelInv, Revoke
    PROVE  CancelInv'
  <1>1. run \in RunShape /\ run.phase = "stopped" /\ UNCHANGED <<auth, cache>>
    BY DEF Shapes, Revoke
  <1>2. CASE Over(run.outcome) /\ UNCHANGED call
    BY <1>1, <1>2, LauncherMoveCancels DEF Over, RunShape
  <1>3. CASE Launcher("revoking") /\ Begin("launcher", "abort", auth.version)
    <2>1. cache["abort"] = NoAnswer
      BY <1>1 DEF CancelInv, AbortIsLast
    <2>2. /\ \A h \in Hooks : call'[h] = call[h]
          /\ call'["launcher"].request = "abort" /\ call'["launcher"].at = "act"
      BY <1>3, <2>1, LauncherBegins, LauncherCaller DEF Own
    <2>3. /\ run'.phase = "revoking" /\ run'.interactive = run.interactive
          /\ run'.cancellation = run.cancellation
      BY <1>1, <1>3 DEF Launcher, RunShape
    <2>4. HooksGone' /\ HooksKeepOff'
      BY <1>1, <2>2, <2>3 DEF CancelInv, HooksGone, HooksKeepOff
    <2>5. AbortIsLast' /\ AbortTakesEffect'
      BY <2>2, <2>3 DEF AbortIsLast, AbortTakesEffect
    <2>6. CancelledIsFinal'
      BY <1>1, <2>3 DEF CancelInv, CancelledIsFinal
    <2> QED
      BY <2>4, <2>5, <2>6 DEF CancelInv
  <1> QED
    BY <1>2, <1>3 DEF Revoke

(* The launcher learns that it took effect. *)
LEMMA RevokedCancels ==
    ASSUME Shapes, CancelInv, Revoked
    PROVE  CancelInv'
  <1>1. /\ run \in RunShape /\ run.phase = "revoking"
        /\ call["launcher"].at \in {"answered", "raised"}
        /\ UNCHANGED <<events, auth, cache, call>>
        /\ run' = [run EXCEPT !.phase = "over", !.cancellation =
                     IF call["launcher"].at = "answered" THEN "cancelled" ELSE "failed"]
    BY DEF Shapes, Revoked
  <1>2. /\ run'.phase = "over" /\ run'.interactive = run.interactive
        /\ run'.cancellation = "cancelled" => call["launcher"].at = "answered"
    BY <1>1 DEF RunShape
  <1>3. HooksGone' /\ HooksKeepOff' /\ AbortIsLast' /\ AbortTakesEffect'
    BY <1>1, <1>2 DEF CancelInv, HooksGone, HooksKeepOff, AbortIsLast, AbortTakesEffect
  <1>4. CancelledIsFinal'
    BY <1>1, <1>2 DEF CancelInv, CancelledIsFinal, AbortTakesEffect
  <1> QED
    BY <1>3, <1>4 DEF CancelInv

(* Every step keeps the cancellation invariant. *)
LEMMA CancelInvStep ==
    ASSUME Shapes, CancelInv, [RunNext]_runVars
    PROVE  CancelInv'
  <1>1. CASE UNCHANGED runVars
    BY <1>1 DEF runVars, CancelInv, HooksGone, HooksKeepOff, AbortIsLast, AbortTakesEffect,
                CancelledIsFinal
  <1>2. CASE Lapse
    <2>1. /\ UNCHANGED <<events, cache, call, run>>
          /\ auth'.phase = "active" => auth.phase = "active"
      BY <1>2 DEF Lapse, Became, Shapes, AuthShape
    <2> QED
      BY <2>1 DEF CancelInv, HooksGone, HooksKeepOff, AbortIsLast, AbortTakesEffect,
                  CancelledIsFinal
  <1>3. ASSUME NEW h \in Hooks,
               \/ HookDies(h) \/ \E r \in Requests : HookBegin(h, r)
               \/ Act(h) \/ Admit(h) \/ Activate(h) \/ Bind(h) \/ ActRaises(h)
               \/ Respond(h) \/ Record(h) \/ Store(h)
        PROVE  CancelInv'
    BY <1>3, HooksCancel
  <1>4. ASSUME NEW c \in Callers,
               \/ Act(c) \/ Admit(c) \/ Activate(c) \/ Bind(c) \/ ActRaises(c)
               \/ Respond(c) \/ Record(c) \/ Store(c)
        PROVE  CancelInv'
    <2>1. CASE c = "launcher"
      BY <1>4, <2>1, LauncherCallsCancel
    <2>2. CASE c \in Hooks
      BY <1>4, <2>2, <1>3
    <2> QED
      BY <2>1, <2>2 DEF Callers
  <1>5. CASE RunNext
    BY <1>2, <1>3, <1>4, <1>5, LauncherMovesCancel, RevokeCancels, RevokedCancels, Zenon
       DEF RunNext
  <1> QED
    BY <1>1, <1>5

(* When _cancel_authority reports a cancellation, the session names no     *)
(* intent with authority: _terminate_process has killed the hooks with     *)
(* Codex, so none is left to admit, resume or bind one.                    *)
THEOREM CancellationRevokes == RunSpec => []CancelRevokes
  <1>1. RunInit => CancelInv
    BY CancelInvInit
  <1>2. RunsInv /\ CancelInv /\ [RunNext]_runVars => CancelInv'
    BY CancelInvStep DEF RunsInv
  <1>3. CancelInv => CancelRevokes
    BY DEF CancelInv, CancelledIsFinal, CancelRevokes
  <1> QED
    BY <1>1, <1>2, <1>3, RunsInvariant, PTL DEF RunSpec

=============================================================================
