-------------------------- MODULE CodexSessionsProofs --------------------------
(***************************************************************************)
(* Theorems about CodexSessions for every number of sessions, of callers   *)
(* of each session, of successors and of amendments.                       *)
(***************************************************************************)
EXTENDS CodexSessions, TLAPS

IntentStates ==
    {Absent, "BLOCKED", "ADMITTED", "ACTIVE", "COMPLETED", "RELEASED", "EXPIRED", "STALE"}

-----------------------------------------------------------------------------
(* What the operations of the life cycle do, when no lease is settled.     *)

(* Without lapsed leases the sweep changes nothing.                        *)
LEMMA NothingLapsed ==
    ASSUME CodexTypeOK
    PROVE  After({}) = state
BY DEF CodexTypeOK, After

(* An admission touches one unknown or blocked intent.                     *)
LEMMA AdmitFacts ==
    ASSUME CodexTypeOK, NEW i \in Intents, NEW verdict, NEW c, Admit({}, i, verdict, c)
    PROVE  /\ state[i] \in {Absent, "BLOCKED"}
           /\ state' = [state EXCEPT ![i] = verdict]
           /\ content' = [content EXCEPT ![i] = c]
           /\ version' = [version EXCEPT ![i] = IF state[i] = Absent THEN 1 ELSE @]
BY NothingLapsed DEF Admit

(* An amendment touches one intent when it fences no dependent.            *)
LEMMA AmendFacts ==
    ASSUME CodexTypeOK, NEW i \in Intents, NEW c, Amend({}, i, {}, c)
    PROVE  /\ state[i] \in Live \cup {"STALE", "BLOCKED"}
           /\ state' = [state EXCEPT ![i] = IF @ = "STALE" THEN @ ELSE "ADMITTED"]
           /\ content' = [content EXCEPT ![i] = c]
           /\ version' = [version EXCEPT ![i] = @ + 1]
<1>1. Fenced([state EXCEPT ![i] = IF @ = "STALE" THEN @ ELSE "ADMITTED"], {})
      = [state EXCEPT ![i] = IF @ = "STALE" THEN @ ELSE "ADMITTED"]
  BY DEF Fenced, CodexTypeOK
<1> QED
  BY <1>1, NothingLapsed DEF Amend, Replace

(* A promotion replaces the content of one live intent.                    *)
LEMMA PromoteFacts ==
    ASSUME CodexTypeOK, NEW i \in Intents, NEW c, Promote({}, i, c)
    PROVE  /\ state[i] \in Live /\ state' = state
           /\ content' = [content EXCEPT ![i] = c]
           /\ version' = [version EXCEPT ![i] = @ + 1]
BY NothingLapsed DEF Promote, Replace

(* A lease that runs out, or a fence, touches one intent.                  *)
LEMMA EnvironmentFacts ==
    ASSUME CodexTypeOK, NEW i \in Intents
    PROVE  /\ Expire(i) => /\ state[i] \in Live
                           /\ state' = [state EXCEPT ![i] = "EXPIRED"]
                           /\ UNCHANGED <<content, version, file, call>>
           /\ Fence(i) => /\ state[i] \in Trusting
                          /\ state' = [state EXCEPT ![i] = "STALE"]
                          /\ UNCHANGED <<content, version, file, call>>
BY DEF CodexTypeOK, Expire, Fence, Settle, Invalidate, After, Fenced

(* The intents a caller works on exist.                                    *)
LEMMA MineFacts ==
    ASSUME CodexTypeOK, NEW c \in Callers
    PROVE  /\ Of[c] \in Sessions /\ call[c] \in CallType /\ file[Of[c]] \in Files
           /\ call[c].copy \in Files /\ call[c].copy.nth \in 0..MaxResume
           /\ Mine(c) = <<Of[c], call[c].copy.nth>> /\ Mine(c) \in Intents
           /\ call[c].copy.nth < MaxResume => Successor(c) \in Intents
<1>1. Of[c] \in Sessions /\ call[c] \in CallType
  BY CodexAssumption DEF CodexTypeOK
<1>2. file[Of[c]] \in Files /\ call[c].copy \in Files
  BY <1>1 DEF CodexTypeOK, CallType
<1>3. call[c].copy.nth \in 0..MaxResume
  BY <1>2 DEF Files
<1>4. call[c].copy.nth < MaxResume => call[c].copy.nth + 1 \in 0..MaxResume
  BY <1>3, CodexAssumption
<1> QED
  BY <1>1, <1>2, <1>3, <1>4, CodexAssumption DEF Mine, Intent, Successor

-----------------------------------------------------------------------------
(* The inductive invariant.                                                *)

Dead == {"EXPIRED", "RELEASED"}
Done == {"COMPLETED", "STALE", "RELEASED"}

(* An intent has a successor only when it lost its authority for good.     *)
Succession(st) ==
    \A s \in Sessions : \A m, n \in 0..MaxResume :
        m < n /\ st[<<s, n>>] # Absent => st[<<s, m>>] \in Dead

(* What the file of session s, or any copy of it, may say.                 *)
FileFits(st, s, f) ==
    /\ f.nth > 0 => st[<<s, f.nth>>] \notin {Absent, "BLOCKED"}
    /\ f.task = "verified" => f.bound /\ st[<<s, f.nth>>] \in Done
    /\ f.task = "abandoned" /\ f.bound => st[<<s, f.nth>>] \in Done

(* What a call has established when it waits before a step.                *)
CallFits(st, ct, s, k) ==
    /\ k.at \in {"succeed", "rebind"} => k.copy.nth < MaxResume /\ k.copy.bound
    /\ k.at = "succeed" => st[<<s, k.copy.nth>>] \in Dead
    /\ k.at = "rebind" => st[<<s, k.copy.nth + 1>>] \notin {Absent, "BLOCKED"}
    /\ k.at \in {"verify", "complete"} => k.copy.bound
    /\ k.at \in {"reread", "amend"} /\ k.copy.nth > 0
         => ct[<<s, k.copy.nth - 1>>] \subseteq k.scope

CodexInv ==
    /\ CodexTypeOK
    /\ Succession(state)
    /\ ContractInherited
    /\ \A s \in Sessions : FileFits(state, s, file[s])
    /\ \A c \in Callers :
         FileFits(state, Of[c], call[c].copy) /\ CallFits(state, content, Of[c], call[c])

-----------------------------------------------------------------------------
(* What one step of a call does to the registry.                           *)

Effect(c) ==
    \/ UNCHANGED Registry
    \/ \E verdict \in {"ADMITTED", "BLOCKED"} :
         \/ At(c, "admit") /\ Admit({}, Mine(c), verdict, {})
         \/ At(c, "succeed") /\ Admit({}, Successor(c), verdict, Inherited(c))
    \/ /\ At(c, "guard") /\ version[Mine(c)] < MaxVersion
       /\ \E m \in Scope : Promote({}, Mine(c), content[Mine(c)] \cup {m})
    \/ /\ At(c, "amend") /\ version[Mine(c)] < MaxVersion
       /\ Amend({}, Mine(c), {}, call[c].scope \cup call[c].copy.ticket.want)
    \/ Activate(Mine(c))
    \/ At(c, "rebind") /\ Activate(Successor(c))
    \/ Complete(Mine(c)) \/ Release(Mine(c))

(* Every step of a call has one of these effects.                          *)
LEMMA Effects ==
    ASSUME NEW c \in Callers, CallStep(c)
    PROVE  Effect(c)
<1>1. CASE Write(c) \/ Die(c) \/ Touch(c) \/ TurnEnd(c)
  BY <1>1 DEF Write, Die, Touch, TurnEnd, Load, Effect, Registry
<1>2. CASE AdmitRefused(c) \/ AdmitStart(c) \/ AdmitSubmit(c) \/ AdmitActivate(c)
  BY <1>2 DEF AdmitRefused, AdmitStart, AdmitSubmit, AdmitActivate, Load, Effect, Registry
<1>3. CASE GuardStart(c) \/ GuardPlain(c) \/ GuardPromote(c) \/ GuardTicket(c) \/ WriteTicket(c)
  BY <1>3 DEF GuardStart, GuardPlain, GuardPromote, GuardTicket, WriteTicket, Load, Effect, Registry
<1>4. CASE AmendStart(c) \/ AmendDenied(c) \/ AmendRead(c) \/ AmendReadVersion(c)
  BY <1>4 DEF AmendStart, AmendDenied, AmendRead, AmendReadVersion, Load, Effect, Registry
<1>5. CASE AmendSubmit(c) \/ AmendActivate(c)
  BY <1>5 DEF AmendSubmit, AmendActivate, Effect, Registry
<1>6. CASE VerifyStart(c) \/ VerifyClean(c) \/ VerifyFailed(c) \/ VerifyComplete(c)
  BY <1>6 DEF VerifyStart, VerifyClean, VerifyFailed, VerifyComplete, Load, Effect, Registry
<1>7. CASE AbandonStart(c) \/ AbandonRelease(c)
  BY <1>7 DEF AbandonStart, AbandonRelease, Load, Effect, Registry
<1>8. CASE ResumeStart(c) \/ ResumeKept(c) \/ ResumeLive(c) \/ ResumeRenew(c)
  BY <1>8 DEF ResumeStart, ResumeKept, ResumeLive, ResumeRenew, Load, Effect, Registry
<1>9. CASE ResumeExpired(c) \/ ResumeSubmit(c) \/ ResumeRebind(c)
  BY <1>9 DEF ResumeExpired, ResumeSubmit, ResumeRebind, Effect, Registry
<1> QED
  BY <1>1, <1>2, <1>3, <1>4, <1>5, <1>6, <1>7, <1>8, <1>9 DEF CallStep

(* How the state of intent i may move, and who makes it known.             *)
Moved(i) ==
    \/ state'[i] = state[i]
    \/ state[i] \in {Absent, "BLOCKED"} /\ state'[i] \in {"ADMITTED", "BLOCKED"}
    \/ /\ state[i] \in Live
       /\ state'[i] \in {"ADMITTED", "ACTIVE", "COMPLETED", "RELEASED", "EXPIRED", "STALE"}
    \/ state[i] \in {"BLOCKED", "EXPIRED", "STALE"} /\ state'[i] = "RELEASED"
    \/ state[i] = "COMPLETED" /\ state'[i] = "STALE"

Appeared(c, i) ==
    state[i] = Absent /\ state'[i] # Absent =>
        \/ At(c, "admit") /\ i = Mine(c)
        \/ At(c, "succeed") /\ i = Successor(c) /\ content'[i] = content[Mine(c)]

Rewritten(c, i) ==
    \/ content'[i] = content[i]
    \/ At(c, "admit") /\ i = Mine(c) /\ state[i] \in {Absent, "BLOCKED"}
    \/ /\ At(c, "succeed") /\ i = Successor(c)
       /\ state[i] \in {Absent, "BLOCKED"} /\ content'[i] = content[Mine(c)]
    \/ i = Mine(c) /\ state[i] \notin Dead /\ content[i] \subseteq content'[i]
    \/ /\ At(c, "amend") /\ i = Mine(c) /\ state[i] \notin Dead
       /\ call[c].scope \subseteq content'[i]

(* One caller's invariant, as facts.                                       *)
LEMMA CallerFacts ==
    ASSUME CodexInv, NEW c \in Callers
    PROVE  /\ CodexTypeOK
           /\ FileFits(state, Of[c], file[Of[c]])
           /\ FileFits(state, Of[c], call[c].copy)
           /\ CallFits(state, content, Of[c], call[c])
           /\ At(c, "succeed") => call[c].copy.nth < MaxResume /\ Successor(c) \in Intents
           /\ At(c, "rebind") => call[c].copy.nth < MaxResume /\ Successor(c) \in Intents
<1>1. /\ CodexTypeOK
      /\ FileFits(state, Of[c], call[c].copy)
      /\ CallFits(state, content, Of[c], call[c])
  BY DEF CodexInv
<1>2. FileFits(state, Of[c], file[Of[c]])
  BY MineFacts DEF CodexInv
<1> QED
  BY <1>1, <1>2, MineFacts DEF CallFits, At

(* A new content that is well-typed under a bumped or first version.       *)
LEMMA ReplaceTypes ==
    ASSUME CodexTypeOK, NEW i \in Intents, NEW x \in SUBSET Scope,
           content' = [content EXCEPT ![i] = x],
           \/ version' = [version EXCEPT ![i] = IF state[i] = Absent THEN 1 ELSE @]
           \/ version[i] < MaxVersion /\ version' = [version EXCEPT ![i] = @ + 1]
    PROVE  content' \in [Intents -> SUBSET Scope] /\ version' \in [Intents -> 0..MaxVersion]
<1>1. content' \in [Intents -> SUBSET Scope]
  BY DEF CodexTypeOK
<1>2. version[i] \in 0..MaxVersion /\ version \in [Intents -> 0..MaxVersion]
  BY DEF CodexTypeOK
<1>3. version[i] < MaxVersion => version[i] + 1 \in 0..MaxVersion
  BY <1>2, CodexAssumption
<1>4. 1 \in 0..MaxVersion
  BY CodexAssumption
<1> QED
  BY <1>1, <1>2, <1>3, <1>4

Stepped(c) ==
    /\ state' \in [Intents -> IntentStates]
    /\ content' \in [Intents -> SUBSET Scope]
    /\ version' \in [Intents -> 0..MaxVersion]
    /\ \A i \in Intents : Moved(i) /\ Appeared(c, i) /\ Rewritten(c, i)

(* The registry tables stay well-typed, and every intent moves along its   *)
(* life cycle, whatever a call does.                                       *)
LEMMA EffectFacts ==
    ASSUME CodexInv, NEW c \in Callers, Effect(c)
    PROVE  Stepped(c)
<1>0. /\ CodexTypeOK
      /\ state \in [Intents -> IntentStates]
      /\ content \in [Intents -> SUBSET Scope]
      /\ version \in [Intents -> 0..MaxVersion]
      /\ Mine(c) \in Intents
      /\ call[c].scope \in SUBSET Scope
      /\ call[c].copy.ticket.want \in SUBSET Scope
  BY CallerFacts, MineFacts DEF CodexTypeOK, CallType, Files, Tickets, IntentStates
<1>1. CASE UNCHANGED Registry
  BY <1>0, <1>1 DEF Stepped, Registry, Moved, Appeared, Rewritten
<1>2. ASSUME NEW i \in Intents, NEW x \in SUBSET Scope, NEW verdict \in {"ADMITTED", "BLOCKED"},
             Admit({}, i, verdict, x),
             \/ At(c, "admit") /\ i = Mine(c)
             \/ At(c, "succeed") /\ i = Successor(c) /\ x = content[Mine(c)]
      PROVE  Stepped(c)
  <2>1. /\ state[i] \in {Absent, "BLOCKED"}
        /\ state' = [state EXCEPT ![i] = verdict]
        /\ content' = [content EXCEPT ![i] = x]
        /\ version' = [version EXCEPT ![i] = IF state[i] = Absent THEN 1 ELSE @]
    BY <1>0, <1>2, AdmitFacts
  <2>2. state' \in [Intents -> IntentStates]
    BY <1>0, <2>1 DEF IntentStates
  <2>3. content' \in [Intents -> SUBSET Scope] /\ version' \in [Intents -> 0..MaxVersion]
    BY <1>0, <2>1, ReplaceTypes
  <2>4. \A j \in Intents : Moved(j) /\ Appeared(c, j)
    BY <1>0, <1>2, <2>1 DEF Moved, Appeared
  <2>5. \A j \in Intents : Rewritten(c, j)
    BY <1>0, <1>2, <2>1 DEF Rewritten
  <2> QED
    BY <2>2, <2>3, <2>4, <2>5 DEF Stepped
<1>3. ASSUME NEW m \in Scope, version[Mine(c)] < MaxVersion,
             Promote({}, Mine(c), content[Mine(c)] \cup {m})
      PROVE  Stepped(c)
  <2> DEFINE i == Mine(c)
             x == content[i] \cup {m}
  <2>1. /\ state[i] \in Live /\ state' = state
        /\ content' = [content EXCEPT ![i] = x]
        /\ version' = [version EXCEPT ![i] = @ + 1]
    BY <1>0, <1>3, PromoteFacts
  <2>2. x \in SUBSET Scope
    BY <1>0
  <2>3. content' \in [Intents -> SUBSET Scope] /\ version' \in [Intents -> 0..MaxVersion]
    BY <1>0, <1>3, <2>1, <2>2, ReplaceTypes
  <2>4. \A j \in Intents : Moved(j) /\ Appeared(c, j)
    BY <2>1 DEF Moved, Appeared
  <2>5. \A j \in Intents : Rewritten(c, j)
    BY <1>0, <2>1 DEF Rewritten, Live, Dead
  <2> QED
    BY <1>0, <2>1, <2>3, <2>4, <2>5 DEF Stepped
<1>4. CASE /\ At(c, "amend") /\ version[Mine(c)] < MaxVersion
           /\ Amend({}, Mine(c), {}, call[c].scope \cup call[c].copy.ticket.want)
  <2> DEFINE i == Mine(c)
             x == call[c].scope \cup call[c].copy.ticket.want
  <2>1. /\ state[i] \in Live \cup {"STALE", "BLOCKED"}
        /\ state' = [state EXCEPT ![i] = IF @ = "STALE" THEN @ ELSE "ADMITTED"]
        /\ content' = [content EXCEPT ![i] = x]
        /\ version' = [version EXCEPT ![i] = @ + 1]
    BY <1>0, <1>4, AmendFacts
  <2>2. x \in SUBSET Scope
    BY <1>0
  <2>3. content' \in [Intents -> SUBSET Scope] /\ version' \in [Intents -> 0..MaxVersion]
    BY <1>0, <1>4, <2>1, <2>2, ReplaceTypes
  <2>4. state' \in [Intents -> IntentStates]
    BY <1>0, <2>1 DEF IntentStates
  <2>5. \A j \in Intents : Moved(j) /\ Appeared(c, j)
    BY <1>0, <2>1 DEF Moved, Appeared, Live, Absent
  <2>6. \A j \in Intents : Rewritten(c, j)
    BY <1>0, <1>4, <2>1 DEF Rewritten, Live, Dead
  <2> QED
    BY <2>3, <2>4, <2>5, <2>6 DEF Stepped
<1>5. ASSUME NEW i \in Intents, Activate(i) \/ Complete(i) \/ Release(i)
      PROVE  Stepped(c)
  <2>1. /\ \/ state[i] \in Live /\ state' = [state EXCEPT ![i] = "ACTIVE"]
           \/ state[i] \in Live /\ state' = [state EXCEPT ![i] = "COMPLETED"]
           \/ /\ state[i] \in Live \cup {"BLOCKED", "EXPIRED", "STALE"}
              /\ state' = [state EXCEPT ![i] = "RELEASED"]
        /\ UNCHANGED <<content, version>>
    BY <1>5 DEF Activate, Complete, Release, Move
  <2>2. state' \in [Intents -> IntentStates]
    BY <1>0, <2>1 DEF IntentStates
  <2>3. \A j \in Intents : Moved(j) /\ Appeared(c, j)
    BY <1>0, <2>1 DEF Moved, Appeared, Live, Absent
  <2> QED
    BY <1>0, <2>1, <2>2, <2>3 DEF Stepped, Rewritten
<1>6. {} \in SUBSET Scope /\ content[Mine(c)] \in SUBSET Scope
  BY <1>0
<1>7. ASSUME NEW verdict \in {"ADMITTED", "BLOCKED"},
             \/ At(c, "admit") /\ Admit({}, Mine(c), verdict, {})
             \/ At(c, "succeed") /\ Admit({}, Successor(c), verdict, Inherited(c))
      PROVE  Stepped(c)
  <2>1. CASE At(c, "admit") /\ Admit({}, Mine(c), verdict, {})
    BY <1>0, <1>2, <1>6, <2>1
  <2>2. CASE At(c, "succeed") /\ Admit({}, Successor(c), verdict, Inherited(c))
    <3>1. Successor(c) \in Intents
      BY <2>2, CallerFacts
    <3> QED
      BY <1>2, <1>6, <2>2, <3>1 DEF Inherited
  <2> QED
    BY <1>7, <2>1, <2>2
<1>8. CASE Activate(Mine(c)) \/ Complete(Mine(c)) \/ Release(Mine(c))
  BY <1>0, <1>5, <1>8
<1>9. CASE At(c, "rebind") /\ Activate(Successor(c))
  BY <1>5, <1>9, CallerFacts
<1> QED
  BY <1>1, <1>3, <1>4, <1>7, <1>8, <1>9 DEF Effect

-----------------------------------------------------------------------------
(* What was established stays so while the registry moves on.              *)

(* What a copy of a session says of its intent is never undone.            *)
LEMMA FileFitsStays ==
    ASSUME CodexTypeOK, \A i \in Intents : Moved(i),
           NEW s \in Sessions, NEW f \in Files, FileFits(state, s, f)
    PROVE  FileFits(state', s, f)
<1>1. f.nth \in 0..MaxResume
  BY DEF Files
<1>2. <<s, f.nth>> \in Intents
  BY <1>1, CodexAssumption
<1>3. Moved(<<s, f.nth>>)
  BY <1>2
<1> QED
  BY <1>3 DEF FileFits, Moved, Done, Live, Absent

(* The contents of an intent that lost its authority are final.            *)
LEMMA DeadContentFinal ==
    ASSUME CodexInv, NEW c \in Callers, NEW i \in Intents, Rewritten(c, i), state[i] \in Dead
    PROVE  content'[i] = content[i]
BY DEF Rewritten, Dead, Absent

(* So is what a waiting call has established.                              *)
LEMMA CallFitsStays ==
    ASSUME CodexInv, \A i \in Intents : Moved(i),
           \A i \in Intents : state[i] \in Dead => content'[i] = content[i],
           NEW s \in Sessions, NEW k \in CallType,
           FileFits(state, s, k.copy), CallFits(state, content, s, k)
    PROVE  CallFits(state', content', s, k)
<1>1. k.copy.nth \in 0..MaxResume
  BY DEF CallType, Files
<1>2. <<s, k.copy.nth>> \in Intents /\ Moved(<<s, k.copy.nth>>)
  BY <1>1, CodexAssumption
<1>3. k.at \in {"succeed", "rebind"} => k.copy.nth < MaxResume /\ k.copy.bound
  BY DEF CallFits
<1>4. k.at = "succeed" => state'[<<s, k.copy.nth>>] \in Dead
  BY <1>2 DEF CallFits, Moved, Dead, Live, Absent
<1>5. k.at = "rebind" => state'[<<s, k.copy.nth + 1>>] \notin {Absent, "BLOCKED"}
  <2> SUFFICES ASSUME k.at = "rebind"
               PROVE  state'[<<s, k.copy.nth + 1>>] \notin {Absent, "BLOCKED"}
    OBVIOUS
  <2>1. <<s, k.copy.nth + 1>> \in Intents
    BY <1>1, <1>3, CodexAssumption
  <2>2. Moved(<<s, k.copy.nth + 1>>)
    BY <2>1
  <2> QED
    BY <2>2 DEF CallFits, Moved, Live, Absent
<1>6. k.at \in {"verify", "complete"} => k.copy.bound
  BY DEF CallFits
<1>7. k.at \in {"reread", "amend"} /\ k.copy.nth > 0
         => content'[<<s, k.copy.nth - 1>>] \subseteq k.scope
  <2> SUFFICES ASSUME k.at \in {"reread", "amend"}, k.copy.nth > 0
               PROVE  content'[<<s, k.copy.nth - 1>>] \subseteq k.scope
    OBVIOUS
  <2>1. k.copy.nth - 1 \in 0..MaxResume /\ k.copy.nth - 1 < k.copy.nth
    BY <1>1, CodexAssumption
  <2>2. state[<<s, k.copy.nth>>] # Absent
    BY DEF FileFits
  <2>3. state[<<s, k.copy.nth - 1>>] \in Dead
    BY <1>1, <2>1, <2>2 DEF CodexInv, Succession
  <2>4. <<s, k.copy.nth - 1>> \in Intents
    BY <2>1, CodexAssumption
  <2>5. content'[<<s, k.copy.nth - 1>>] = content[<<s, k.copy.nth - 1>>]
    BY <2>3, <2>4
  <2> QED
    BY <2>5 DEF CallFits
<1> QED
  BY <1>3, <1>4, <1>5, <1>6, <1>7 DEF CallFits

(* Only resuming a session whose intent is dead makes an intent appear     *)
(* above another one.                                                      *)
LEMMA AppearsAbove ==
    ASSUME CodexInv, NEW c \in Callers, NEW s \in Sessions, NEW n \in 0..MaxResume, n > 0,
           Appeared(c, <<s, n>>), state[<<s, n>>] = Absent, state'[<<s, n>>] # Absent
    PROVE  /\ s = Of[c] /\ n = call[c].copy.nth + 1
           /\ state[<<s, n - 1>>] \in Dead
           /\ content'[<<s, n>>] = content[<<s, n - 1>>]
<1>1. /\ call[c].copy.nth \in 0..MaxResume
      /\ Mine(c) = <<Of[c], call[c].copy.nth>>
      /\ FileFits(state, Of[c], call[c].copy)
      /\ CallFits(state, content, Of[c], call[c])
  BY CallerFacts, MineFacts
<1>2. <<s, n>> # Mine(c)
  BY <1>1 DEF FileFits
<1>3. At(c, "succeed") /\ <<s, n>> = Successor(c) /\ content'[<<s, n>>] = content[Mine(c)]
  BY <1>2 DEF Appeared
<1>4. s = Of[c] /\ n = call[c].copy.nth + 1
  BY <1>3 DEF Successor
<1>5. n - 1 = call[c].copy.nth
  BY <1>1, <1>4
<1> QED
  BY <1>1, <1>3, <1>4, <1>5 DEF CallFits, At

(* Intents of a session keep succeeding each other.                        *)
LEMMA SuccessionStep ==
    ASSUME CodexInv, NEW c \in Callers,
           \A i \in Intents : Moved(i) /\ Appeared(c, i)
    PROVE  Succession(state')
<1> SUFFICES ASSUME NEW s \in Sessions, NEW m \in 0..MaxResume, NEW n \in 0..MaxResume,
                    m < n, state'[<<s, n>>] # Absent
             PROVE  state'[<<s, m>>] \in Dead
  BY DEF Succession
<1>1. <<s, m>> \in Intents /\ <<s, n>> \in Intents
  BY CodexAssumption
<1>2. state[<<s, m>>] \in Dead
  <2>1. CASE state[<<s, n>>] # Absent
    BY <2>1 DEF CodexInv, Succession
  <2>2. CASE state[<<s, n>>] = Absent
    <3>1. /\ s = Of[c] /\ n = call[c].copy.nth + 1
          /\ state[<<s, n - 1>>] \in Dead
      BY <1>1, <2>2, AppearsAbove
    <3>2. n - 1 \in 0..MaxResume /\ (m = n - 1 \/ m < n - 1)
      <4>1. MaxResume \in Nat /\ m \in Nat /\ n \in Nat /\ n <= MaxResume /\ m < n
        BY CodexAssumption
      <4> QED
        BY <4>1
    <3>3. state[<<s, n - 1>>] # Absent
      BY <3>1 DEF Dead, Absent
    <3> QED
      BY <3>1, <3>2, <3>3 DEF CodexInv, Succession
  <2> QED
    BY <2>1, <2>2
<1> QED
  BY <1>1, <1>2 DEF Moved, Dead, Live, Absent

(* A successor keeps its predecessor's contract.                           *)
LEMMA ContractStep ==
    ASSUME CodexInv, NEW c \in Callers,
           \A i \in Intents : Moved(i) /\ Appeared(c, i) /\ Rewritten(c, i)
    PROVE  ContractInherited'
<1> SUFFICES ASSUME NEW s \in Sessions, NEW n \in 0..(MaxResume - 1),
                    state'[<<s, n + 1>>] # Absent
             PROVE  content'[<<s, n>>] \subseteq content'[<<s, n + 1>>]
  BY DEF ContractInherited
<1>1. /\ n \in 0..MaxResume /\ n + 1 \in 0..MaxResume
      /\ n < n + 1 /\ n + 1 > 0 /\ (n + 1) - 1 = n
  BY CodexAssumption
<1>2. <<s, n>> \in Intents /\ <<s, n + 1>> \in Intents
  BY <1>1, CodexAssumption
<1>3. CASE state[<<s, n + 1>>] = Absent
  <2>1. /\ state[<<s, n>>] \in Dead
        /\ content'[<<s, n + 1>>] = content[<<s, n>>]
    BY <1>1, <1>2, <1>3, AppearsAbove
  <2>2. content'[<<s, n>>] = content[<<s, n>>]
    BY <1>2, <2>1, DeadContentFinal
  <2> QED
    BY <2>1, <2>2
<1>4. CASE state[<<s, n + 1>>] # Absent
  <2>1. state[<<s, n>>] \in Dead
    BY <1>1, <1>4 DEF CodexInv, Succession
  <2>2. content'[<<s, n>>] = content[<<s, n>>]
    BY <1>2, <2>1, DeadContentFinal
  <2>3. content[<<s, n>>] \subseteq content[<<s, n + 1>>]
    BY <1>4 DEF CodexInv, ContractInherited
  <2>4. /\ call[c].copy.nth \in 0..MaxResume
        /\ Mine(c) = <<Of[c], call[c].copy.nth>>
        /\ FileFits(state, Of[c], call[c].copy)
        /\ CallFits(state, content, Of[c], call[c])
    BY CallerFacts, MineFacts
  <2>5. Rewritten(c, <<s, n + 1>>)
    BY <1>2
  <2>6. CASE content'[<<s, n + 1>>] = content[<<s, n + 1>>]
    BY <2>2, <2>3, <2>6
  <2>7. CASE At(c, "admit") /\ <<s, n + 1>> = Mine(c) /\ state[<<s, n + 1>>] \in {Absent, "BLOCKED"}
    BY <1>1, <2>4, <2>7 DEF FileFits
  <2>8. CASE At(c, "succeed") /\ <<s, n + 1>> = Successor(c)
             /\ content'[<<s, n + 1>>] = content[Mine(c)]
    <3>1. Mine(c) = <<s, n>>
      BY <1>1, <2>4, <2>8 DEF Successor
    <3> QED
      BY <2>2, <2>8, <3>1
  <2>9. CASE content[<<s, n + 1>>] \subseteq content'[<<s, n + 1>>]
    BY <2>2, <2>3, <2>9
  <2>10. CASE At(c, "amend") /\ <<s, n + 1>> = Mine(c) /\ call[c].scope \subseteq content'[<<s, n + 1>>]
    <3>1. call[c].copy.nth = n + 1 /\ s = Of[c]
      BY <2>4, <2>10
    <3>2. content[<<s, n>>] \subseteq call[c].scope
      BY <1>1, <2>4, <2>10, <3>1 DEF CallFits, At
    <3> QED
      BY <2>2, <2>10, <3>2
  <2> QED
    BY <2>5, <2>6, <2>7, <2>8, <2>9, <2>10 DEF Rewritten
<1> QED
  BY <1>3, <1>4

-----------------------------------------------------------------------------
(* What one step of a call does to the session file and to its own copy.   *)

Local(c) ==
    /\ file' = file \/ file' = [file EXCEPT ![Of[c]] = call[c].copy]
    /\ \E k \in CallType :
         /\ call' = [call EXCEPT ![c] = k]
         /\ FileFits(state', Of[c], k.copy)
         /\ CallFits(state', content', Of[c], k)

Following(c) ==
    /\ CodexInv
    /\ \A i \in Intents : Moved(i)
    /\ \A i \in Intents : state[i] \in Dead => content'[i] = content[i]

(* The steps that need nothing established first.                          *)
Plain == Steps \ {"succeed", "rebind", "verify", "complete", "reread", "amend"}

(* What the file and the caller's copy say still holds after the step.     *)
LEMMA StillFits ==
    ASSUME NEW c \in Callers, Following(c)
    PROVE  /\ FileFits(state', Of[c], file[Of[c]])
           /\ FileFits(state', Of[c], call[c].copy)
           /\ CallFits(state', content', Of[c], call[c])
<1>1. /\ CodexInv /\ CodexTypeOK
      /\ \A i \in Intents : Moved(i)
      /\ \A i \in Intents : state[i] \in Dead => content'[i] = content[i]
  BY CallerFacts DEF Following
<1>2. /\ Of[c] \in Sessions /\ call[c] \in CallType /\ file[Of[c]] \in Files
      /\ call[c].copy \in Files
  BY <1>1, MineFacts
<1>3. /\ FileFits(state, Of[c], file[Of[c]])
      /\ FileFits(state, Of[c], call[c].copy)
      /\ CallFits(state, content, Of[c], call[c])
  BY <1>1, CallerFacts
<1>4. FileFits(state', Of[c], file[Of[c]]) /\ FileFits(state', Of[c], call[c].copy)
  BY <1>1, <1>2, <1>3, FileFitsStays
<1> QED
  BY <1>1, <1>2, <1>3, <1>4, CallFitsStays

(* A record of a call that waits before a step of its own kind.            *)
LEMMA GoLocal ==
    ASSUME NEW c \in Callers, Following(c), NEW step \in Plain, NEW f \in Files,
           Go(c, step, f), FileFits(state', Of[c], f)
    PROVE  Local(c)
<1> DEFINE k == [call[c] EXCEPT !.at = step, !.copy = f]
<1>1. call[c] \in CallType /\ step \in Steps
  BY MineFacts DEF Following, CodexInv, Plain
<1>2. k \in CallType /\ k.at = step /\ k.copy = f
  BY <1>1 DEF CallType
<1>3. CallFits(state', content', Of[c], k)
  BY <1>2 DEF CallFits, Plain
<1>4. call' = [call EXCEPT ![c] = k] /\ file' = file
  BY DEF Go
<1> QED
  BY <1>2, <1>3, <1>4 DEF Local

(* The same for a call that goes on with an unchanged copy.                *)
LEMMA GoOnLocal ==
    ASSUME NEW c \in Callers, Following(c), NEW step \in Steps, Go(c, step, call[c].copy),
           step = "succeed" =>
             call[c].copy.nth < MaxResume /\ call[c].copy.bound /\ state'[Mine(c)] \in Dead,
           step = "rebind" =>
             /\ call[c].copy.nth < MaxResume /\ call[c].copy.bound
             /\ state'[Successor(c)] \notin {Absent, "BLOCKED"},
           step = "complete" => call[c].copy.bound,
           step \notin {"verify", "reread", "amend"}
    PROVE  Local(c)
<1> DEFINE k == [call[c] EXCEPT !.at = step, !.copy = call[c].copy]
<1>1. /\ call[c] \in CallType /\ call[c].copy \in Files
      /\ Mine(c) = <<Of[c], call[c].copy.nth>>
  BY MineFacts DEF Following, CodexInv
<1>2. k \in CallType /\ k.at = step /\ k.copy = call[c].copy
  BY <1>1 DEF CallType
<1>3. FileFits(state', Of[c], k.copy)
  BY <1>2, StillFits
<1>4. CallFits(state', content', Of[c], k)
  BY <1>1, <1>2 DEF CallFits, Successor
<1>5. call' = [call EXCEPT ![c] = k] /\ file' = file
  BY DEF Go
<1> QED
  BY <1>2, <1>3, <1>4, <1>5 DEF Local

(* The record of a caller that is in no call.                              *)
LEMMA IdleFits ==
    /\ Idle \in CallType
    /\ \A st, ct, s : FileFits(st, s, Idle.copy) /\ CallFits(st, ct, s, Idle)
    /\ Bootstrapped \in Files
    /\ \A st, s : FileFits(st, s, Bootstrapped)
<1>1. NoTicket \in Tickets
  BY CodexAssumption DEF NoTicket, Tickets
<1>2. Bootstrapped \in Files
  BY <1>1, CodexAssumption DEF Bootstrapped, Files
<1>3. 0 \in 0..MaxVersion /\ "idle" \in Steps /\ {} \in SUBSET Scope
  BY CodexAssumption DEF Steps
<1>4. Idle \in CallType
  BY <1>2, <1>3 DEF Idle, CallType
<1> QED
  BY <1>2, <1>4 DEF FileFits, CallFits, Idle, Bootstrapped

(* And for a call that begins with a copy of the file.                     *)
LEMMA LoadLocal ==
    ASSUME NEW c \in Callers, Following(c), NEW kind, NEW step \in Plain \cup {"verify"},
           Load(c, kind, step), step = "verify" => file[Of[c]].bound
    PROVE  Local(c)
<1> DEFINE k == [Idle EXCEPT !.at = step, !.copy = file[Of[c]]]
<1>1. file[Of[c]] \in Files /\ step \in Steps /\ 0 \in 0..MaxVersion
  BY MineFacts, CodexAssumption DEF Following, CodexInv, Plain, Steps
<1>2. k \in CallType /\ k.at = step /\ k.copy = file[Of[c]]
  BY <1>1, IdleFits DEF CallType
<1>3. FileFits(state', Of[c], k.copy)
  BY <1>2, StillFits
<1>4. CallFits(state', content', Of[c], k)
  BY <1>2 DEF CallFits, Plain
<1>5. call' = [call EXCEPT ![c] = k] /\ file' = file
  BY DEF Load
<1> QED
  BY <1>2, <1>3, <1>4, <1>5 DEF Local

(* Copies the calls write: what they change of a copy that fits.           *)
LEMMA CopiesFit ==
    ASSUME NEW st, NEW s \in Sessions, NEW f \in Files, FileFits(st, s, f)
    PROVE  /\ Opened(f) \in Files /\ FileFits(st, s, Opened(f))
           /\ WithoutTicket(f) \in Files /\ FileFits(st, s, WithoutTicket(f))
           /\ WithoutTicket(Opened(f)) \in Files /\ FileFits(st, s, WithoutTicket(Opened(f)))
           /\ [Opened(f) EXCEPT !.clean = FALSE] \in Files
           /\ FileFits(st, s, [Opened(f) EXCEPT !.clean = FALSE])
<1>1. NoTicket \in Tickets
  BY CodexAssumption DEF NoTicket, Tickets
<1> QED
  BY <1>1 DEF Files, FileFits, Opened, WithoutTicket

(* A session changed in the ways the calls change it.                      *)
LEMMA Concluded ==
    ASSUME NEW st, NEW s \in Sessions, NEW f \in Files, FileFits(st, s, f)
    PROVE  /\ LET g == [Opened(f) EXCEPT !.bound = TRUE]
              IN  g \in Files /\ FileFits(st, s, g)
           /\ \A t \in Tickets : LET g == [f EXCEPT !.ticket = t]
                                 IN  g \in Files /\ FileFits(st, s, g)
           /\ f.bound /\ st[<<s, f.nth>>] \in Done =>
                LET g == WithoutTicket([f EXCEPT !.task = "verified", !.clean = TRUE])
                    h == [f EXCEPT !.task = "verified"]
                IN  g \in Files /\ h \in Files /\ FileFits(st, s, g) /\ FileFits(st, s, h)
           /\ (f.bound => st[<<s, f.nth>>] \in Done) =>
                Abandoned(f) \in Files /\ FileFits(st, s, Abandoned(f))
<1>1. NoTicket \in Tickets
  BY CodexAssumption DEF NoTicket, Tickets
<1>2. LET g == [Opened(f) EXCEPT !.bound = TRUE] IN g \in Files /\ FileFits(st, s, g)
  BY DEF Files, FileFits, Opened
<1>3. \A t \in Tickets : LET g == [f EXCEPT !.ticket = t] IN g \in Files /\ FileFits(st, s, g)
  BY DEF Files, FileFits
<1>4. f.bound /\ st[<<s, f.nth>>] \in Done =>
        LET g == WithoutTicket([f EXCEPT !.task = "verified", !.clean = TRUE])
            h == [f EXCEPT !.task = "verified"]
        IN  g \in Files /\ h \in Files /\ FileFits(st, s, g) /\ FileFits(st, s, h)
  BY <1>1 DEF Files, FileFits, WithoutTicket
<1>5. (f.bound => st[<<s, f.nth>>] \in Done) =>
        Abandoned(f) \in Files /\ FileFits(st, s, Abandoned(f))
  BY <1>1 DEF Files, FileFits, WithoutTicket, Abandoned
<1> QED
  BY <1>2, <1>3, <1>4, <1>5

(* The steps every call shares.                                            *)
LEMMA SharedLocal ==
    ASSUME NEW c \in Callers, Following(c),
           Write(c) \/ Die(c) \/ Touch(c) \/ TurnEnd(c)
    PROVE  Local(c)
<1>1. CodexInv /\ Idle \in CallType
  BY IdleFits DEF Following
<1>2. FileFits(state', Of[c], Idle.copy) /\ CallFits(state', content', Of[c], Idle)
  BY IdleFits
<1>3. CASE Write(c) \/ Die(c)
  BY <1>1, <1>2, <1>3 DEF Local, Write, Die
<1>4. CASE Touch(c)
  BY <1>4, LoadLocal DEF Touch, Plain, Steps
<1>5. CASE TurnEnd(c)
  <2> DEFINE g == [Opened(file[Of[c]]) EXCEPT !.clean = FALSE]
  <2>1. Of[c] \in Sessions /\ file[Of[c]] \in Files /\ FileFits(state', Of[c], file[Of[c]])
    BY <1>1, MineFacts, StillFits DEF CodexInv
  <2>2. g \in Files /\ FileFits(state', Of[c], g)
    BY <2>1, CopiesFit
  <2>3. Go(c, "write", g) /\ "write" \in Plain
    BY <1>5 DEF TurnEnd, Plain, Steps
  <2> QED
    BY <2>2, <2>3, GoLocal
<1> QED
  BY <1>3, <1>4, <1>5

(* The steps of an admission.                                              *)
LEMMA AdmitLocal ==
    ASSUME NEW c \in Callers, Following(c),
           AdmitRefused(c) \/ AdmitStart(c) \/ AdmitSubmit(c) \/ AdmitActivate(c)
    PROVE  Local(c)
<1>1. /\ Of[c] \in Sessions /\ file[Of[c]] \in Files /\ call[c].copy \in Files
      /\ FileFits(state', Of[c], file[Of[c]]) /\ FileFits(state', Of[c], call[c].copy)
      /\ "write" \in Plain /\ "admit" \in Plain /\ "activate" \in Plain
  BY MineFacts, StillFits DEF Following, CodexInv, Plain, Steps
<1>2. CASE AdmitRefused(c)
  BY <1>1, <1>2, CopiesFit, GoLocal DEF AdmitRefused
<1>3. CASE AdmitStart(c)
  BY <1>1, <1>3, LoadLocal DEF AdmitStart
<1>4. CASE AdmitSubmit(c)
  <2>1. Go(c, "activate", call[c].copy) \/ Go(c, "write", Opened(call[c].copy))
    BY <1>4 DEF AdmitSubmit
  <2> QED
    BY <1>1, <2>1, CopiesFit, GoLocal
<1>5. CASE AdmitActivate(c)
  BY <1>1, <1>5, Concluded, GoLocal DEF AdmitActivate
<1> QED
  BY <1>2, <1>3, <1>4, <1>5

(* The steps of the guard.                                                 *)
LEMMA GuardLocal ==
    ASSUME NEW c \in Callers, Following(c),
           GuardStart(c) \/ GuardPlain(c) \/ GuardPromote(c) \/ GuardTicket(c) \/ WriteTicket(c)
    PROVE  Local(c)
<1>1. /\ Of[c] \in Sessions /\ file[Of[c]] \in Files /\ call[c].copy \in Files
      /\ call[c] \in CallType
      /\ FileFits(state', Of[c], file[Of[c]]) /\ FileFits(state', Of[c], call[c].copy)
      /\ "write" \in Plain /\ "guard" \in Plain /\ "write_ticket" \in Plain
  BY MineFacts, StillFits DEF Following, CodexInv, Plain, Steps
<1>2. CASE GuardStart(c)
  BY <1>1, <1>2, LoadLocal DEF GuardStart
<1>3. CASE GuardPlain(c) \/ GuardPromote(c)
  <2>1. Go(c, "write", call[c].copy)
    BY <1>3 DEF GuardPlain, GuardPromote
  <2> QED
    BY <1>1, <2>1, GoLocal
<1>4. CASE GuardTicket(c)
  <2>1. PICK m \in Scope :
          Go(c, "write_ticket",
             [call[c].copy EXCEPT !.ticket =
                [nth |-> call[c].copy.nth, version |-> version[Mine(c)], want |-> {m}]])
    BY <1>4 DEF GuardTicket
  <2>2. call[c].copy.nth \in 0..MaxResume /\ version[Mine(c)] \in 0..MaxVersion
    BY MineFacts DEF Following, CodexInv, CodexTypeOK
  <2>3. [nth |-> call[c].copy.nth, version |-> version[Mine(c)], want |-> {m}] \in Tickets
    BY <2>2 DEF Tickets
  <2> QED
    BY <1>1, <2>1, <2>3, Concluded, GoLocal
<1>5. CASE WriteTicket(c)
  <2> DEFINE k == [call[c] EXCEPT !.at = "write"]
  <2>1. k \in CallType /\ k.at = "write" /\ k.copy = call[c].copy
    BY <1>1 DEF CallType, Plain
  <2>2. FileFits(state', Of[c], k.copy) /\ CallFits(state', content', Of[c], k)
    BY <1>1, <2>1 DEF CallFits
  <2>3. file' = [file EXCEPT ![Of[c]] = call[c].copy] /\ call' = [call EXCEPT ![c] = k]
    BY <1>5 DEF WriteTicket
  <2> QED
    BY <2>1, <2>2, <2>3 DEF Local
<1> QED
  BY <1>2, <1>3, <1>4, <1>5

(* The steps of an amendment; what it read contains what the predecessor   *)
(* was promised.                                                           *)
LEMMA AmendLocal ==
    ASSUME NEW c \in Callers, Following(c),
           \/ AmendStart(c) \/ AmendDenied(c) \/ AmendRead(c) \/ AmendReadVersion(c)
           \/ AmendSubmit(c) \/ AmendActivate(c)
    PROVE  Local(c)
<1>1. /\ CodexInv /\ CodexTypeOK
      /\ Of[c] \in Sessions /\ file[Of[c]] \in Files /\ call[c].copy \in Files
      /\ call[c] \in CallType /\ call[c].copy.nth \in 0..MaxResume
      /\ Mine(c) \in Intents /\ Mine(c) = <<Of[c], call[c].copy.nth>>
      /\ FileFits(state', Of[c], file[Of[c]]) /\ FileFits(state', Of[c], call[c].copy)
      /\ CallFits(state', content', Of[c], call[c])
      /\ "write" \in Plain /\ "read" \in Plain /\ "reactivate" \in Plain
  BY MineFacts, StillFits, CallerFacts DEF Following, Plain, Steps
<1>2. CASE AmendStart(c)
  BY <1>1, <1>2, LoadLocal DEF AmendStart
<1>3. CASE AmendDenied(c)
  BY <1>1, <1>3, CopiesFit, GoLocal DEF AmendDenied
<1>4. CASE AmendRead(c)
  <2> DEFINE k == [call[c] EXCEPT !.at = "reread", !.scope = content[Mine(c)]]
  <2>1. /\ k \in CallType /\ k.at = "reread" /\ k.copy = call[c].copy
        /\ k.scope = content[Mine(c)]
    <3>1. content[Mine(c)] \in SUBSET Scope /\ "reread" \in Steps
      BY <1>1 DEF CodexTypeOK, Steps
    <3> QED
      BY <1>1, <3>1 DEF CallType
  <2>2. call[c].copy.nth > 0 => content'[<<Of[c], call[c].copy.nth - 1>>] \subseteq k.scope
    <3> SUFFICES ASSUME call[c].copy.nth > 0
                 PROVE  content'[<<Of[c], call[c].copy.nth - 1>>] \subseteq k.scope
      OBVIOUS
    <3> DEFINE n == call[c].copy.nth - 1
    <3>1. n \in 0..(MaxResume - 1) /\ n + 1 = call[c].copy.nth
      BY <1>1, CodexAssumption
    <3>2. state[<<Of[c], n + 1>>] # Absent
      BY <1>1, <3>1, CallerFacts DEF FileFits
    <3>3. content[<<Of[c], n>>] \subseteq content[<<Of[c], n + 1>>]
      BY <1>1, <3>1, <3>2 DEF CodexInv, ContractInherited
    <3>4. content' = content
      BY <1>4 DEF AmendRead, Registry
    <3> HIDE DEF n
    <3>5. content'[<<Of[c], n>>] \subseteq k.scope
      BY <1>1, <2>1, <3>1, <3>3, <3>4
    <3> QED
      BY <3>5 DEF n
  <2>3. FileFits(state', Of[c], k.copy) /\ CallFits(state', content', Of[c], k)
    BY <1>1, <2>1, <2>2 DEF CallFits
  <2>4. file' = file /\ call' = [call EXCEPT ![c] = k]
    BY <1>4 DEF AmendRead
  <2> QED
    BY <2>1, <2>3, <2>4 DEF Local
<1>5. CASE AmendReadVersion(c)
  <2> DEFINE k == [call[c] EXCEPT !.at = "amend", !.expected = version[Mine(c)]]
  <2>1. /\ k \in CallType /\ k.at = "amend" /\ k.copy = call[c].copy
        /\ k.scope = call[c].scope
    <3>1. version[Mine(c)] \in 0..MaxVersion /\ "amend" \in Steps
      BY <1>1 DEF CodexTypeOK, Steps
    <3> QED
      BY <1>1, <3>1 DEF CallType
  <2>2. FileFits(state', Of[c], k.copy) /\ CallFits(state', content', Of[c], k)
    BY <1>1, <1>5, <2>1 DEF CallFits, AmendReadVersion, At
  <2>3. file' = file /\ call' = [call EXCEPT ![c] = k]
    BY <1>5 DEF AmendReadVersion
  <2> QED
    BY <2>1, <2>2, <2>3 DEF Local
<1>6. CASE AmendSubmit(c)
  <2>1. Go(c, "reactivate", call[c].copy) \/ Go(c, "write", WithoutTicket(call[c].copy))
    BY <1>6 DEF AmendSubmit
  <2> QED
    BY <1>1, <2>1, CopiesFit, GoLocal
<1>7. CASE AmendActivate(c)
  BY <1>1, <1>7, CopiesFit, GoLocal DEF AmendActivate
<1> QED
  BY <1>2, <1>3, <1>4, <1>5, <1>6, <1>7

(* The steps of a verification.                                            *)
LEMMA VerifyLocal ==
    ASSUME NEW c \in Callers, Following(c),
           VerifyStart(c) \/ VerifyClean(c) \/ VerifyFailed(c) \/ VerifyComplete(c)
    PROVE  Local(c)
<1>1. /\ CodexInv /\ CodexTypeOK
      /\ Of[c] \in Sessions /\ file[Of[c]] \in Files /\ call[c].copy \in Files
      /\ Mine(c) \in Intents /\ Mine(c) = <<Of[c], call[c].copy.nth>>
      /\ FileFits(state', Of[c], file[Of[c]]) /\ FileFits(state', Of[c], call[c].copy)
      /\ CallFits(state, content, Of[c], call[c])
      /\ "write" \in Plain /\ "complete" \in Steps
  BY MineFacts, StillFits, CallerFacts DEF Following, Plain, Steps
<1>2. CASE VerifyStart(c)
  BY <1>1, <1>2, LoadLocal DEF VerifyStart
<1>3. CASE VerifyClean(c)
  <2>1. call[c].copy.bound /\ Go(c, "complete", call[c].copy)
    BY <1>1, <1>3 DEF VerifyClean, CallFits, At
  <2> QED
    BY <1>1, <2>1, GoOnLocal
<1>4. CASE VerifyFailed(c)
  BY <1>1, <1>4, CopiesFit, GoLocal DEF VerifyFailed
<1>5. CASE VerifyComplete(c)
  <2> DEFINE g == WithoutTicket([call[c].copy EXCEPT !.task = "verified", !.clean = TRUE])
  <2>1. call[c].copy.bound /\ Go(c, "write", g)
    BY <1>1, <1>5 DEF VerifyComplete, CallFits, At
  <2>2. state'[Mine(c)] = "COMPLETED"
    BY <1>1, <1>5 DEF VerifyComplete, Complete, Move, Registry, CodexTypeOK
  <2>3. state'[<<Of[c], call[c].copy.nth>>] \in Done
    BY <1>1, <2>2 DEF Done
  <2>4. g \in Files /\ FileFits(state', Of[c], g)
    BY <1>1, <2>1, <2>3, Concluded
  <2> QED
    BY <1>1, <2>1, <2>4, GoLocal
<1> QED
  BY <1>2, <1>3, <1>4, <1>5

(* The steps of an abandonment.                                            *)
LEMMA AbandonLocal ==
    ASSUME NEW c \in Callers, Following(c), AbandonStart(c) \/ AbandonRelease(c)
    PROVE  Local(c)
<1>1. /\ CodexInv /\ CodexTypeOK
      /\ Of[c] \in Sessions /\ file[Of[c]] \in Files /\ call[c].copy \in Files
      /\ Mine(c) \in Intents /\ Mine(c) = <<Of[c], call[c].copy.nth>>
      /\ FileFits(state', Of[c], call[c].copy)
      /\ "write" \in Plain /\ "release" \in Plain
  BY MineFacts, StillFits, CallerFacts DEF Following, Plain, Steps
<1>2. CASE AbandonStart(c)
  BY <1>1, <1>2, LoadLocal DEF AbandonStart
<1>3. CASE AbandonRelease(c)
  <2>1. call[c].copy.bound => state'[Mine(c)] \in {"RELEASED", "COMPLETED"}
    BY <1>1, <1>3 DEF AbandonRelease, Release, Move, Registry, CodexTypeOK
  <2>2. call[c].copy.bound => state'[<<Of[c], call[c].copy.nth>>] \in Done
    BY <1>1, <2>1 DEF Done
  <2>3. Go(c, "write", Abandoned(call[c].copy))
    BY <1>3 DEF AbandonRelease
  <2>4. Abandoned(call[c].copy) \in Files /\ FileFits(state', Of[c], Abandoned(call[c].copy))
    BY <1>1, <2>2, Concluded
  <2> QED
    BY <1>1, <2>3, <2>4, GoLocal
<1> QED
  BY <1>2, <1>3

(* The steps of a resumed session.                                         *)
LEMMA ResumeLocal ==
    ASSUME NEW c \in Callers, Following(c),
           \/ ResumeStart(c) \/ ResumeKept(c) \/ ResumeLive(c) \/ ResumeRenew(c)
           \/ ResumeExpired(c) \/ ResumeSubmit(c) \/ ResumeRebind(c)
    PROVE  Local(c)
<1>1. /\ CodexInv /\ CodexTypeOK
      /\ Of[c] \in Sessions /\ file[Of[c]] \in Files /\ call[c].copy \in Files
      /\ Mine(c) \in Intents /\ Mine(c) = <<Of[c], call[c].copy.nth>>
      /\ FileFits(state', Of[c], file[Of[c]]) /\ FileFits(state', Of[c], call[c].copy)
      /\ CallFits(state, content, Of[c], call[c])
      /\ At(c, "succeed") \/ At(c, "rebind") => call[c].copy.nth < MaxResume /\ call[c].copy.bound
      /\ "write" \in Plain /\ "resume" \in Plain /\ "renew" \in Plain
      /\ "succeed" \in Steps /\ "rebind" \in Steps
  BY MineFacts, StillFits, CallerFacts DEF Following, Plain, Steps, CallFits, At
<1>2. CASE ResumeStart(c)
  BY <1>1, <1>2, LoadLocal DEF ResumeStart
<1>3. CASE ResumeKept(c)
  <2>1. CASE call[c].copy.bound /\ state[Mine(c)] = "COMPLETED" /\ call[c].copy.clean
    <3>1. Go(c, "write", [call[c].copy EXCEPT !.task = "verified"])
      BY <1>3, <2>1 DEF ResumeKept
    <3>2. state'[<<Of[c], call[c].copy.nth>>] \in Done
      BY <1>1, <1>3, <2>1 DEF ResumeKept, Registry, Done
    <3> QED
      BY <1>1, <2>1, <3>1, <3>2, Concluded, GoLocal
  <2>2. CASE ~(call[c].copy.bound /\ state[Mine(c)] = "COMPLETED" /\ call[c].copy.clean)
    <3>1. Go(c, "write", Opened(call[c].copy)) \/ Go(c, "write", call[c].copy)
      BY <1>3, <2>2 DEF ResumeKept
    <3> QED
      BY <1>1, <3>1, CopiesFit, GoLocal
  <2> QED
    BY <2>1, <2>2
<1>4. CASE ResumeLive(c)
  BY <1>1, <1>4, GoLocal DEF ResumeLive
<1>5. CASE ResumeRenew(c)
  BY <1>1, <1>5, CopiesFit, GoLocal DEF ResumeRenew
<1>6. CASE ResumeExpired(c)
  <2>1. call[c].copy.nth < MaxResume /\ call[c].copy.bound /\ Go(c, "succeed", call[c].copy)
    BY <1>6 DEF ResumeExpired
  <2>2. state'[Mine(c)] \in Dead
    BY <1>6 DEF ResumeExpired, Registry, Dead
  <2> QED
    BY <1>1, <2>1, <2>2, GoOnLocal
<1>7. CASE ResumeSubmit(c)
  <2>1. call[c].copy.nth < MaxResume /\ call[c].copy.bound /\ Successor(c) \in Intents
    BY <1>1, <1>7, MineFacts DEF ResumeSubmit
  <2>2. CASE Admit({}, Successor(c), "ADMITTED", Inherited(c)) /\ Go(c, "rebind", call[c].copy)
    <3>1. state'[Successor(c)] = "ADMITTED"
      BY <1>1, <2>1, <2>2, AdmitFacts DEF CodexTypeOK
    <3> QED
      BY <1>1, <2>1, <2>2, <3>1, GoOnLocal DEF Absent
  <2>3. CASE Go(c, "write", Opened(call[c].copy))
    BY <1>1, <2>3, CopiesFit, GoLocal
  <2>4. CASE /\ Recorded(Successor(c), Inherited(c))
             /\ Go(c, "rebind", call[c].copy)
             /\ UNCHANGED Registry
    <3>1. state'[Successor(c)] \notin {Absent, "BLOCKED"}
      BY <2>4 DEF Recorded, Registry
    <3> QED
      BY <1>1, <2>1, <2>4, <3>1, GoOnLocal
  <2> QED
    BY <1>7, <2>2, <2>3, <2>4 DEF ResumeSubmit
<1>8. CASE ResumeRebind(c)
  <2> DEFINE g == [Opened(call[c].copy) EXCEPT !.nth = @ + 1]
  <2>1. /\ call[c].copy.nth < MaxResume /\ Successor(c) \in Intents
        /\ Activate(Successor(c)) /\ Go(c, "write", g)
    BY <1>1, <1>8, MineFacts DEF ResumeRebind
  <2>2. state'[Successor(c)] = "ACTIVE"
    BY <1>1, <2>1 DEF Activate, Move, CodexTypeOK
  <2>3. call[c].copy.nth + 1 \in 0..MaxResume
    BY <1>1, <2>1, CodexAssumption, MineFacts
  <2>4. g \in Files /\ g.nth = call[c].copy.nth + 1 /\ g.task = "open"
    BY <1>1, <2>3 DEF Files, Opened
  <2>5. FileFits(state', Of[c], g)
    BY <2>2, <2>4 DEF FileFits, Successor, Absent
  <2> QED
    BY <1>1, <2>1, <2>4, <2>5, GoLocal
<1> QED
  BY <1>2, <1>3, <1>4, <1>5, <1>6, <1>7, <1>8

-----------------------------------------------------------------------------
(* The invariant is inductive.                                             *)

(* It holds before any session did anything.                               *)
LEMMA InitCodexInv ==
    ASSUME Init
    PROVE  CodexInv
<1>1. /\ state = [i \in Intents |-> Absent] /\ content = [i \in Intents |-> NoContent]
      /\ version = [i \in Intents |-> 0]
      /\ file = [s \in Sessions |-> Bootstrapped] /\ call = [c \in Callers |-> Idle]
  BY DEF Init, LifecycleInit
<1>2. CodexTypeOK
  <2>1. NoContent \in SUBSET Scope /\ 0 \in 0..MaxVersion
    BY CodexAssumption
  <2>2. file \in [Sessions -> Files] /\ call \in [Callers -> CallType]
    BY <1>1, IdleFits
  <2> QED
    BY <1>1, <2>1, <2>2 DEF CodexTypeOK
<1>3. Succession(state)
  <2> SUFFICES ASSUME NEW s \in Sessions, NEW m \in 0..MaxResume, NEW n \in 0..MaxResume
               PROVE  state[<<s, n>>] = Absent
    BY DEF Succession
  <2> QED
    BY <1>1, CodexAssumption
<1>4. ContractInherited
  <2> SUFFICES ASSUME NEW s \in Sessions, NEW n \in 0..(MaxResume - 1)
               PROVE  state[<<s, n + 1>>] = Absent
    BY DEF ContractInherited
  <2>1. n + 1 \in 0..MaxResume
    BY CodexAssumption
  <2>2. <<s, n + 1>> \in Intents
    BY <2>1, CodexAssumption
  <2> QED
    BY <1>1, <2>2
<1>5. \A s \in Sessions : FileFits(state, s, file[s])
  BY <1>1, IdleFits
<1>6. \A c \in Callers :
        FileFits(state, Of[c], call[c].copy) /\ CallFits(state, content, Of[c], call[c])
  BY <1>1, IdleFits
<1> QED
  BY <1>2, <1>3, <1>4, <1>5, <1>6 DEF CodexInv

(* Every step of a call keeps it.                                          *)
LEMMA CallKeepsCodexInv ==
    ASSUME CodexInv, NEW c \in Callers, CallStep(c)
    PROVE  CodexInv'
<1>1. Stepped(c)
  BY Effects, EffectFacts
<1>2. /\ \A i \in Intents : Moved(i) /\ Appeared(c, i) /\ Rewritten(c, i)
      /\ \A i \in Intents : Moved(i)
      /\ \A i \in Intents : state[i] \in Dead => content'[i] = content[i]
  BY <1>1, DeadContentFinal DEF Stepped
<1>3. Following(c)
  BY <1>2 DEF Following
<1>4. Local(c)
  BY <1>3, SharedLocal, AdmitLocal, GuardLocal, AmendLocal, VerifyLocal, AbandonLocal,
     ResumeLocal DEF CallStep
<1>5. PICK k \in CallType :
        /\ call' = [call EXCEPT ![c] = k]
        /\ FileFits(state', Of[c], k.copy)
        /\ CallFits(state', content', Of[c], k)
  BY <1>4 DEF Local
<1>6. /\ CodexTypeOK /\ Of[c] \in Sessions /\ call[c].copy \in Files
      /\ file \in [Sessions -> Files] /\ call \in [Callers -> CallType]
      /\ FileFits(state', Of[c], call[c].copy)
  BY <1>3, MineFacts, StillFits, CallerFacts DEF CodexTypeOK
<1>7. file' \in [Sessions -> Files] /\ call' \in [Callers -> CallType]
  BY <1>4, <1>5, <1>6 DEF Local
<1>8. CodexTypeOK'
  BY <1>1, <1>7 DEF CodexTypeOK, Stepped, IntentStates
<1>9. Succession(state') /\ ContractInherited'
  BY <1>2, SuccessionStep, ContractStep
<1>10. \A s \in Sessions : FileFits(state', s, file'[s])
  <2> SUFFICES ASSUME NEW s \in Sessions
               PROVE  FileFits(state', s, file'[s])
    OBVIOUS
  <2>1. file[s] \in Files /\ FileFits(state, s, file[s])
    BY <1>6 DEF CodexInv
  <2>2. FileFits(state', s, file[s])
    BY <1>2, <1>6, <2>1, FileFitsStays
  <2>3. file'[s] = file[s] \/ (s = Of[c] /\ file'[s] = call[c].copy)
    BY <1>4, <1>6 DEF Local
  <2> QED
    BY <1>6, <2>2, <2>3
<1>11. \A d \in Callers :
         FileFits(state', Of[d], call'[d].copy) /\ CallFits(state', content', Of[d], call'[d])
  <2> SUFFICES ASSUME NEW d \in Callers
               PROVE  /\ FileFits(state', Of[d], call'[d].copy)
                      /\ CallFits(state', content', Of[d], call'[d])
    OBVIOUS
  <2>1. CASE d = c
    <3>1. call'[d] = k
      BY <1>5, <1>6, <2>1
    <3> QED
      BY <1>5, <2>1, <3>1
  <2>2. CASE d # c
    <3>1. call'[d] = call[d]
      BY <1>5, <1>6, <2>2
    <3>2. /\ Of[d] \in Sessions /\ call[d] \in CallType /\ call[d].copy \in Files
          /\ FileFits(state, Of[d], call[d].copy)
          /\ CallFits(state, content, Of[d], call[d])
      BY <1>6, MineFacts, CallerFacts
    <3>3. FileFits(state', Of[d], call[d].copy)
      BY <1>2, <1>6, <3>2, FileFitsStays
    <3>4. CallFits(state', content', Of[d], call[d])
      BY <1>2, <3>2, CallFitsStays
    <3> QED
      BY <3>1, <3>3, <3>4
  <2> QED
    BY <2>1, <2>2
<1> QED
  BY <1>8, <1>9, <1>10, <1>11 DEF CodexInv

(* So does a lease that runs out, and a fence.                             *)
LEMMA EnvironmentKeepsCodexInv ==
    ASSUME CodexInv, NEW i \in Intents, Expire(i) \/ Fence(i)
    PROVE  CodexInv'
<1>1. /\ CodexTypeOK
      /\ \/ state[i] \in Live /\ state' = [state EXCEPT ![i] = "EXPIRED"]
         \/ state[i] \in Trusting /\ state' = [state EXCEPT ![i] = "STALE"]
      /\ content' = content /\ version' = version /\ file' = file /\ call' = call
  BY EnvironmentFacts DEF CodexInv
<1>2. \A j \in Intents : Moved(j) /\ (state'[j] = Absent <=> state[j] = Absent)
  BY <1>1 DEF CodexTypeOK, Moved, Live, Trusting, Absent
<1>3. \A j \in Intents : state[j] \in Dead => state'[j] \in Dead
  BY <1>1 DEF CodexTypeOK, Live, Trusting, Dead
<1>4. CodexTypeOK'
  BY <1>1 DEF CodexTypeOK
<1>5. Succession(state')
  <2> SUFFICES ASSUME NEW s \in Sessions, NEW m \in 0..MaxResume, NEW n \in 0..MaxResume,
                      m < n, state'[<<s, n>>] # Absent
               PROVE  state'[<<s, m>>] \in Dead
    BY DEF Succession
  <2>1. <<s, m>> \in Intents /\ <<s, n>> \in Intents
    BY CodexAssumption
  <2>2. state[<<s, m>>] \in Dead
    BY <1>2, <2>1 DEF CodexInv, Succession
  <2> QED
    BY <1>3, <2>1, <2>2
<1>6. ContractInherited'
  <2> SUFFICES ASSUME NEW s \in Sessions, NEW n \in 0..(MaxResume - 1),
                      state'[<<s, n + 1>>] # Absent
               PROVE  content'[<<s, n>>] \subseteq content'[<<s, n + 1>>]
    BY DEF ContractInherited
  <2>1. n + 1 \in 0..MaxResume
    BY CodexAssumption
  <2>2. <<s, n + 1>> \in Intents
    BY <2>1, CodexAssumption
  <2> QED
    BY <1>1, <1>2, <2>2 DEF CodexInv, ContractInherited
<1>7. \A s \in Sessions : FileFits(state', s, file'[s])
  BY <1>1, <1>2, FileFitsStays DEF CodexInv, CodexTypeOK
<1>8. \A c \in Callers :
        FileFits(state', Of[c], call'[c].copy) /\ CallFits(state', content', Of[c], call'[c])
  <2> SUFFICES ASSUME NEW c \in Callers
               PROVE  /\ FileFits(state', Of[c], call[c].copy)
                      /\ CallFits(state', content', Of[c], call[c])
    BY <1>1
  <2>1. /\ Of[c] \in Sessions /\ call[c] \in CallType /\ call[c].copy \in Files
        /\ FileFits(state, Of[c], call[c].copy)
        /\ CallFits(state, content, Of[c], call[c])
    BY <1>1, MineFacts, CallerFacts
  <2>2. FileFits(state', Of[c], call[c].copy)
    BY <1>1, <1>2, <2>1, FileFitsStays
  <2>3. CallFits(state', content', Of[c], call[c])
    BY <1>1, <1>2, <2>1, CallFitsStays
  <2> QED
    BY <2>2, <2>3
<1> QED
  BY <1>4, <1>5, <1>6, <1>7, <1>8 DEF CodexInv

(* Together: CodexInv holds in every reachable state.                      *)
LEMMA CodexInvariant == Spec => []CodexInv
<1>1. Init => CodexInv
  BY InitCodexInv
<1>2. CodexInv /\ [Next]_vars => CodexInv'
  <2> SUFFICES ASSUME CodexInv, [Next]_vars
               PROVE  CodexInv'
    OBVIOUS
  <2>1. CASE \E c \in Callers : CallStep(c)
    BY <2>1, CallKeepsCodexInv
  <2>2. CASE \E i \in Intents : Expire(i) \/ Fence(i)
    BY <2>2, EnvironmentKeepsCodexInv
  <2>3. CASE UNCHANGED vars
    BY <2>3 DEF vars, CodexInv, CodexTypeOK, ContractInherited
  <2> QED
    BY <2>1, <2>2, <2>3 DEF Next
<1> QED
  BY <1>1, <1>2, PTL DEF Spec

-----------------------------------------------------------------------------
(* Sessions, calls and the registry's tables stay well-typed.              *)
THEOREM CodexTypeCorrect == Spec => []CodexTypeOK
<1>1. CodexInv => CodexTypeOK
  BY DEF CodexInv
<1> QED
  BY <1>1, CodexInvariant, PTL

(* Only one of a session's intents has authority, however many calls run,  *)
(* die and write back stale copies of the session.                         *)
THEOREM OneIntentHasAuthority == Spec => []OneIntentPerSession
<1>1. CodexInv => OneIntentPerSession
  <2> SUFFICES ASSUME CodexInv, NEW s \in Sessions, NEW m \in 0..MaxResume,
                      NEW n \in 0..MaxResume, m # n, state[<<s, m>>] \in Live
               PROVE  state[<<s, n>>] \notin Live
    BY DEF OneIntentPerSession
  <2>1. m < n \/ n < m
    BY CodexAssumption
  <2> QED
    BY <2>1 DEF CodexInv, Succession, Dead, Live, Absent
<1> QED
  BY <1>1, CodexInvariant, PTL

(* A session marked verified is bound to an intent that was completed.     *)
THEOREM VerifiedWorkWasCompleted == Spec => []VerifiedIsCompleted
<1>1. CodexInv => VerifiedIsCompleted
  BY DEF CodexInv, VerifiedIsCompleted, FileFits, Done, Intent
<1> QED
  BY <1>1, CodexInvariant, PTL

(* A session marked abandoned has no authority left.                       *)
THEOREM AbandonedSessionsAreFenced == Spec => []AbandonedHasNoAuthority
<1>1. CodexInv => AbandonedHasNoAuthority
  BY DEF CodexInv, AbandonedHasNoAuthority, FileFits, Done, Intent, Authorized, Live
<1> QED
  BY <1>1, CodexInvariant, PTL

(* A resumed session repeats the contract it had, with all it had grown to. *)
THEOREM ResumedContractIsInherited == Spec => []ContractInherited
<1>1. CodexInv => ContractInherited
  BY DEF CodexInv
<1> QED
  BY <1>1, CodexInvariant, PTL
=============================================================================
