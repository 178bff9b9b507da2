---------------------------- MODULE IntentLifecycle ----------------------------
(***************************************************************************)
(* What the registry promises about one intent: the states it passes       *)
(* through and the versions of its contents, whatever arbitration decides. *)
(* IntentRegistry implements it (state <- st, content <- pl,               *)
(* version <- cv); the connectors are modelled over it.                    *)
(*                                                                         *)
(* Every operation that arbitrates first expires a set E of intents whose  *)
(* leases ran out; when leases run out is left open here.                  *)
(***************************************************************************)
EXTENDS Naturals

CONSTANTS
    Intents,     \* intent identifiers
    NoContent    \* the content of an identifier the registry does not know

Live     == {"ADMITTED", "ACTIVE"}
Trusting == Live \cup {"COMPLETED"}
Absent   == "absent"

VARIABLES
    state,       \* intents.state
    content,     \* intents.payload_json
    version      \* intents.content_version

lifecycle == <<state, content, version>>

LifecycleInit ==
    /\ state = [i \in Intents |-> Absent]
    /\ content = [i \in Intents |-> NoContent]
    /\ version = [i \in Intents |-> 0]

Holders == { i \in Intents : state[i] \in Live }

After(E) == [i \in Intents |-> IF i \in E THEN "EXPIRED" ELSE state[i]]

Fenced(states, D) == [i \in Intents |-> IF i \in D THEN "STALE" ELSE states[i]]

Replace(i, c) ==
    /\ content' = [content EXCEPT ![i] = c]
    /\ version' = [version EXCEPT ![i] = @ + 1]

-----------------------------------------------------------------------------
(* Only the leases that ran out are settled; the answer may be a refusal or *)
(* a recorded decision.                                                     *)
Settle(E) == state' = After(E) /\ UNCHANGED <<content, version>>

Admit(E, i, verdict, c) ==
    /\ state[i] \in {Absent, "BLOCKED"}
    /\ state[i] = "BLOCKED" => c = content[i]
    /\ state' = [After(E) EXCEPT ![i] = verdict]
    /\ content' = [content EXCEPT ![i] = c]
    /\ version' = [version EXCEPT ![i] = IF state[i] = Absent THEN 1 ELSE @]

(* D: the dependents whose premise the new content takes away. *)
Amend(E, i, D, c) ==
    /\ i \notin D
    /\ After(E)[i] \in Live \cup {"STALE", "BLOCKED"}
    /\ \A d \in D : After(E)[d] \in Trusting
    /\ state' = Fenced([After(E) EXCEPT ![i] = IF @ = "STALE" THEN @ ELSE "ADMITTED"], D)
    /\ Replace(i, c)

Promote(E, i, c) ==
    /\ After(E)[i] \in Live
    /\ state' = After(E)
    /\ Replace(i, c)

Refresh(E, i, c) ==
    /\ state[i] = "STALE"
    /\ state' = [After(E) EXCEPT ![i] = "ADMITTED"]
    /\ Replace(i, c)

Invalidate(D) ==
    /\ \A d \in D : state[d] \in Trusting
    /\ state' = Fenced(state, D)
    /\ UNCHANGED <<content, version>>

Move(i, from, to) ==
    /\ state[i] \in from
    /\ state' = [state EXCEPT ![i] = to]
    /\ UNCHANGED <<content, version>>

Activate(i) == Move(i, Live, "ACTIVE")

Complete(i) == Move(i, Live, "COMPLETED")

Release(i) == Move(i, Live \cup {"BLOCKED", "EXPIRED", "STALE"}, "RELEASED")

LifecycleNext ==
    \/ \E E \in SUBSET Holders :
         \/ Settle(E)
         \/ \E i \in Intents :
              \/ \E verdict \in {"ADMITTED", "BLOCKED"} : Admit(E, i, verdict, content'[i])
              \/ \E D \in SUBSET Intents : Amend(E, i, D, content'[i])
              \/ Promote(E, i, content'[i])
              \/ Refresh(E, i, content'[i])
    \/ \E D \in SUBSET Intents : Invalidate(D)
    \/ \E i \in Intents : Activate(i) \/ Complete(i) \/ Release(i)

LifecycleSpec == LifecycleInit /\ [][LifecycleNext]_lifecycle
=============================================================================
