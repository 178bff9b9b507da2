-------------------------- MODULE ArbitrationHistory --------------------------
(***************************************************************************)
(* What arbitration promises although a transaction reads the clock twice: *)
(* _expire_intents_locked first, _active_intents_locked later.  An intent  *)
(* whose lease ends between the two reads is neither swept nor compared,   *)
(* so the content let in by that transaction stands beside it unseen.  A   *)
(* history variable remembers these intents; it never guards a step.       *)
(***************************************************************************)
EXTENDS IntentRegistry

VARIABLE overlooked   \* intents not seen by a later arbitration than their own

histVars == <<vars, overlooked>>

(* The intents whose content this step lets in against the others. *)
LetThrough ==
    { i \in Intents : st'[i] \in Live /\ (st[i] \notin Live \/ cv'[i] # cv[i]) }

(* The live intents whose lease ends inside the step that lets one in. *)
EndedInside ==
    { j \in Intents \ LetThrough :
        LetThrough # {} /\ st[j] \in Live /\ lease[j] > 0 /\ lease'[j] = 0 }

(* An intent that passes arbitration itself has been compared again. *)
Overlook == overlooked' = (overlooked \ LetThrough) \cup EndedInside

HistInit == Init /\ overlooked = {}
HistNext == Next /\ Overlook
HistSpec == HistInit /\ [][HistNext]_histVars

(* A blocked owner keeps retrying and time passes. *)
RetryBlocked(i) == st[i] = "BLOCKED" /\ AdmitIntent(i, pl[i])

LiveSpec ==
    /\ HistSpec
    /\ WF_vars(Tick)
    /\ \A i \in Intents : WF_vars(RetryBlocked(i))

-----------------------------------------------------------------------------
(* Two intents that hold authority at the same time never may write the    *)
(* same line of the same file, whichever of admission, re-admission,       *)
(* amendment, promotion or refresh gave each of them its present contents, *)
(* unless the lease of one ended inside a transaction that let another in. *)
LiveWritersSeparated ==
    \A i, j \in Intents :
        i # j /\ st[i] \in Live /\ st[j] \in Live /\ {i, j} \cap overlooked = {}
            => ~WriteClash(pl[i], pl[j], Paths, Lines)

(* Whatever a live intent reads of what another live one may write, an     *)
(* active edge says so, whichever of the two came or changed last: without *)
(* it _invalidate_dependents_locked could not find the reader.             *)
PremisesRecorded ==
    \A i, j \in Intents :
        i # j /\ st[i] \in Live /\ st[j] \in Live /\ {i, j} \cap overlooked = {} =>
            \A o \in AdmissionOps(pl[j]), e \in AdmissionOps(pl[i]) :
                ~Mutating(o) /\ Mutating(e) /\ ResourceOverlap(o, e) # "none" =>
                    [intent |-> j, on |-> i, key |-> PremiseKey(o), status |-> "active"]
                        \in dependency

(* A live producer that changes a contract's signature takes every live    *)
(* consumer of the old one that its arbitration sees out of the live set   *)
(* in the same transaction.                                                *)
(* Only signatures are compared (_operation_resource_key), so a producer   *)
(* that merely comes to write a contract it read before announces nothing: *)
(* the consumer must have agreed with all its declarations, reads too.     *)
ContractChangeStales ==
    [][\A i, j \in Intents :
         /\ i # j
         /\ st[i] \in Live /\ st'[i] \in Live
         /\ st[j] \in Live /\ st'[j] \in Live
         /\ {i, j} \cap overlooked' = {}
         /\ ReadsAgree(pl[j], pl[i])
         => ~StaleContractRead(pl'[j], pl'[i])]_histVars

(* A live reader of what a live producer has announced to write does not   *)
(* stay live on that premise when the producer's content no longer names   *)
(* it: amend_intent invalidates the dependents of every changed resource.  *)
(* Neither side was overlooked when they were last compared.               *)
(* A reader by a glob is recorded under the glob and is not covered.       *)
ChangedPremiseStales ==
    [][\A i, j \in Intents :
         /\ i # j
         /\ st[i] \in Live /\ st'[i] \in Live
         /\ st[j] \in Live /\ st'[j] \in Live
         /\ {i, j} \cap overlooked = {}
         /\ pl'[j] = pl[j]
         => \A o \in AdmissionOps(pl[j]), e \in CommittedWrites(pl[i]) :
              /\ ~Mutating(o)
              /\ ResourceOverlap(o, e) # "none"
              /\ PremiseKey(o) = PremiseKey(e)
              => \E x \in pl'[i].ops : ResourceMarker(x) = ResourceMarker(e)]_histVars
=============================================================================
