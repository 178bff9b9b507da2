---------------------------- MODULE AdmissionPairs ----------------------------
(***************************************************************************)
(* The evaluator at work on one pair: a live intent and an arriving one    *)
(* are evaluated, or a contingent declaration is promoted for a request.   *)
(* The properties compare what the evaluator answers with the reference    *)
(* notions of Admission; they are about every universe of contents.        *)
(***************************************************************************)
EXTENDS Admission

CONSTANTS
    Families,    \* sets of contents that are put beside each other
    Contingent,  \* contents whose contingent declarations are promoted
    Requests,    \* the mutations a promotion is asked for
    Paths,       \* the files over which the properties are stated
    Lines        \* their lines

Contents ==
    [ ops : SUBSET Operations, base : STRING, deps : SUBSET STRING,
      amendment : BOOLEAN, semantics : {"ok", "unavailable"} ]

ASSUME UniverseAssumption ==
    /\ Families \subseteq SUBSET Contents
    /\ Contingent \subseteq Contents
    /\ Requests \subseteq [ path : Identifiers, region : Regions, modes : SUBSET (AccessModes \ {"read"}) ]
    /\ \A m \in Requests : ~IsPattern(m.path)
    /\ \A f \in Paths : ~IsPattern(f)
    /\ Lines \subseteq Nat

VARIABLES existing,   \* the live intent's payload
          incoming,   \* the payload under evaluation
          request,    \* the mutation a promotion is asked for
          phase

vars == <<existing, incoming, request, phase>>

NoRequest == [path |-> <<"", "">>, region |-> NoRegion, modes |-> {}]

Init ==
    /\ existing \in Contingent \cup UNION Families
    /\ incoming = existing
    /\ request = NoRequest
    /\ phase = "idle"

Evaluate ==
    /\ phase = "idle"
    /\ \E F \in Families : existing \in F /\ incoming' \in F
    /\ phase' = "evaluated"
    /\ UNCHANGED <<existing, request>>

Promote ==
    /\ phase = "idle"
    /\ existing \in Contingent
    /\ \E m \in Requests :
        /\ PromotionSelected(existing, m) # {}
        /\ incoming' = [existing EXCEPT !.ops = PromotedOps(existing, m)]
        /\ request' = m
    /\ phase' = "promoted"
    /\ UNCHANGED existing

Next == Evaluate \/ Promote

Spec == Init /\ [][Next]_vars

-----------------------------------------------------------------------------
Admitted == phase = "evaluated" /\ ~Blocked(incoming, existing)

(* Two admitted intents never hold a committed write to one line of one file,   *)
(* whatever mix of exact paths, globs and regions (also reversed ones) declares *)
(* it: AdmissionEngine._assess over _path_overlap and _regions_overlap.         *)
WritersSeparated ==
    Admitted => ~WriteClash(incoming, existing, Paths, Lines)

(* If one side may read, committed or contingent, what the other has committed  *)
(* to write, admission leaves a premise on the reader: the invalidation of      *)
(* dependents has an edge to follow.                                            *)
ReadersTracked ==
    Admitted =>
        /\ (\E o \in AdmissionOps(incoming), e \in CommittedWrites(existing), f \in Paths :
              /\ ~Mutating(o) /\ CoversPath(o.ident, f) /\ o.kind \in PathKinds
              /\ CoversPath(e.ident, f) /\ e.kind \in PathKinds)
           => IncomingPremises(incoming, existing) # {}
        /\ (\E o \in CommittedWrites(incoming), e \in AdmissionOps(existing), f \in Paths :
              /\ ~Mutating(e) /\ CoversPath(e.ident, f) /\ e.kind \in PathKinds
              /\ CoversPath(o.ident, f) /\ o.kind \in PathKinds)
           => ExistingPremises(incoming, existing) # {}

(* Which of two ordinary intents arrives first does not decide whether they may *)
(* run together; only an amending producer is treated differently.              *)
OrderIndependent ==
    phase = "evaluated" /\ ~incoming.amendment /\ ~existing.amendment
        => (Blocked(incoming, existing) <=> Blocked(existing, incoming))

(* Without an amendment in play, an admitted consumer and its producer declare  *)
(* one signature of the contract, and two writers of one concept share a        *)
(* contract bound to that concept.                                              *)
ContractsAgree ==
    Admitted /\ ~incoming.amendment =>
        /\ ~StaleContractRead(incoming, existing)
        /\ ~StaleContractRead(existing, incoming)
        /\ \A x \in CommittedWrites(incoming), y \in CommittedWrites(existing) :
              x.kind = "concept" /\ y.kind = "concept" /\ x.ident = y.ident
              => \E a \in incoming.ops, b \in existing.ops :
                    /\ a.kind = "contract" /\ b.kind = "contract" /\ a.ident = b.ident
                    /\ a.subject = x.ident /\ b.subject = x.ident
                    /\ a.signature = b.signature /\ a.signature # NoSignature

(* Promotion commits exactly what was asked for out of what was declared: the   *)
(* requested lines become writable, and a line that becomes writable lies in    *)
(* the requested file and was reached by a contingent declaration.              *)
PromotionStaysDeclared ==
    phase = "promoted" =>
        /\ \A n \in Lines :
              (request.region = NoRegion \/ (request.region[1] <= n /\ n <= request.region[2]))
                 => MayWrite(incoming, request.path, n)
        /\ \A f \in Paths, n \in Lines :
              MayWrite(incoming, f, n) /\ ~MayWrite(existing, f, n)
                 => /\ f = request.path
                    /\ \E o \in existing.ops : ~o.committed /\ Reaches(o, f, n)
=============================================================================
