------------------------------ MODULE Admission ------------------------------
(***************************************************************************)
(* The deterministic admission evaluator of coordination/admission.py and  *)
(* the contingent-scope promotion of core/registry.py, as operators on     *)
(* change intents.  Nothing here has state: the registry calls the         *)
(* evaluator inside its transactions, as IntentRegistry does.              *)
(*                                                                         *)
(* A resource identifier is a pair <<directory, name>>; the name "*" makes *)
(* it a glob.  Directories are one level deep, so two non-empty glob       *)
(* prefixes are comparable exactly when the directories are equal.  The    *)
(* root directory "" is the empty prefix.  A semantic identity (concept,   *)
(* contract, symbol, ...) is a pair <<"", name>>, already normalised.      *)
(***************************************************************************)
EXTENDS Integers

PathKinds     == {"file", "document"}
SemanticKinds == {"symbol", "concept", "config", "route", "schema"}
ResourceKinds == PathKinds \cup SemanticKinds \cup {"contract"}
AccessModes   == {"read", "write", "extend", "delete", "rename", "document", "test"}

NoRegion    == <<>>   \* region is None: the whole file
NoSignature == ""     \* signature is None
NoSubject   == <<>>   \* the contract is bound to no concept

Identifiers == STRING \X STRING
Regions     == {NoRegion} \cup (Nat \X Nat)

Operations == [ kind      : ResourceKinds,
                ident     : Identifiers,
                region    : Regions,
                signature : STRING,
                subject   : Identifiers \cup {NoSubject},
                access    : AccessModes,
                committed : BOOLEAN,
                ambiguous : BOOLEAN ]

Mutating(o)    == o.access # "read"
Destructive(o) == o.access \in {"delete", "rename"}
IsPattern(r)   == r[2] = "*"

(* ChangeIntent.admission_operations: a contingent mutation is projected to a read. *)
Projected(o) ==
    IF o.committed \/ ~Mutating(o) THEN o ELSE [o EXCEPT !.access = "read"]

AdmissionOps(p) == { Projected(o) : o \in p.ops }

-----------------------------------------------------------------------------
(* Resource overlap.                                                       *)

(* parse_line_region: a reversed interval is put in order. *)
LineInterval(region) ==
    IF region[1] <= region[2] THEN region ELSE <<region[2], region[1]>>

(* Variant: the interval is compared as written. *)
DisjointRegionsAsWritten(a, b) ==
    a # NoRegion /\ b # NoRegion /\ (a[2] < b[1] \/ b[2] < a[1])

(* _regions_overlap is False only when both regions are bounded and apart. *)
DisjointRegions(a, b) ==
    /\ a # NoRegion
    /\ b # NoRegion
    /\ \/ LineInterval(a)[2] < LineInterval(b)[1]
       \/ LineInterval(b)[2] < LineInterval(a)[1]

(* fnmatchcase(path, glob): "*" also matches "/", so the root glob matches all. *)
GlobMatches(glob, path) == glob[1] = "" \/ glob[1] = path[1]

PathOverlap(a, b) ==
    LET aGlob == IsPattern(a.ident)
        bGlob == IsPattern(b.ident)
        meet  == \/ ~aGlob /\ ~bGlob /\ a.ident = b.ident
                 \/ aGlob /\ ~bGlob /\ GlobMatches(a.ident, b.ident)
                 \/ bGlob /\ ~aGlob /\ GlobMatches(b.ident, a.ident)
                 \/ /\ aGlob /\ bGlob
                    /\ "" \in {a.ident[1], b.ident[1]} \/ a.ident[1] = b.ident[1]
    IN  IF ~meet THEN "none"
        ELSE IF ~aGlob /\ ~bGlob /\ DisjointRegions(a.region, b.region)
             THEN "disjoint"
             ELSE "same"

SameContract(a, b) ==
    /\ a.kind = "contract" /\ b.kind = "contract"
    /\ a.ident = b.ident
    /\ a.subject # NoSubject
    /\ a.subject = b.subject

ResourceOverlap(a, b) ==
    IF a.kind \in PathKinds /\ b.kind \in PathKinds
    THEN PathOverlap(a, b)
    ELSE IF \/ SameContract(a, b)
            \/ /\ a.kind \in SemanticKinds /\ b.kind \in SemanticKinds
               /\ a.ident = b.ident
         THEN "same"
         ELSE "none"

-----------------------------------------------------------------------------
(* Pair assessment.  Contracts of one intent are assumed to carry one      *)
(* signature per identity and concept (the code keeps the last).           *)

(* Variant: any contract the two intents share will do. *)
SharedContractUnbound(p, q, concept) ==
    \E a \in AdmissionOps(p), b \in AdmissionOps(q) :
        /\ a.kind = "contract" /\ b.kind = "contract" /\ a.ident = b.ident
        /\ a.signature # NoSignature /\ a.signature = b.signature

SharedContract(p, q, concept) ==
    \E a \in AdmissionOps(p), b \in AdmissionOps(q) :
        /\ SameContract(a, b)
        /\ a.subject = concept
        /\ a.signature # NoSignature
        /\ a.signature = b.signature

SignatureMismatch(o, e) ==
    /\ o.signature # NoSignature
    /\ e.signature # NoSignature
    /\ o.signature # e.signature

(* Variant: an arriving consumer is trusted with any signature. *)
AssessContractTrustingConsumer(p, o, e) ==
    IF ~Mutating(o) THEN "contract_dependency"
    ELSE IF SignatureMismatch(o, e) /\ ~p.amendment THEN "replan"
    ELSE IF ~Mutating(e) THEN "contract_dependency" ELSE "parallel_with_constraint"

(* o is the incoming operation of intent p, e the existing one. *)
AssessContract(p, o, e) ==
    IF ~Mutating(o) \/ ~Mutating(e)
    THEN IF SignatureMismatch(o, e) /\ ~(Mutating(o) /\ p.amendment)
         THEN "replan"
         ELSE "contract_dependency"
    ELSE IF SignatureMismatch(o, e)
         THEN "replan"
         ELSE IF o.signature # NoSignature /\ e.signature # NoSignature
              THEN "parallel_with_constraint"
              ELSE "requires_stub"

AssessPath(overlap) ==
    IF overlap = "disjoint" THEN "parallel_with_constraint" ELSE "serialize"

AssessSemantic(p, o, q, e) ==
    IF \/ {o.access, e.access} \cap {"document", "test"} # {}
       \/ "concept" \in {o.kind, e.kind}
    THEN IF SharedContract(p, q, o.ident) THEN "compatible_overlap" ELSE "requires_stub"
    ELSE "serialize"

Assess(p, o, q, e) ==
    LET overlap == ResourceOverlap(o, e) IN
    IF overlap = "none" \/ (~Mutating(o) /\ ~Mutating(e)) THEN "none"
    ELSE IF p.base # q.base THEN "replan"
    ELSE IF Destructive(o) \/ Destructive(e) THEN "replan"
    ELSE IF o.kind = "contract" THEN AssessContract(p, o, e)
    ELSE IF ~Mutating(o) \/ ~Mutating(e) THEN "notify_on_change"
    ELSE IF o.kind \in PathKinds THEN AssessPath(overlap)
    ELSE AssessSemantic(p, o, q, e)

BlockingKinds == {"replan", "requires_stub", "serialize"}
(* Variant: file reads leave no premise. *)
ContractPremiseKinds == {"contract_dependency"}
PremiseKinds  == {"notify_on_change", "contract_dependency"}

(* Intent p, arriving, is blocked by the live intent q. *)
Blocked(p, q) ==
    \E o \in AdmissionOps(p), e \in AdmissionOps(q) : Assess(p, o, q, e) \in BlockingKinds

(* The rejections that do not depend on other work. *)
Unresolved(p) ==
    \/ \E o \in AdmissionOps(p) : Mutating(o) /\ o.ambiguous
    \/ p.semantics = "unavailable"

-----------------------------------------------------------------------------
(* Premises and changed resources.                                         *)

PremiseKey(o) == IF o.subject # NoSubject THEN o.subject ELSE o.ident

(* Keys under which the incoming p comes to depend on the live q ... *)
IncomingPremises(p, q) ==
    { PremiseKey(oe[1]) : oe \in { x \in AdmissionOps(p) \X AdmissionOps(q) :
        /\ Assess(p, x[1], q, x[2]) \in PremiseKinds
        /\ ~Mutating(x[1]) } }

(* ... and under which the live q comes to depend on the incoming p. *)
ExistingPremises(p, q) ==
    { PremiseKey(oe[2]) : oe \in { x \in AdmissionOps(p) \X AdmissionOps(q) :
        /\ Assess(p, x[1], q, x[2]) \in PremiseKinds
        /\ Mutating(x[1]) } }

(* Variant: the signature does not count. *)
ResourceMarkerUnsigned(o) ==
    <<o.kind, o.ident,
      IF o.kind \in PathKinds THEN o.region ELSE NoRegion,
      IF o.kind = "contract" THEN o.subject ELSE NoSubject, NoSignature>>

(* _operation_resource_key *)
ResourceMarker(o) ==
    <<o.kind, o.ident,
      IF o.kind \in PathKinds THEN o.region ELSE NoRegion,
      IF o.kind = "contract" THEN o.subject ELSE NoSubject,
      IF o.kind \in PathKinds THEN NoSignature ELSE o.signature>>

(* Variant: only what the new content adds has changed. *)
ChangedKeysAdded(old, new) ==
    { PremiseKey(o) : o \in { x \in new.ops :
        ResourceMarker(x) \notin { ResourceMarker(y) : y \in old.ops } } }

(* _changed_resource_keys: the compact keys of the markers only one side has. *)
ChangedKeys(old, new) ==
    LET oldMarkers == { ResourceMarker(o) : o \in old.ops }
        newMarkers == { ResourceMarker(o) : o \in new.ops }
    IN  { PremiseKey(o) : o \in { x \in old.ops : ResourceMarker(x) \notin newMarkers } }
        \cup
        { PremiseKey(o) : o \in { x \in new.ops : ResourceMarker(x) \notin oldMarkers } }

-----------------------------------------------------------------------------
(* Promotion of contingent operations for one concrete mutation            *)
(* [path, region, modes].  The registry's own parser accepts only an       *)
(* ordered, positive interval.                                             *)

ParsedRegion(region) ==
    IF region # NoRegion /\ region[1] > 0 /\ region[1] <= region[2] THEN region ELSE NoRegion

(* Variant: a whole-file mutation consumes a bounded declaration. *)
RegionCoversWhole(declared, requested) ==
    \/ requested = NoRegion
    \/ declared = NoRegion
    \/ declared[1] <= requested[1] /\ requested[2] <= declared[2]

RegionCovers(declared, requested) ==
    IF requested = NoRegion THEN declared = NoRegion
    ELSE \/ declared = NoRegion
         \/ /\ ParsedRegion(declared) # NoRegion
            /\ declared[1] <= requested[1] /\ requested[2] <= declared[2]

CoversPath(ident, path) == IF IsPattern(ident) THEN GlobMatches(ident, path) ELSE ident = path

PromotionCandidates(p, m) ==
    { o \in p.ops : /\ ~o.committed
                    /\ o.access \in m.modes
                    /\ o.kind \in PathKinds
                    /\ CoversPath(o.ident, m.path)
                    /\ RegionCovers(o.region, m.region) }

RegionSpan(o) == o.region[2] - o.region[1]

(* The narrowest bounded declarations, else the exact ones, else the globs. *)
PromotionSelected(p, m) ==
    LET candidates == PromotionCandidates(p, m)
        bounded    == { o \in candidates : o.region # NoRegion }
        exact      == { o \in candidates : ~IsPattern(o.ident) }
    IN  IF m.region # NoRegion /\ bounded # {}
        THEN { o \in bounded : \A b \in bounded : RegionSpan(o) <= RegionSpan(b) }
        ELSE IF exact # {} THEN exact ELSE candidates

(* A glob, or a whole-file declaration asked for a region, stays contingent. *)
KeptContingent(o, m) == IsPattern(o.ident) \/ (m.region # NoRegion /\ o.region = NoRegion)

CommittedForm(o, m) ==
    [o EXCEPT !.committed = TRUE,
              !.ident  = IF IsPattern(o.ident) THEN m.path ELSE @,
              !.region = IF m.region # NoRegion /\ @ = NoRegion THEN m.region ELSE @]

PromotedOps(p, m) ==
    LET selected == PromotionSelected(p, m)
    IN  { o \in p.ops : o \in selected => KeptContingent(o, m) }
        \cup { CommittedForm(o, m) : o \in selected }

-----------------------------------------------------------------------------
(* Reference notions, stated without the evaluator: the lines of the files *)
(* an operation reaches, and when two intents may write the same line.     *)

Reaches(o, path, n) ==
    /\ o.kind \in PathKinds
    /\ ~IsPattern(path)
    /\ CoversPath(o.ident, path)
    /\ o.region # NoRegion => /\ LineInterval(o.region)[1] <= n
                              /\ n <= LineInterval(o.region)[2]

CommittedWrites(p) == { o \in p.ops : o.committed /\ Mutating(o) }

MayWrite(p, path, n) == \E o \in CommittedWrites(p) : Reaches(o, path, n)

WriteClash(p, q, paths, lines) ==
    \E path \in paths, n \in lines : MayWrite(p, path, n) /\ MayWrite(q, path, n)

(* A consumer of p and a producer in q disagree on a contract's signature. *)
StaleContractRead(p, q) ==
    \E o \in AdmissionOps(p), e \in AdmissionOps(q) :
        /\ SameContract(o, e)
        /\ ~Mutating(o) /\ Mutating(e)
        /\ SignatureMismatch(o, e)

(* A contract p reads has no other signature anywhere in q, whether q      *)
(* writes it, reads it or has it contingently.                             *)
ReadsAgree(p, q) ==
    \A o \in AdmissionOps(p), e \in AdmissionOps(q) :
        SameContract(o, e) /\ ~Mutating(o) => ~SignatureMismatch(o, e)
=============================================================================
