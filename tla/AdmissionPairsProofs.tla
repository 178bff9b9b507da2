------------------------- MODULE AdmissionPairsProofs -------------------------
(***************************************************************************)
(* The evaluator's guarantees about a pair of contents, for every universe *)
(* of contents, requests, files and lines.                                 *)
(***************************************************************************)
EXTENDS AdmissionPairs, AdmissionProofs

(* What an evaluation or a promotion leaves for the properties to look at. *)
PairInv ==
    /\ existing \in Contents
    /\ incoming \in Contents
    /\ phase = "promoted" =>
          /\ request \in Requests
          /\ PromotionSelected(existing, request) # {}
          /\ incoming.ops = PromotedOps(existing, request)

LEMMA PairsTyped == Spec => []PairInv
<1>1. Init => PairInv
  BY UniverseAssumption DEF Init, PairInv
<1>2. PairInv /\ [Next]_vars => PairInv'
  <2> SUFFICES ASSUME PairInv, [Next]_vars PROVE PairInv'
    OBVIOUS
  <2>1. CASE UNCHANGED vars
    BY <2>1 DEF PairInv, vars
  <2>2. CASE Evaluate
    BY <2>2, UniverseAssumption DEF PairInv, Evaluate
  <2>3. CASE Promote
    <3>1. PICK m \in Requests :
             /\ PromotionSelected(existing, m) # {}
             /\ incoming' = [existing EXCEPT !.ops = PromotedOps(existing, m)]
             /\ request' = m
      BY <2>3 DEF Promote
    <3>2. m \in [path : Identifiers, region : Regions, modes : SUBSET AccessModes]
      BY UniverseAssumption
    <3>3. existing.ops \subseteq Operations
      BY DEF PairInv, Contents
    <3>4. PromotedOps(existing, m) \subseteq Operations
      BY <3>2, <3>3, PromotedOpsType
    <3>5. incoming' \in Contents /\ incoming'.ops = PromotedOps(existing, m)
      BY <3>1, <3>4 DEF PairInv, Contents
    <3> QED
      BY <2>3, <3>1, <3>5 DEF PairInv, Promote
  <2> QED
    BY <2>1, <2>2, <2>3 DEF Next
<1> QED
  BY <1>1, <1>2, PTL DEF Spec

(* Admitted intents hold no committed writes to one line, in any universe. *)
THEOREM AdmittedWritersSeparated == Spec => []WritersSeparated
<1>1. PairInv => WritersSeparated
  BY ClashBlocks, UniverseAssumption DEF PairInv, WritersSeparated, Admitted, Contents
<1> QED
  BY <1>1, PairsTyped, PTL

-----------------------------------------------------------------------------
(* Premises.                                                               *)

(* Two operations that cover one file overlap, disjoint regions or not.    *)
LEMMA CoverOverlap ==
    ASSUME NEW o, NEW e, NEW f, ~IsPattern(f),
           o.kind \in PathKinds, e.kind \in PathKinds,
           CoversPath(o.ident, f), CoversPath(e.ident, f)
    PROVE  ResourceOverlap(o, e) \in {"same", "disjoint"}
BY DEF ResourceOverlap, PathOverlap, CoversPath, GlobMatches

(* A read beside a write of the same file is blocked or a premise, from    *)
(* either side of the evaluation (AdmissionEngine._assess).                *)
LEMMA ReadWriteAssessed ==
    ASSUME NEW p, NEW q, NEW o, NEW e,
           ResourceOverlap(o, e) \in {"same", "disjoint"},
           o.kind \in PathKinds, e.kind \in PathKinds,
           Mutating(o) \/ Mutating(e), ~Mutating(o) \/ ~Mutating(e)
    PROVE  Assess(p, o, q, e) \in BlockingKinds \cup {"notify_on_change"}
<1>1. o.kind # "contract" /\ ResourceOverlap(o, e) # "none"
  BY DEF PathKinds
<1>2. CASE p.base # q.base \/ Destructive(o) \/ Destructive(e)
  <2>1. Assess(p, o, q, e) = "replan"
    BY <1>1, <1>2 DEF Assess
  <2> QED
    BY <2>1 DEF BlockingKinds
<1>3. CASE p.base = q.base /\ ~Destructive(o) /\ ~Destructive(e)
  <2>1. Assess(p, o, q, e) = "notify_on_change"
    BY <1>1, <1>3 DEF Assess
  <2> QED
    BY <2>1
<1> QED
  BY <1>2, <1>3

(* In every universe, admission leaves a premise on a reader of what the   *)
(* other side has committed to write.                                      *)
THEOREM AdmittedReadersTracked == Spec => []ReadersTracked
<1>1. PairInv => ReadersTracked
  <2> SUFFICES ASSUME PairInv, Admitted PROVE ReadersTracked
    BY DEF ReadersTracked
  <2>0. incoming.ops \subseteq Operations /\ existing.ops \subseteq Operations
    BY DEF PairInv, Contents
  <2>1. ASSUME NEW p, NEW e \in CommittedWrites(p), p.ops \subseteq Operations
        PROVE  e \in AdmissionOps(p) /\ Mutating(e)
    BY <2>1, ProjectedType DEF CommittedWrites, AdmissionOps
  <2>2. ASSUME NEW o \in AdmissionOps(incoming), NEW e \in CommittedWrites(existing), NEW f \in Paths,
               ~Mutating(o), CoversPath(o.ident, f), o.kind \in PathKinds,
               CoversPath(e.ident, f), e.kind \in PathKinds
        PROVE  IncomingPremises(incoming, existing) # {}
    <3>1. e \in AdmissionOps(existing) /\ Mutating(e)
      BY <2>0, <2>1
    <3>2. ResourceOverlap(o, e) \in {"same", "disjoint"}
      BY <2>2, CoverOverlap, UniverseAssumption
    <3>3. Assess(incoming, o, existing, e) \in BlockingKinds \cup {"notify_on_change"}
      BY <2>2, <3>1, <3>2, ReadWriteAssessed
    <3>4. Assess(incoming, o, existing, e) \notin BlockingKinds
      BY <3>1 DEF Admitted, Blocked
    <3> DEFINE pair == <<o, e>>
    <3>5. /\ pair \in AdmissionOps(incoming) \X AdmissionOps(existing)
          /\ pair[1] = o /\ pair[2] = e
          /\ Assess(incoming, pair[1], existing, pair[2]) \in PremiseKinds
      BY <3>1, <3>3, <3>4 DEF PremiseKinds
    <3> HIDE DEF pair
    <3>6. PremiseKey(pair[1]) \in IncomingPremises(incoming, existing)
      BY <2>2, <3>5 DEF IncomingPremises
    <3> QED
      BY <3>6
  <2>3. ASSUME NEW o \in CommittedWrites(incoming), NEW e \in AdmissionOps(existing), NEW f \in Paths,
               ~Mutating(e), CoversPath(e.ident, f), e.kind \in PathKinds,
               CoversPath(o.ident, f), o.kind \in PathKinds
        PROVE  ExistingPremises(incoming, existing) # {}
    <3>1. o \in AdmissionOps(incoming) /\ Mutating(o)
      BY <2>0, <2>1
    <3>2. ResourceOverlap(o, e) \in {"same", "disjoint"}
      BY <2>3, CoverOverlap, UniverseAssumption
    <3>3. Assess(incoming, o, existing, e) \in BlockingKinds \cup {"notify_on_change"}
      BY <2>3, <3>1, <3>2, ReadWriteAssessed
    <3>4. Assess(incoming, o, existing, e) \notin BlockingKinds
      BY <3>1 DEF Admitted, Blocked
    <3> DEFINE pair == <<o, e>>
    <3>5. /\ pair \in AdmissionOps(incoming) \X AdmissionOps(existing)
          /\ pair[1] = o /\ pair[2] = e
          /\ Assess(incoming, pair[1], existing, pair[2]) \in PremiseKinds
      BY <3>1, <3>3, <3>4 DEF PremiseKinds
    <3> HIDE DEF pair
    <3>6. PremiseKey(pair[2]) \in ExistingPremises(incoming, existing)
      BY <3>1, <3>5 DEF ExistingPremises
    <3> QED
      BY <3>6
  <2> QED
    BY <2>2, <2>3 DEF ReadersTracked
<1> QED
  BY <1>1, PairsTyped, PTL

-----------------------------------------------------------------------------
(* The order of arrival.                                                   *)

(* Operations that overlap are both about paths, contracts or semantics.   *)
LEMMA OverlapFamilies ==
    ASSUME NEW o \in Operations, NEW e \in Operations, ResourceOverlap(o, e) # "none"
    PROVE  /\ o.kind \in PathKinds <=> e.kind \in PathKinds
           /\ o.kind = "contract" <=> e.kind = "contract"
           /\ o.kind \notin PathKinds => o.ident = e.ident
BY DEF ResourceOverlap, SameContract, PathKinds, SemanticKinds

(* Without amendments, both arrival orders assess a pair alike.            *)
LEMMA AssessSymmetric ==
    ASSUME NEW p, NEW q, NEW o \in Operations, NEW e \in Operations,
           p.amendment = FALSE, q.amendment = FALSE,
           Assess(p, o, q, e) \in BlockingKinds
    PROVE  Assess(q, e, p, o) \in BlockingKinds
<1>1. /\ ResourceOverlap(o, e) # "none"
      /\ Mutating(o) \/ Mutating(e)
  BY DEF Assess, BlockingKinds
<1>2. ResourceOverlap(e, o) = ResourceOverlap(o, e)
  BY OverlapSymmetric
<1>3. /\ o.kind \in PathKinds <=> e.kind \in PathKinds
      /\ o.kind = "contract" <=> e.kind = "contract"
      /\ o.kind \notin PathKinds => o.ident = e.ident
  BY <1>1, OverlapFamilies
<1>4. CASE p.base # q.base \/ Destructive(o) \/ Destructive(e)
  BY <1>1, <1>2, <1>4 DEF Assess, BlockingKinds
<1>5. CASE p.base = q.base /\ ~Destructive(o) /\ ~Destructive(e) /\ o.kind = "contract"
  <2>1. AssessContract(p, o, e) \in BlockingKinds
    BY <1>1, <1>5 DEF Assess
  <2>2. SignatureMismatch(o, e) <=> SignatureMismatch(e, o)
    BY DEF SignatureMismatch
  <2>3. AssessContract(q, e, o) \in BlockingKinds
    BY <2>1, <2>2 DEF AssessContract, BlockingKinds
  <2> QED
    BY <1>1, <1>2, <1>3, <1>5, <2>3 DEF Assess
<1>6. CASE p.base = q.base /\ ~Destructive(o) /\ ~Destructive(e) /\ o.kind # "contract"
  <2>1. Mutating(o) /\ Mutating(e)
    BY <1>1, <1>6 DEF Assess, BlockingKinds
  <2>2. CASE o.kind \in PathKinds
    BY <1>1, <1>2, <1>3, <1>6, <2>1, <2>2 DEF Assess, BlockingKinds
  <2>3. CASE o.kind \notin PathKinds
    <3>1. AssessSemantic(p, o, q, e) \in BlockingKinds
      BY <1>1, <1>6, <2>1, <2>3 DEF Assess
    <3>2. SharedContract(p, q, o.ident) <=> SharedContract(q, p, e.ident)
      BY <1>3, <2>3 DEF SharedContract, SameContract
    <3>3. AssessSemantic(q, e, p, o) \in BlockingKinds
      BY <3>1, <3>2 DEF AssessSemantic, BlockingKinds
    <3> QED
      BY <1>1, <1>2, <1>3, <1>6, <2>1, <2>3, <3>3 DEF Assess
  <2> QED
    BY <2>2, <2>3
<1> QED
  BY <1>4, <1>5, <1>6

(* In every universe, which of two ordinary intents arrives first does not *)
(* decide whether they may run together.                                   *)
THEOREM ArrivalOrderIrrelevant == Spec => []OrderIndependent
<1>1. ASSUME NEW p, NEW q, p.ops \subseteq Operations, q.ops \subseteq Operations,
             p.amendment = FALSE, q.amendment = FALSE, Blocked(p, q)
      PROVE  Blocked(q, p)
  <2>1. PICK o \in AdmissionOps(p), e \in AdmissionOps(q) : Assess(p, o, q, e) \in BlockingKinds
    BY <1>1 DEF Blocked
  <2>2. o \in Operations /\ e \in Operations
    BY <1>1, AdmissionOpsType
  <2> QED
    BY <1>1, <2>1, <2>2, AssessSymmetric DEF Blocked
<1>2. PairInv => OrderIndependent
  BY <1>1 DEF PairInv, OrderIndependent, Contents
<1> QED
  BY <1>2, PairsTyped, PTL
-----------------------------------------------------------------------------
(* Contracts.                                                              *)

(* A consumer and a producer with two signatures of one contract are told  *)
(* to replan, from either side (AdmissionEngine._assess).                  *)
LEMMA StaleReadReplans ==
    ASSUME NEW p, NEW q, NEW o, NEW e, p.amendment = FALSE,
           SameContract(o, e), SignatureMismatch(o, e),
           Mutating(o) \/ Mutating(e), ~Mutating(o) \/ ~Mutating(e)
    PROVE  Assess(p, o, q, e) \in BlockingKinds
<1>1. ResourceOverlap(o, e) = "same"
  BY DEF ResourceOverlap, SameContract, PathKinds
<1>2. o.kind = "contract"
  BY DEF SameContract
<1>3. AssessContract(p, o, e) = "replan"
  BY DEF AssessContract
<1>4. Assess(p, o, q, e) = "replan"
  BY <1>1, <1>2, <1>3 DEF Assess
<1> QED
  BY <1>4 DEF BlockingKinds

(* Two writers of one concept that are not blocked share a contract on it. *)
LEMMA ConceptWritersShare ==
    ASSUME NEW p, NEW q, NEW x, NEW y, Mutating(x), Mutating(y),
           x.kind = "concept", y.kind = "concept", x.ident = y.ident,
           Assess(p, x, q, y) \notin BlockingKinds
    PROVE  SharedContract(p, q, x.ident)
<1>1. ResourceOverlap(x, y) = "same"
  BY DEF ResourceOverlap, SameContract, PathKinds, SemanticKinds
<1>2. x.kind # "contract" /\ x.kind \notin PathKinds
  BY DEF PathKinds
<1>3. /\ p.base = q.base
      /\ ~Destructive(x) /\ ~Destructive(y)
      /\ Assess(p, x, q, y) = AssessSemantic(p, x, q, y)
  BY <1>1, <1>2 DEF Assess, BlockingKinds
<1>4. AssessSemantic(p, x, q, y) # "requires_stub"
  BY <1>3 DEF BlockingKinds
<1> QED
  BY <1>4 DEF AssessSemantic

(* In every universe, an admitted consumer and its producer declare one    *)
(* signature, and two writers of one concept share a contract bound to it. *)
THEOREM AdmittedContractsAgree == Spec => []ContractsAgree
<1>1. PairInv => ContractsAgree
  <2> SUFFICES ASSUME PairInv, Admitted, ~incoming.amendment PROVE ContractsAgree
    BY DEF ContractsAgree
  <2>0. /\ incoming.ops \subseteq Operations /\ existing.ops \subseteq Operations
        /\ incoming.amendment = FALSE
    BY DEF PairInv, Contents
  <2>1. ASSUME NEW o \in AdmissionOps(incoming), NEW e \in AdmissionOps(existing)
        PROVE  Assess(incoming, o, existing, e) \notin BlockingKinds
    BY DEF Admitted, Blocked
  <2>2. ~StaleContractRead(incoming, existing)
    BY <2>0, <2>1, StaleReadReplans DEF StaleContractRead
  <2>3. ~StaleContractRead(existing, incoming)
    <3> SUFFICES ASSUME NEW o \in AdmissionOps(existing), NEW e \in AdmissionOps(incoming),
                        SameContract(o, e), ~Mutating(o), Mutating(e), SignatureMismatch(o, e)
                 PROVE  FALSE
      BY DEF StaleContractRead
    <3>1. SameContract(e, o) /\ SignatureMismatch(e, o)
      BY DEF SameContract, SignatureMismatch
    <3> QED
      BY <2>0, <2>1, <3>1, StaleReadReplans
  <2>4. ASSUME NEW x \in CommittedWrites(incoming), NEW y \in CommittedWrites(existing),
               x.kind = "concept", y.kind = "concept", x.ident = y.ident
        PROVE  \E a \in incoming.ops, b \in existing.ops :
                  /\ a.kind = "contract" /\ b.kind = "contract" /\ a.ident = b.ident
                  /\ a.subject = x.ident /\ b.subject = x.ident
                  /\ a.signature = b.signature /\ a.signature # NoSignature
    <3>1. /\ x \in AdmissionOps(incoming) /\ Mutating(x)
          /\ y \in AdmissionOps(existing) /\ Mutating(y)
      BY <2>0, ProjectedType DEF CommittedWrites, AdmissionOps
    <3>2. SharedContract(incoming, existing, x.ident)
      BY <2>1, <2>4, <3>1, ConceptWritersShare
    <3>3. PICK a \in AdmissionOps(incoming), b \in AdmissionOps(existing) :
             /\ SameContract(a, b) /\ a.subject = x.ident
             /\ a.signature # NoSignature /\ a.signature = b.signature
      BY <3>2 DEF SharedContract
    <3>4. PICK a0 \in incoming.ops : a = Projected(a0)
      BY DEF AdmissionOps
    <3>5. PICK b0 \in existing.ops : b = Projected(b0)
      BY DEF AdmissionOps
    <3>6. /\ a0.kind = a.kind /\ a0.ident = a.ident
          /\ a0.subject = a.subject /\ a0.signature = a.signature
      BY <2>0, <3>4, ProjectedKeeps
    <3>7. /\ b0.kind = b.kind /\ b0.ident = b.ident
          /\ b0.subject = b.subject /\ b0.signature = b.signature
      BY <2>0, <3>5, ProjectedKeeps
    <3> QED
      BY <3>3, <3>6, <3>7 DEF SameContract
  <2> QED
    BY <2>2, <2>3, <2>4 DEF ContractsAgree
<1> QED
  BY <1>1, PairsTyped, PTL

-----------------------------------------------------------------------------
(* Promotion.                                                              *)

(* The committed form of a selected declaration is a write of the file     *)
(* that was asked for (promote_contingent_operations).                     *)
LEMMA CommittedFormWrites ==
    ASSUME NEW p, p.ops \subseteq Operations, NEW m \in Requests,
           NEW o \in PromotionSelected(p, m)
    PROVE  /\ o \in p.ops /\ ~o.committed /\ o.kind \in PathKinds
           /\ CoversPath(o.ident, m.path) /\ RegionCovers(o.region, m.region)
           /\ CommittedForm(o, m).kind = o.kind
           /\ CommittedForm(o, m).ident = m.path
           /\ CommittedForm(o, m).region =
                 (IF m.region # NoRegion /\ o.region = NoRegion THEN m.region ELSE o.region)
           /\ CommittedForm(o, m).committed /\ Mutating(CommittedForm(o, m))
<1>1. o \in PromotionCandidates(p, m)
  BY DEF PromotionSelected
<1>2. /\ o \in p.ops /\ ~o.committed /\ o.access \in m.modes /\ o.kind \in PathKinds
      /\ CoversPath(o.ident, m.path) /\ RegionCovers(o.region, m.region)
  BY <1>1 DEF PromotionCandidates
<1>3. o \in Operations /\ o.access # "read"
  BY <1>2, UniverseAssumption
<1>4. /\ CommittedForm(o, m).kind = o.kind
      /\ CommittedForm(o, m).access = o.access
      /\ CommittedForm(o, m).committed = TRUE
      /\ CommittedForm(o, m).ident = (IF IsPattern(o.ident) THEN m.path ELSE o.ident)
      /\ CommittedForm(o, m).region =
            (IF m.region # NoRegion /\ o.region = NoRegion THEN m.region ELSE o.region)
  BY <1>3 DEF CommittedForm, Operations
<1> QED
  BY <1>2, <1>3, <1>4 DEF Mutating, CoversPath

(* In every universe, promotion makes the requested lines writable, and no *)
(* line outside the requested file and a contingent declaration.           *)
THEOREM PromotionWithinDeclaration == Spec => []PromotionStaysDeclared
<1>1. PairInv => PromotionStaysDeclared
  <2> SUFFICES ASSUME PairInv, phase = "promoted" PROVE PromotionStaysDeclared
    BY DEF PromotionStaysDeclared
  <2>0. /\ request \in Requests /\ ~IsPattern(request.path) /\ request.region \in Regions
        /\ existing.ops \subseteq Operations
        /\ PromotionSelected(existing, request) # {}
        /\ incoming.ops = PromotedOps(existing, request)
    BY UniverseAssumption DEF PairInv, Contents
  <2>1. ASSUME NEW n \in Lines,
               request.region = NoRegion \/ (request.region[1] <= n /\ n <= request.region[2])
        PROVE  MayWrite(incoming, request.path, n)
    <3>1. PICK o \in PromotionSelected(existing, request) : TRUE
      BY <2>0
    <3> DEFINE c == CommittedForm(o, request)
    <3>2. /\ o \in Operations /\ o.kind \in PathKinds /\ RegionCovers(o.region, request.region)
          /\ c.kind = o.kind /\ c.ident = request.path /\ c.committed /\ Mutating(c)
          /\ c.region = (IF request.region # NoRegion /\ o.region = NoRegion
                         THEN request.region ELSE o.region)
      BY <2>0, CommittedFormWrites
    <3>3. c \in CommittedWrites(incoming)
      BY <2>0, <3>2 DEF CommittedWrites, PromotedOps
    <3> HIDE DEF c
    <3>4. c.region # NoRegion => LineInterval(c.region)[1] <= n /\ n <= LineInterval(c.region)[2]
      <4>1. n \in Nat /\ o.region \in Regions
        BY <3>2, UniverseAssumption DEF Operations
      <4>2. CASE o.region = NoRegion
        BY <2>0, <2>1, <3>2, <4>1, <4>2 DEF LineInterval, Regions
      <4>3. CASE o.region # NoRegion
        <5>1. /\ request.region # NoRegion
              /\ ParsedRegion(o.region) # NoRegion
              /\ o.region[1] <= request.region[1] /\ request.region[2] <= o.region[2]
          BY <3>2, <4>3 DEF RegionCovers
        <5>2. c.region = o.region /\ o.region[1] <= o.region[2]
          BY <3>2, <4>3, <5>1 DEF ParsedRegion
        <5>3. o.region \in Nat \X Nat /\ request.region \in Nat \X Nat
          BY <2>0, <4>1, <4>3, <5>1 DEF Regions
        <5> QED
          BY <2>1, <4>1, <5>1, <5>2, <5>3 DEF LineInterval
      <4> QED
        BY <4>2, <4>3
    <3>5. Reaches(c, request.path, n)
      BY <2>0, <3>2, <3>4 DEF Reaches, CoversPath
    <3> QED
      BY <3>3, <3>5 DEF MayWrite
  <2>2. ASSUME NEW f \in Paths, NEW n \in Lines,
               MayWrite(incoming, f, n), ~MayWrite(existing, f, n)
        PROVE  /\ f = request.path
               /\ \E o \in existing.ops : ~o.committed /\ Reaches(o, f, n)
    <3>1. PICK c \in CommittedWrites(incoming) : Reaches(c, f, n)
      BY <2>2 DEF MayWrite
    <3>2. c \notin existing.ops
      BY <2>2, <3>1 DEF MayWrite, CommittedWrites
    <3>3. PICK o \in PromotionSelected(existing, request) : c = CommittedForm(o, request)
      BY <2>0, <3>2 DEF PromotedOps, CommittedWrites
    <3>4. /\ o \in existing.ops /\ ~o.committed /\ o.kind \in PathKinds
          /\ CoversPath(o.ident, request.path) /\ c.ident = request.path
          /\ o.region # NoRegion => c.region = o.region
      BY <2>0, <3>3, CommittedFormWrites
    <3>5. f = request.path
      BY <2>0, <3>1, <3>4 DEF Reaches, CoversPath
    <3>6. Reaches(o, f, n)
      BY <3>1, <3>4, <3>5 DEF Reaches
    <3> QED
      BY <3>4, <3>5, <3>6
  <2> QED
    BY <2>1, <2>2 DEF PromotionStaysDeclared
<1> QED
  BY <1>1, PairsTyped, PTL
=============================================================================
