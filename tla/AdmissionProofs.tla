--------------------------- MODULE AdmissionProofs ---------------------------
(***************************************************************************)
(* What the evaluator guarantees for all intents: the operators keep their *)
(* types, and two intents that may write one line of one file block each   *)
(* other.                                                                  *)
(***************************************************************************)
EXTENDS Admission, TLAPS

(* Projecting a contingent mutation to a read (admission_operations) yields *)
(* an operation again, and leaves a committed one alone.                    *)
LEMMA ProjectedType ==
    ASSUME NEW o \in Operations
    PROVE  /\ Projected(o) \in Operations
           /\ o.committed => Projected(o) = o
<1>1. [o EXCEPT !.access = "read"] \in Operations
  BY DEF Operations, AccessModes
<1> QED
  BY <1>1 DEF Projected

(* Every operation the evaluator sees of well-formed contents is well-formed. *)
LEMMA AdmissionOpsType ==
    ASSUME NEW p, p.ops \subseteq Operations
    PROVE  AdmissionOps(p) \subseteq Operations
BY ProjectedType DEF AdmissionOps

(* A premise is recorded under a resource identifier (dependency rows). *)
LEMMA PremiseKeyType ==
    ASSUME NEW o \in Operations
    PROVE  PremiseKey(o) \in Identifiers
BY DEF PremiseKey, Operations

(* The keys of both kinds of premise edges are resource identifiers. *)
LEMMA PremisesType ==
    ASSUME NEW p, NEW q, p.ops \subseteq Operations, q.ops \subseteq Operations
    PROVE  /\ IncomingPremises(p, q) \subseteq Identifiers
           /\ ExistingPremises(p, q) \subseteq Identifiers
BY AdmissionOpsType, PremiseKeyType DEF IncomingPremises, ExistingPremises

(* What changed between two contents is a set of resource identifiers. *)
LEMMA ChangedKeysType ==
    ASSUME NEW p, NEW q, p.ops \subseteq Operations, q.ops \subseteq Operations
    PROVE  ChangedKeys(p, q) \subseteq Identifiers
BY PremiseKeyType DEF ChangedKeys

(* Promotion (promote_contingent_operations) yields well-formed operations. *)
LEMMA PromotedOpsType ==
    ASSUME NEW p, p.ops \subseteq Operations,
           NEW m \in [path : Identifiers, region : Regions, modes : SUBSET AccessModes]
    PROVE  PromotedOps(p, m) \subseteq Operations
<1>1. PromotionSelected(p, m) \subseteq Operations
  BY DEF PromotionSelected, PromotionCandidates
<1>2. ASSUME NEW o \in Operations PROVE CommittedForm(o, m) \in Operations
  BY DEF CommittedForm, Operations
<1> QED
  BY <1>1, <1>2 DEF PromotedOps

-----------------------------------------------------------------------------
(* Two operations that reach one line of one file overlap, and not as      *)
(* disjoint regions: _path_overlap misses no common line, whatever mix of  *)
(* exact paths, globs and regions declares it.                             *)
LEMMA ReachesOverlap ==
    ASSUME NEW o \in Operations, NEW e \in Operations,
           NEW path, NEW n \in Nat,
           Reaches(o, path, n), Reaches(e, path, n)
    PROVE  ResourceOverlap(o, e) = "same"
<1>1. /\ o.kind \in PathKinds /\ e.kind \in PathKinds
      /\ ~IsPattern(path)
      /\ CoversPath(o.ident, path) /\ CoversPath(e.ident, path)
  BY DEF Reaches
<1>2. ~DisjointRegions(o.region, e.region)
  <2>1. o.region \in Regions /\ e.region \in Regions
    BY DEF Operations
  <2> SUFFICES ASSUME o.region # NoRegion, e.region # NoRegion
               PROVE  ~DisjointRegions(o.region, e.region)
    BY DEF DisjointRegions
  <2>2. /\ LineInterval(o.region)[1] <= n /\ n <= LineInterval(o.region)[2]
        /\ LineInterval(e.region)[1] <= n /\ n <= LineInterval(e.region)[2]
    BY DEF Reaches
  <2>3. LineInterval(o.region) \in Nat \X Nat /\ LineInterval(e.region) \in Nat \X Nat
    BY <2>1 DEF LineInterval, Regions
  <2> QED
    BY <2>2, <2>3 DEF DisjointRegions
<1>3. PathOverlap(o, e) = "same"
  BY <1>1, <1>2 DEF PathOverlap, CoversPath, GlobMatches
<1> QED
  BY <1>1, <1>3 DEF ResourceOverlap

(* Two intents that may write one line block each other's admission: every *)
(* branch of _assess on two committed writes that overlap is a blocking one. *)
THEOREM ClashBlocks ==
    ASSUME NEW p, NEW q, NEW paths, NEW lines \in SUBSET Nat,
           p.ops \subseteq Operations, q.ops \subseteq Operations,
           WriteClash(p, q, paths, lines)
    PROVE  Blocked(p, q)
<1>1. PICK path \in paths, n \in lines : MayWrite(p, path, n) /\ MayWrite(q, path, n)
  BY DEF WriteClash
<1>2. PICK o \in CommittedWrites(p) : Reaches(o, path, n)
  BY <1>1 DEF MayWrite
<1>3. PICK e \in CommittedWrites(q) : Reaches(e, path, n)
  BY <1>1 DEF MayWrite
<1>4. /\ o \in Operations /\ o \in p.ops /\ o.committed /\ Mutating(o)
      /\ e \in Operations /\ e \in q.ops /\ e.committed /\ Mutating(e)
  BY DEF CommittedWrites
<1>5. o \in AdmissionOps(p) /\ e \in AdmissionOps(q)
  BY <1>4, ProjectedType DEF AdmissionOps
<1>6. ResourceOverlap(o, e) = "same"
  BY <1>2, <1>3, <1>4, ReachesOverlap
<1>7. o.kind \in PathKinds
  BY <1>2 DEF Reaches
<1>8. Assess(p, o, q, e) \in BlockingKinds
  BY <1>4, <1>6, <1>7 DEF Assess, AssessPath, BlockingKinds, PathKinds
<1> QED
  BY <1>5, <1>8 DEF Blocked

(* A write clash has no direction. *)
LEMMA ClashSymmetric ==
    ASSUME NEW p, NEW q, NEW paths, NEW lines, WriteClash(p, q, paths, lines)
    PROVE  WriteClash(q, p, paths, lines)
BY DEF WriteClash

-----------------------------------------------------------------------------
(* Readers and writers.                                                    *)

(* Overlap has no direction. *)
LEMMA OverlapSymmetric ==
    ASSUME NEW o \in Operations, NEW e \in Operations
    PROVE  ResourceOverlap(o, e) = ResourceOverlap(e, o)
<1>1. DisjointRegions(o.region, e.region) <=> DisjointRegions(e.region, o.region)
  BY DEF DisjointRegions
<1>2. PathOverlap(o, e) = PathOverlap(e, o)
  BY <1>1 DEF PathOverlap
<1>3. SameContract(o, e) <=> SameContract(e, o)
  BY DEF SameContract
<1> QED
  BY <1>2, <1>3 DEF ResourceOverlap

(* Projection (admission_operations) changes nothing of an operation but   *)
(* its access.                                                             *)
LEMMA ProjectedKeeps ==
    ASSUME NEW o \in Operations
    PROVE  /\ Projected(o).kind = o.kind /\ Projected(o).ident = o.ident
           /\ Projected(o).subject = o.subject /\ Projected(o).signature = o.signature
BY DEF Projected, Operations

(* A reader and a writer of overlapping resources that do not block each   *)
(* other are in a premise: _assess has no third answer for them.           *)
LEMMA ReadWritePremise ==
    ASSUME NEW p, NEW q, NEW o, NEW e,
           ResourceOverlap(o, e) # "none",
           Mutating(o) \/ Mutating(e), ~Mutating(o) \/ ~Mutating(e)
    PROVE  Assess(p, o, q, e) \in BlockingKinds \cup PremiseKinds
BY DEF Assess, AssessContract, BlockingKinds, PremiseKinds

(* When two contents do not block each other, what the arriving p reads of *)
(* q's writes is one of its premises, and what q reads of p's writes is a  *)
(* premise of q: _dependency_candidates has a key for every such pair.     *)
LEMMA UnblockedPremises ==
    ASSUME NEW p, NEW q, p.ops \subseteq Operations, q.ops \subseteq Operations,
           ~Blocked(p, q),
           NEW o \in AdmissionOps(p), NEW e \in AdmissionOps(q),
           ResourceOverlap(o, e) # "none" \/ ResourceOverlap(e, o) # "none"
    PROVE  /\ ~Mutating(o) /\ Mutating(e) => PremiseKey(o) \in IncomingPremises(p, q)
           /\ Mutating(o) /\ ~Mutating(e) => PremiseKey(e) \in ExistingPremises(p, q)
<1>1. ResourceOverlap(o, e) # "none"
  BY OverlapSymmetric, AdmissionOpsType
<1>2. Assess(p, o, q, e) \notin BlockingKinds
  BY DEF Blocked
<1>3. <<o, e>> \in AdmissionOps(p) \X AdmissionOps(q) /\ <<o, e>>[1] = o /\ <<o, e>>[2] = e
  OBVIOUS
<1>4. ASSUME Mutating(o) \/ Mutating(e), ~Mutating(o) \/ ~Mutating(e)
      PROVE  Assess(p, o, q, e) \in PremiseKinds
  BY <1>1, <1>2, <1>4, ReadWritePremise
<1>5. ASSUME ~Mutating(o), Mutating(e)
      PROVE  PremiseKey(o) \in IncomingPremises(p, q)
  BY <1>3, <1>4, <1>5 DEF IncomingPremises
<1>6. ASSUME Mutating(o), ~Mutating(e)
      PROVE  PremiseKey(e) \in ExistingPremises(p, q)
  BY <1>3, <1>4, <1>6 DEF ExistingPremises
<1> QED
  BY <1>5, <1>6

(* A consumer that arrives with a signature other than the live producer's *)
(* is blocked, amended or not: only a producer's amendment may differ.     *)
LEMMA StaleReaderBlocked ==
    ASSUME NEW p, NEW q, StaleContractRead(p, q)
    PROVE  Blocked(p, q)
<1>1. PICK o \in AdmissionOps(p), e \in AdmissionOps(q) :
         SameContract(o, e) /\ ~Mutating(o) /\ Mutating(e) /\ SignatureMismatch(o, e)
  BY DEF StaleContractRead
<1>2. ResourceOverlap(o, e) = "same" /\ o.kind = "contract"
  BY <1>1 DEF ResourceOverlap, SameContract, PathKinds
<1>3. Assess(p, o, q, e) \in BlockingKinds
  BY <1>1, <1>2 DEF Assess, AssessContract, BlockingKinds
<1> QED
  BY <1>3 DEF Blocked

(* Promotion commits files: whatever the promoted content declares of a    *)
(* contract, the recorded one declared.                                    *)
LEMMA PromotionKeepsContracts ==
    ASSUME NEW p, p.ops \subseteq Operations,
           NEW m \in [path : Identifiers, region : Regions, modes : SUBSET AccessModes],
           NEW x \in PromotedOps(p, m), x.kind \notin PathKinds
    PROVE  x \in p.ops
<1>1. ASSUME NEW o \in PromotionSelected(p, m) PROVE CommittedForm(o, m).kind \in PathKinds
  <2>1. o \in Operations /\ o.kind \in PathKinds
    BY DEF PromotionSelected, PromotionCandidates
  <2> QED
    BY <2>1 DEF CommittedForm, Operations
<1> QED
  BY <1>1 DEF PromotedOps

(* Promotion takes no committed operation away. *)
LEMMA PromotionKeepsCommitted ==
    ASSUME NEW p, NEW m, NEW o \in p.ops, o.committed
    PROVE  o \in PromotedOps(p, m)
<1>1. o \notin PromotionSelected(p, m)
  BY DEF PromotionSelected, PromotionCandidates
<1> QED
  BY <1>1 DEF PromotedOps

(* A resource that only one of two contents names is a changed one. *)
LEMMA ChangedKeyFound ==
    ASSUME NEW old, NEW new
    PROVE  /\ \A e \in old.ops : (\A x \in new.ops : ResourceMarker(x) # ResourceMarker(e))
                                 => PremiseKey(e) \in ChangedKeys(old, new)
           /\ \A e \in new.ops : (\A x \in old.ops : ResourceMarker(x) # ResourceMarker(e))
                                 => PremiseKey(e) \in ChangedKeys(old, new)
BY DEF ChangedKeys
=============================================================================
