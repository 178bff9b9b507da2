----------------------------- MODULE MCAdmission -----------------------------
(***************************************************************************)
(* A small universe of operations: every pair of contents of one family is *)
(* evaluated once, every contingent declaration promoted for every request. *)
(***************************************************************************)
EXTENDS AdmissionPairs, FiniteSets

MCPaths == { <<"a", "x">>, <<"a", "y">>, <<"b", "x">> }
Globs == { <<"a", "*">>, <<"", "*">> }
MCLines == 1..4

Op(kind, ident, region, signature, subject, access, committed) ==
    [ kind |-> kind, ident |-> ident, region |-> region, signature |-> signature,
      subject |-> subject, access |-> access, committed |-> committed, ambiguous |-> FALSE ]

FileOp(ident, region, access, committed) ==
    Op("file", ident, region, NoSignature, NoSubject, access, committed)

FileOps ==
    { FileOp(i, r, a, c) : i \in MCPaths, r \in {NoRegion, <<1, 2>>, <<4, 2>>, <<3, 4>>},
                           a \in {"read", "write", "delete"}, c \in BOOLEAN }
    \cup { FileOp(i, NoRegion, a, c) : i \in Globs, a \in {"read", "write"}, c \in BOOLEAN }

Concept  == <<"", "cart">>
Contract == <<"", "api">>

ContractOps ==
    { Op("contract", Contract, NoRegion, s, j, a, TRUE) :
        s \in {NoSignature, "s1", "s2"}, j \in {Concept, NoSubject}, a \in {"read", "write"} }
ConceptOps ==
    { Op("concept", Concept, NoRegion, NoSignature, NoSubject, a, TRUE) :
        a \in {"read", "write", "document"} }

SemanticOpSets ==
    { {o} : o \in ContractOps \cup ConceptOps }
    \cup { {x[1], x[2]} : x \in ContractOps \X ConceptOps }

Payload(ops, base, amendment) ==
    [ ops |-> ops, base |-> base, deps |-> {}, amendment |-> amendment, semantics |-> "ok" ]

FilePayloads     == { Payload({o}, b, FALSE) : o \in FileOps, b \in {"b1", "b2"} }
SemanticPayloads == { Payload(s, "b1", m) : s \in SemanticOpSets, m \in BOOLEAN }

(* Contingent declarations of one path: a glob, a whole file, two regions. *)
ContingentOps ==
    { FileOp(i, r, "write", FALSE) :
        i \in {<<"a", "x">>, <<"a", "*">>}, r \in {NoRegion, <<1, 2>>, <<1, 4>>, <<4, 2>>} }
MCContingent ==
    { Payload(s, "b1", FALSE) : s \in { t \in SUBSET ContingentOps : Cardinality(t) \in 1..3 } }
MCRequests ==
    [ path : MCPaths, region : {NoRegion, <<1, 1>>, <<2, 3>>}, modes : {{"write"}, {"delete"}} ]

MCFamilies == { FilePayloads, SemanticPayloads }
=============================================================================
