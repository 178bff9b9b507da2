------------------------------ MODULE MCRegistry ------------------------------
(***************************************************************************)
(* Three intents in a line: a producer of a contract, a consumer that      *)
(* writes a file, and a reader of that file.  Amended contents close the   *)
(* line to a cycle, change the contract's signature, or clash on a file.   *)
(***************************************************************************)
EXTENDS ArbitrationHistory, TLC

CONSTANTS producer, middle, reader

Op(kind, ident, signature, subject, access, committed) ==
    [ kind |-> kind, ident |-> ident, region |-> NoRegion, signature |-> signature,
      subject |-> subject, access |-> access, committed |-> committed, ambiguous |-> FALSE ]

File(ident, access)         == Op("file", ident, NoSignature, NoSubject, access, TRUE)
Contingent(ident)           == Op("file", ident, NoSignature, NoSubject, "write", FALSE)
Contract(signature, access) == Op("contract", <<"", "api">>, signature, <<"", "cart">>, access, TRUE)

Content(ops, deps) ==
    [ops |-> ops, base |-> "b1", deps |-> deps, amendment |-> FALSE, semantics |-> "ok"]

ax == <<"a", "x">>
ay == <<"a", "y">>
bx == <<"b", "x">>

MCIntents == {producer, middle, reader}
MCBases   == {"b1", "b2"}
MCPayloads ==
    producer :> { Content({Contract("s1", "write")}, {}),
                  Content({Contract("s2", "write"), File(bx, "read")}, {}) }
    @@ middle :> { Content({Contract("s1", "read"), File(ay, "write")}, {}),
                   Content({Contract("s2", "read"), Contingent(<<"a", "*">>)}, {}) }
    @@ reader :> { Content({File(ay, "read"), File(bx, "write")}, {}),
                   Content({File(ax, "write")}, {producer}) }
MCRequests == [path : {ax}, region : {NoRegion}, modes : {{"write"}}]
MCPaths    == {ax, ay, bx}
MCLines    == {1}

(* No lease runs out: MCLease is about the clock. *)
PremiseSpec == HistInit /\ [][(\E i \in Intents : IntentStep(i)) /\ Overlook]_histVars
=============================================================================
