-------------------------------- MODULE MCPair --------------------------------
(***************************************************************************)
(* Two intents, with the clock: rival writers of one file.                 *)
(***************************************************************************)
EXTENDS ArbitrationHistory, TLC

CONSTANTS first, second

File(ident, committed) ==
    [ kind |-> "file", ident |-> ident, region |-> NoRegion, signature |-> NoSignature,
      subject |-> NoSubject, access |-> "write", committed |-> committed, ambiguous |-> FALSE ]

Content(ops) == [ops |-> ops, base |-> "b1", deps |-> {}, amendment |-> FALSE, semantics |-> "ok"]

ax == <<"a", "x">>

MCIntents  == {first, second}
MCBases    == {"b1", "b2"}
MCPaths    == {ax}
MCLines    == {1}
MCRequests == [path : {ax}, region : {NoRegion}, modes : {{"write"}}]

(* Rival writers: one exact and one that may commit out of a contingent glob. *)
RivalPayloads ==
    first :> { Content({File(ax, TRUE)}) }
    @@ second :> { Content({File(ax, TRUE)}), Content({File(<<"a", "*">>, FALSE)}) }
=============================================================================
