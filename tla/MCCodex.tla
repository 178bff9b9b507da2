-------------------------------- MODULE MCCodex --------------------------------
(***************************************************************************)
(* A session with its agent and its operator, and a second session in the  *)
(* same worktree.                                                          *)
(***************************************************************************)
EXTENDS CodexSessions, TLC

CONSTANTS left, right, agent, operator, rival, extra

MCSessions == {left, right}
MCIntents  == MCSessions \X (0..MaxResume)
NoScope    == {}

MCCallers == {agent, operator, rival}
MCOf      == agent :> left @@ operator :> left @@ rival :> right
MCMay     == agent :> {"admit", "amend", "guard", "verify"}
             @@ operator :> {"abandon", "resume", "touch"}
             @@ rival :> {"admit"}
=============================================================================
