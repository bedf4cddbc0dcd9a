---------------------------- MODULE MCBuildEvent ----------------------------
(***************************************************************************)
(* An instance of BuildEvent for TLC: two messages with a score and one    *)
(* without.                                                                *)
(***************************************************************************)
EXTENDS BuildEvent, TLC

MCSeverities == {-1, 0, 2}
MCScoreOf == ("" :> 0) @@ ("Total Score: 5" :> 5) @@ ("Total Score: 8" :> 8)
=============================================================================
