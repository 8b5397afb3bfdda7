---------------------------- MODULE RuleAdminMC ----------------------------
(***************************************************************************)
(* One agent, one named pack, which the pack config has too, two requests  *)
(* of two clients.                                                         *)
(***************************************************************************)
EXTENDS RuleAdmin

CONSTANTS ann, one, two

MCAgentPack == [a \in Agent |-> "agent::ann"]
MCRank == "agent::ann" :> 1 @@ "default" :> 2 @@ "office" :> 3 @@ "yard" :> 4
MCFileText == {<<>>, <<"r1">>, <<"bad">>}
MCPushText == {<<"r2">>}
MCConfigText == "office" :> <<"r3">>
Swapped == Permutations(Client)
MCConfigBound == {}
MCAskedText == "office" :> {<<"r2">>} @@ "yard" :> {<<>>, <<"bad">>}
MCAskedBound == {<<ann, "office">>, <<ann, "agent::ann">>}

=============================================================================
