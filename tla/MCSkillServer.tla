---------------------------- MODULE MCSkillServer ----------------------------
(* A small instance of SkillServer for TLC: two places, a skill in two      *)
(* versions and one of a plugin whose name is the skill's in a namespace.   *)
EXTENDS SkillServer, TLC

CONSTANTS codex, claude, v1, v2, ns

MCPathOrder == codex :> 1 @@ claude :> 2
MCSources == codex :> "codex" @@ claude :> "claude"

\* "demo" in two versions, the second without its tag, and "plugin:demo".
MCNames == v1 :> "demo" @@ v2 :> "demo" @@ ns :> "plugin:demo"
MCDescriptions == v1 :> "plain" @@ v2 :> "demo" @@ ns :> "plain"
MCTags == v1 :> <<"plain">> @@ v2 :> <<>> @@ ns :> <<"plain">>
MCSuffixes == {<<"demo", "plugin:demo">>}

MCText == {"demo", "plugin:demo", "plain"}
MCRaw == {"demo", "plain"}
MCLower == [r \in MCRaw |-> r]
MCParts == [r \in MCRaw |-> {}]
MCHolds == {<<"demo", "demo">>, <<"demo", "plugin:demo">>, <<"plain", "plain">>}
MCIs == {<<"demo", "demo">>, <<"plain", "plain">>}
MCOrder == "demo" :> 1 @@ "plain" :> 2 @@ "plugin:demo" :> 3

MCQuery == {{"demo"}, {"plain"}}
=============================================================================
