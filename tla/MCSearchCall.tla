---------------------------- MODULE MCSearchCall ----------------------------
(* A small catalog for TLC: `docker-builder` in two places with different   *)
(* tags, the same document of `docker` in two places, and a skill whose     *)
(* description alone speaks of docker.                                      *)
EXTENDS SearchCall, TLC

\* The raw tokens of a query: "Docker-builder", "docker", "Docker", "x".
MCRaw == {"Docker-builder", "builder", "docker", "Docker", "x"}
MCParts == [r \in MCRaw |-> IF r = "Docker-builder" THEN {"Docker", "builder"} ELSE {}]
MCShort == {"x"}
MCToken == {"docker-builder", "builder", "docker", "x"}
MCLower == [r \in MCRaw |-> CASE r = "Docker-builder" -> "docker-builder"
                              [] r = "Docker" -> "docker"
                              [] OTHER -> r]

MCText == {"docker-builder", "builder", "docker", "image", "none", "zebra"}
MCHolds ==
  {<<"docker-builder", "docker-builder">>, <<"docker", "docker-builder">>,
   <<"builder", "docker-builder">>, <<"docker", "docker">>, <<"builder", "builder">>}
MCIs == {<<"docker-builder", "docker-builder">>, <<"docker", "docker">>,
         <<"builder", "builder">>}
MCOrder == [t \in MCText |-> CASE t = "builder" -> 1 [] t = "docker" -> 2
                               [] t = "docker-builder" -> 3 [] t = "image" -> 4
                               [] t = "none" -> 5 [] t = "zebra" -> 6]

Skill(name, description, tags, source, path) ==
  [ name |-> name, description |-> description, tags |-> tags,
    source |-> source, path |-> path ]

MCEntry ==
  { Skill("docker-builder", "none", <<"builder">>, "codex", "root1"),
    Skill("docker-builder", "docker", <<>>, "claude", "root2"),
    Skill("image", "docker", <<"docker">>, "codex", "root3"),
    Skill("image", "docker", <<>>, "claude", "root4"),
    Skill("image", "docker", <<"docker">>, "shared_agent", "root5"),
    Skill("none", "docker-builder", <<>>, "codex", "root6"),
    Skill("zebra", "docker", <<"docker", "builder">>, "codex", "root7"),
    Skill("zebra", "none", <<>>, "claude", "root8") }
=============================================================================
