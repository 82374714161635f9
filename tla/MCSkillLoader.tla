--------------------------- MODULE MCSkillLoader ---------------------------
(* A small instance of SkillLoader for TLC: a skill and one of a plugin    *)
(* whose name is the skill's under a namespace.                            *)
EXTENDS SkillLoader, TLC

CONSTANTS skillMd, pluginMd, plain, plugin, unknown, v1, v2, other

\* `demo` matches both entries, `plugin:demo` one, `unknown` none.
Entries == skillMd :> plain @@ pluginMd :> plugin
Suffixes == {<<plain, plugin>>}

\* Two versions of the plugin's skill and a document with another name.
Names == v1 :> plugin @@ v2 :> plugin @@ other :> plain

\* A checksum is written as a sequence to keep it apart from the content.
Digest == [c \in Content |-> <<c>>]
Digests == {<<c>> : c \in Content}

Calls == Permutations(Call)
============================================================================
