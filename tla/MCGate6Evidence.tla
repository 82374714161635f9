-------------------------- MODULE MCGate6Evidence --------------------------
(* A small life of an evidence directory for TLC: three tasks, three        *)
(* versions of the fixture, of which `revised` asks another query of one    *)
(* task and lacks another, and a second machine whose redaction rules       *)
(* change one of the streams, and make the answer in another unreadable.    *)
EXTENDS Gate6Evidence, TLC

CONSTANTS t1, t2, t3, f1, f2, revised, secret, masked, broken, leaky, here, there

MCQueryOf ==
  [f \in Fixture |-> [t \in Id |->
    CASE f = revised /\ t = t1 -> "new"
      [] f = revised /\ t = t3 -> None
      [] OTHER -> "old"]]
MCUsable == Stream \ {broken}
MCSanitize ==
  [s \in Site |-> [e \in Stream |->
    CASE s = there /\ e = secret -> masked
      [] s = there /\ e = leaky -> broken
      [] OTHER -> e]]
MCSelections == {<<t2>>, <<t3>>, <<t1, t2>>}

Versions == Permutations({f1, f2}) \cup Permutations(Catalog)
============================================================================
