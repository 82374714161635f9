------------------------ MODULE MCCatalogSnapshot ------------------------
(* Small instances of CatalogSnapshot for TLC. *)
EXTENDS CatalogSnapshot, TLC

CONSTANTS first, second, broken   \* contents: two named, of one length, and one invalid

\* All the paths are in the one root every process is configured with.
OneRoot == [f \in Path |-> CHOOSE r \in Root : TRUE]
SameRoots == [p \in Proc |-> Root]

NamedContents == Content \ {broken}
Sizes == [c \in Content |-> IF c = broken THEN 0 ELSE 1]

\* Two processes with the same roots are interchangeable, and so are two files
\* in the same root.
Processes == Permutations(Proc)
Paths == Permutations(Path)
==========================================================================
