------------------------------ MODULE Gate6Build ------------------------------
(***************************************************************************)
(* How the Gate 6 runners build the binary they measure: both read the Go  *)
(* files of the working tree once before and once after `go build`, refuse *)
(* files that differ from HEAD, and refuse when the two readings differ    *)
(* (build_input_metadata and its uses in main).  The state of one build is *)
(* a record; the modules of the runners hold it and let anybody edit and   *)
(* commit files meanwhile.                                                 *)
(*                                                                         *)
(* A version of the Go files is the number of edits since the first        *)
(* reading: an edit never brings an earlier content back.  Files that are  *)
(* changed and restored while the compiler reads them escape both readings. *)
(***************************************************************************)
EXTENDS Naturals

CONSTANTS
  MaxEdits,  \* bound on the edits during one build
  Unread     \* not read, not built

ASSUME BuildAssumption == MaxEdits \in Nat /\ Unread \notin Nat

Build == [ tree : 0 .. MaxEdits,  \* the version of the Go files
           clean : BOOLEAN,       \* they are those of HEAD
           source : {Unread} \cup 0 .. MaxEdits,   \* build_source
           binary : {Unread} \cup 0 .. MaxEdits ]  \* what was compiled

NewBuild == [tree |-> 0, clean |-> TRUE, source |-> Unread, binary |-> Unread]

Edits(b) ==
  (IF b.tree < MaxEdits THEN {[b EXCEPT !.tree = @ + 1, !.clean = FALSE]} ELSE {})
  \cup {[b EXCEPT !.clean = TRUE]}

\* build_input_metadata refuses files that are not those of HEAD.
Recorded(b) == IF b.clean THEN {[b EXCEPT !.source = b.tree]} ELSE {}

Compiled(b) == {[b EXCEPT !.binary = b.tree]}

\* Mutant: the second reading only looks at whether the files are clean.
Verified_CleanOnly(b) == IF b.clean THEN {b} ELSE {}

\* The second reading must be as the first.
Verified(b) == IF b.clean /\ b.tree = b.source THEN {b} ELSE {}

\* The binary is of the source the environment names.
BinaryIsOfSource(b) == b.source # Unread /\ b.binary = b.source
=============================================================================
