----------------------------- MODULE AtomicLoad -----------------------------
(***************************************************************************)
(* What load_skill promises: every call is answered from one state the     *)
(* skill files had between its request and its answer.  There is no cache  *)
(* here; SkillLoader, which has one, implements this specification.        *)
(***************************************************************************)
EXTENDS LoadOutcome

CONSTANTS
  Call,      \* concurrent tool calls
  NoRequest, \* the call is not being served
  NoResult   \* the call has no answer yet

VARIABLES
  disk,     \* [Path -> Document]
  request,  \* [Call -> Request or NoRequest]
  result    \* [Call -> answer or NoResult]

vars == <<disk, request, result>>

Init ==
  /\ disk \in [Path -> Document]
  /\ request = [c \in Call |-> NoRequest]
  /\ result = [c \in Call |-> NoResult]

Ask(c) ==
  /\ request[c] = NoRequest
  /\ \E n \in Request : request' = [request EXCEPT ![c] = n]
  /\ UNCHANGED <<disk, result>>

\* The instant whose files the answer is about.
Answer(c) ==
  /\ request[c] # NoRequest
  /\ result[c] = NoResult
  /\ \E r \in IF ResolutionErrors(request[c]) # {}
                THEN ResolutionErrors(request[c])
                ELSE {Outcome(f, disk[f]) : f \in lookup(request[c])} :
       result' = [result EXCEPT ![c] = r]
  /\ UNCHANGED <<disk, request>>

Reply(c) ==
  /\ result[c] # NoResult
  /\ request' = [request EXCEPT ![c] = NoRequest]
  /\ result' = [result EXCEPT ![c] = NoResult]
  /\ UNCHANGED disk

Edit ==
  /\ \E f \in Path, doc \in Document : disk' = [disk EXCEPT ![f] = doc]
  /\ UNCHANGED <<request, result>>

Next == Edit \/ \E c \in Call : Ask(c) \/ Answer(c) \/ Reply(c)

Spec == Init /\ [][Next]_vars
=============================================================================
