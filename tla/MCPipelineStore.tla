-------------------------- MODULE MCPipelineStore ---------------------------
(***************************************************************************)
(* Small instances of the editor's reducers.  The saved pipelines have a   *)
(* group of two stages, two groups, and a name the user can type again.    *)
(***************************************************************************)
EXTENDS PipelineStore

CONSTANTS a, b, c, v, nil, blank, on, off, project, other, n1, n2, none

\* Strings, of no relation.
Strings == [f \in Field |-> "string"]
AnyText == [f \in Field |-> {v}]
NoRelated == [f \in Field |-> nil]
NoFields == [f \in Field |-> {}]
NoRelations == [f \in Field |-> <<>>]
NoDefault == [f \in Field |-> nil]

\* A cluster, a namespace and a service: b is related to a, and c to b; c asks
\* for the cluster too.
Chain == [f \in Field |-> CASE f = b -> a [] f = c -> b [] OTHER -> nil]
ChainReads == [f \in Field |-> IF f = c THEN {a} ELSE {}]
ChainNeeds == [f \in Field |-> CASE f = b -> {a} [] f = c -> {a, b} [] OTHER -> {}]

\* a is a switch, and b is shown while it is on.
SwitchAndText == [f \in Field |-> IF f = a THEN "boolean" ELSE "string"]
SwitchAndTextInput == [f \in Field |-> IF f = a THEN {on, off} ELSE {v, blank}]
BWhenA ==
  [f \in Field |->
     IF f = b THEN <<[action |-> "show", of |-> "any", pairs |-> {[name |-> a, value |-> on]}]>>
     ELSE <<>>]

\* a is a switch that is on by default, and b a repository: one of the platform,
\* and one that is not and whose secret is of another namespace.
SwitchAndRepository == [f \in Field |-> IF f = a THEN "boolean" ELSE "repository"]
Repository(kind, binding, secret) ==
  [repo |-> v, secret |-> secret, bindingRepository |-> binding, kind |-> kind]
Repositories ==
  {Repository("buildin", v, [namespace |-> project, name |-> v]),
   Repository("git", blank, [namespace |-> other, name |-> v]),
   Repository("git", blank, [namespace |-> blank, name |-> <<other, v>>])}
SwitchAndRepositoryInput == [f \in Field |-> IF f = a THEN {on, off} ELSE Repositories]
OnByDefault == [f \in Field |-> IF f = a THEN [json |-> on] ELSE nil]

Saved(flow, names) == [stages |-> flow, graphValues |-> [n \in names |-> noTexts]]

Fork == Saved(<<[name |-> n1, tasks |-> <<n1, n2>>]>>, {n1, n2})
Line == Saved(<<[name |-> n1, tasks |-> <<n1>>], [name |-> n2, tasks |-> <<n2>>]>>, {n1, n2})
OneStage == Saved(<<[name |-> none, tasks |-> <<n1>>]>>, {n1})

SavedPipelines == {Fork, Line, OneStage}
OnePipeline == {OneStage}
=============================================================================
