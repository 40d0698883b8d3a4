-------------------------- MODULE MCPipelineEditor --------------------------
(***************************************************************************)
(* Small instances of the editor: a field with options, and one it is      *)
(* related to.                                                             *)
(***************************************************************************)
EXTENDS PipelineEditor

CONSTANTS a, b, v, nil, blank, on, off, project, n1, none

Strings == [f \in Field |-> "string"]
AnyText == [f \in Field |-> {v}]
BByA == [f \in Field |-> IF f = b THEN a ELSE nil]
NoFields == [f \in Field |-> {}]
BNeedsA == [f \in Field |-> IF f = b THEN {a} ELSE {}]
NoRelations == [f \in Field |-> <<>>]
NoDefault == [f \in Field |-> nil]
OneStage ==
  {[stages |-> <<[name |-> none, tasks |-> <<n1>>]>>, graphValues |-> [n \in {n1} |-> noTexts]]}
=============================================================================
