-------------------------- MODULE PipelineDiagram ---------------------------
(***************************************************************************)
(* What the visual pipeline editor promises: a flow of groups, run one     *)
(* after the other, each a list of at least one stage, and a cursor on the *)
(* place the user clicked last.  There are no dictionaries, no lists of    *)
(* ids and no cascades here: what is put in appears at the cursor, a stage *)
(* that goes is gone, and a group without stages does not exist.           *)
(***************************************************************************)
EXTENDS Integers, SequencesExt

CONSTANTS
  Names,      \* the names of stages
  NoName      \* the name of a stage that has just been put in

VARIABLES
  flow,       \* the groups in their order, each a sequence of stages
  nameOf,     \* stage |-> its name
  seen,       \* the stages there have ever been
  cursor      \* <<what, where>>: a gap or group by its place, a stage by itself

vars == <<flow, nameOf, seen, cursor>>

Nowhere == <<"", 0>>

InFlow(groups) == UNION {ToSet(groups[i]) : i \in DOMAIN groups}

Init ==
  /\ flow = <<>>
  /\ nameOf = <<>>
  /\ seen = {}
  /\ cursor = Nowhere

\* A saved flow is shown in an empty editor.
Load ==
  /\ flow = <<>> /\ cursor = Nowhere
  /\ \A i \in DOMAIN flow' : flow'[i] # <<>>
  /\ DOMAIN nameOf' = InFlow(flow')
  /\ seen \subseteq seen' /\ InFlow(flow') \subseteq seen' \ seen
  /\ UNCHANGED cursor

Click ==
  /\ \/ cursor' = Nowhere
     \/ \E i \in 0 .. Len(flow) : cursor' = <<"after", i>>
     \/ \E i \in DOMAIN flow : cursor' \in {<<"parallel", i>>, <<"of", i>>}
     \/ \E s \in InFlow(flow) : cursor' = <<"stage", s>>
  /\ UNCHANGED <<flow, nameOf, seen>>

\* A stage, never seen before, becomes a group of its own in the gap.
AddGroup(s) ==
  /\ cursor[1] = "after"
  /\ flow' = InsertAt(flow, cursor[2] + 1, <<s>>)

\* Or it becomes the last stage of the group.
AddToGroup(s) ==
  /\ cursor[1] = "of"
  /\ flow' = [flow EXCEPT ![cursor[2]] = Append(@, s)]

Add ==
  \E s \in seen' \ seen :
    /\ AddGroup(s) \/ AddToGroup(s)
    /\ nameOf' = [t \in DOMAIN nameOf \cup {s} |-> IF t = s THEN NoName ELSE nameOf[t]]
    /\ seen' = seen \cup {s}
    /\ cursor' = <<"stage", s>>

\* A stage goes, and its group with it when it was alone.
RemoveStage(i, k) ==
  /\ cursor = <<"stage", flow[i][k]>>
  /\ flow' = IF Len(flow[i]) = 1 THEN RemoveAt(flow, i)
             ELSE [flow EXCEPT ![i] = RemoveAt(@, k)]
  /\ nameOf' = Restrict(nameOf, DOMAIN nameOf \ {flow[i][k]})
  /\ cursor' = Nowhere
  /\ UNCHANGED seen

RemoveGroup(i) ==
  /\ cursor = <<"parallel", i>>
  /\ flow' = RemoveAt(flow, i)
  /\ nameOf' = Restrict(nameOf, DOMAIN nameOf \ ToSet(flow[i]))
  /\ cursor' = Nowhere
  /\ UNCHANGED seen

Rename(s) ==
  /\ cursor = <<"stage", s>>
  /\ \E n \in Names : nameOf' = [nameOf EXCEPT ![s] = n]
  /\ UNCHANGED <<flow, seen, cursor>>

Next ==
  \/ Load
  \/ Click
  \/ Add
  \/ \E i \in DOMAIN flow :
       \/ RemoveGroup(i)
       \/ \E k \in DOMAIN flow[i] : RemoveStage(i, k)
  \/ \E s \in DOMAIN nameOf : Rename(s)

Spec == Init /\ [][Next]_vars
=============================================================================
