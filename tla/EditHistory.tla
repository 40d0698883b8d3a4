---------------------------- MODULE EditHistory -----------------------------
(***************************************************************************)
(* What an undoable store promises its user: a present state, the states   *)
(* the user can go back to, and the states the user has just gone back     *)
(* from.  The stack and the cursor of utils/redux/undoable.ts do not       *)
(* appear here; module UndoableHistory implements this specification.      *)
(***************************************************************************)
EXTENDS Naturals, Sequences

CONSTANTS
  State,      \* the states of the undoable reducer
  StackSize   \* how many states are remembered, the present one included

VARIABLES
  past,       \* states to go back to, the oldest first
  present,    \* the state the user sees
  future      \* states to go forward to, the nearest first

vars == <<past, present, future>>

\* The last n elements of s, or all of s when it is shorter.
LastOf(n, s) == SubSeq(s, IF Len(s) > n THEN Len(s) - n + 1 ELSE 1, Len(s))

Init ==
  /\ past = <<>>
  /\ present \in State
  /\ future = <<>>

\* A new state is reached: it can be undone, what was undone is forgotten.
Do(s) ==
  /\ past' = LastOf(StackSize - 1, Append(past, present))
  /\ present' = s
  /\ future' = <<>>

\* The present is corrected in place: neither direction is touched.
Amend(s) ==
  /\ present' = s
  /\ UNCHANGED <<past, future>>

Undo ==
  /\ past # <<>>
  /\ past' = SubSeq(past, 1, Len(past) - 1)
  /\ present' = past[Len(past)]
  /\ future' = <<present>> \o future

Redo ==
  /\ future # <<>>
  /\ past' = Append(past, present)
  /\ present' = Head(future)
  /\ future' = Tail(future)

StartOver(s) ==
  /\ past' = <<>>
  /\ present' = s
  /\ future' = <<>>

Next ==
  \/ \E s \in State : Do(s) \/ Amend(s) \/ StartOver(s)
  \/ Undo
  \/ Redo

Spec == Init /\ [][Next]_vars
=============================================================================
