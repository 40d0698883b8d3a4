-------------------------- MODULE UndoableHistory ---------------------------
(***************************************************************************)
(* The higher-order reducer undoable() of utils/redux/undoable.ts: the     *)
(* stack of states it keeps, the index of the active one, and one action   *)
(* per branch of its switch.                                               *)
(*                                                                         *)
(* The wrapped reducer is abstract: on an action it may answer any state   *)
(* of State.  When it answers the state it was given the code returns its  *)
(* own state unchanged, so those steps are stuttering steps here.          *)
(***************************************************************************)
EXTENDS Integers, Sequences

CONSTANTS
  State,      \* what the wrapped reducer returns
  StackSize   \* options.stackSize

ASSUME UndoableAssumption == StackSize \in Nat \ {0}

VARIABLES
  stack,      \* UndoableState.stack
  index       \* UndoableState.index, counted from 0 as in the code

undoVars == <<stack, index>>

\* stack[index] of the code; sequences count from 1.
activeState == stack[index + 1]

\* R.takeLast: the last n elements, or all of them when there are fewer.
takeLast(n, s) == SubSeq(s, IF Len(s) > n THEN Len(s) - n + 1 ELSE 1, Len(s))

\* The first action, whatever it is, finds no state.
UndoInit ==
  /\ \E s \in State : stack = <<s>>
  /\ index = 0

UNDO ==
  /\ index >= 1 /\ Len(stack) > 1
  /\ index' = index - 1
  /\ UNCHANGED stack

REDO ==
  /\ index + 1 < Len(stack)
  /\ index' = index + 1
  /\ UNCHANGED stack

\* options.reset is given: the active state is reduced once more and becomes
\* the only one.
RESET(s) ==
  /\ stack' = <<s>>
  /\ index' = 0

\* options.reset is not given: back to the head of the stack.
RESET_HEAD ==
  /\ stack' = <<Head(stack)>>
  /\ index' = 0

\* An action of ignoreActions replaces the active state in place.
IGNORED(s) ==
  /\ s # activeState
  /\ stack' = [stack EXCEPT ![index + 1] = s]
  /\ UNCHANGED index

\* A slip of the index: the new state is put after the whole stack, behind
\* the states that were undone.
RECORDED_keepsUndone(s) ==
  /\ s # activeState
  /\ stack' = takeLast(StackSize, Append(stack, s))
  /\ index' = Len(stack') - 1

\* Any other action drops what was undone and pushes the new state.
RECORDED(s) ==
  /\ s # activeState
  /\ stack' = takeLast(StackSize, Append(SubSeq(stack, 1, index + 1), s))
  /\ index' = Len(stack') - 1

UndoNext ==
  \/ UNDO
  \/ REDO
  \/ RESET_HEAD
  \/ \E s \in State : RESET(s) \/ IGNORED(s) \/ RECORDED(s)

UndoSpec == UndoInit /\ [][UndoNext]_undoVars

-----------------------------------------------------------------------------
(* Properties.                                                             *)

\* The stack is never longer than stackSize and the index never leaves it:
\* activeState(), which every selector of the editor calls, finds a state.
IndexInStack ==
  /\ stack \in Seq(State)
  /\ Len(stack) \in 1 .. StackSize
  /\ index \in 0 .. Len(stack) - 1

\* The reducer implements the history its users are promised.
History ==
  INSTANCE EditHistory WITH
    past    <- SubSeq(stack, 1, index),
    present <- stack[index + 1],
    future  <- SubSeq(stack, index + 2, Len(stack))

HistorySpec == History!Spec
=============================================================================
