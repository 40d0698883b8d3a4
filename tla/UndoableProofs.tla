--------------------------- MODULE UndoableProofs ---------------------------
(***************************************************************************)
(* Theorems about the undoable reducer, for every set of states and every  *)
(* stack size: the index stays in the stack, and the reducer implements    *)
(* the history of module EditHistory.                                      *)
(***************************************************************************)
EXTENDS UndoableHistory, SequenceTheorems, TLAPS

\* takeLast keeps the last n elements: its length, its elements and where
\* they come from.
LEMMA TakeLast ==
  ASSUME NEW S, NEW s \in Seq(S), NEW n \in Nat
  PROVE  /\ takeLast(n, s) \in Seq(S)
         /\ Len(s) <= n => takeLast(n, s) = s
         /\ Len(s) > n =>
              /\ Len(takeLast(n, s)) = n
              /\ \A i \in 1 .. n : takeLast(n, s)[i] = s[Len(s) - n + i]
<1>0. Len(s) \in Nat
  OBVIOUS
<1>1. CASE Len(s) <= n
  <2>0. ~(Len(s) > n)
    BY <1>0, <1>1
  <2>1. takeLast(n, s) = SubSeq(s, 1, Len(s))
    BY <2>0 DEF takeLast
  <2>2. SubSeq(s, 1, Len(s)) = s
    BY SubSeqFull
  <2> QED
    BY <2>0, <2>1, <2>2
<1>2. CASE Len(s) > n
  <2>1. takeLast(n, s) = SubSeq(s, Len(s) - n + 1, Len(s))
    BY <1>2 DEF takeLast
  <2>2. Len(s) - n + 1 \in 1 .. Len(s) + 1
    BY <1>2
  <2>3. \A i \in Len(s) - n + 1 .. Len(s) : s[i] \in S
    BY <1>2
  <2>4. /\ SubSeq(s, Len(s) - n + 1, Len(s)) \in Seq(S)
        /\ Len(SubSeq(s, Len(s) - n + 1, Len(s))) = n
        /\ \A i \in 1 .. n :
             SubSeq(s, Len(s) - n + 1, Len(s))[i] = s[Len(s) - n + i]
    BY <1>2, <2>2, <2>3, SubSeqProperties
  <2> QED
    BY <1>2, <2>1, <2>4
<1> QED
  BY <1>0, <1>1, <1>2

\* What a recorded action puts on the stack: at least one state, at most
\* StackSize, the new one last.
LEMMA Pushed ==
  ASSUME IndexInStack, NEW s \in State
  PROVE  LET pushed == takeLast(StackSize, Append(SubSeq(stack, 1, index + 1), s))
         IN  /\ pushed \in Seq(State)
             /\ Len(pushed) \in 1 .. StackSize
             /\ pushed[Len(pushed)] = s
<1> DEFINE kept == SubSeq(stack, 1, index + 1)
           long == Append(kept, s)
<1>1. /\ kept \in Seq(State)
      /\ Len(kept) = index + 1
  BY DEF IndexInStack
<1>2. /\ long \in Seq(State)
      /\ Len(long) = index + 2
      /\ long[index + 2] = s
  BY <1>1 DEF IndexInStack
<1>3. StackSize \in Nat /\ StackSize > 0
  BY UndoableAssumption
<1> HIDE DEF long
<1>4. CASE Len(long) <= StackSize
  <2>1. takeLast(StackSize, long) = long
    BY <1>2, <1>3, <1>4, TakeLast
  <2> QED
    BY <2>1, <1>2, <1>3, <1>4 DEF IndexInStack, long
<1>5. CASE Len(long) > StackSize
  <2>1. /\ takeLast(StackSize, long) \in Seq(State)
        /\ Len(takeLast(StackSize, long)) = StackSize
        /\ \A i \in 1 .. StackSize :
             takeLast(StackSize, long)[i] = long[Len(long) - StackSize + i]
    BY <1>2, <1>3, <1>5, TakeLast
  <2>2. takeLast(StackSize, long)[StackSize] = long[Len(long)]
    BY <2>1, <1>2, <1>3 DEF IndexInStack
  <2> QED
    BY <2>1, <2>2, <1>2, <1>3 DEF IndexInStack, long
<1> QED
  BY <1>2, <1>3, <1>4, <1>5 DEF IndexInStack

LEMMA IndexInStackInit == UndoInit => IndexInStack
BY UndoableAssumption DEF UndoInit, IndexInStack

LEMMA IndexInStackNext == IndexInStack /\ [UndoNext]_undoVars => IndexInStack'
<1> SUFFICES ASSUME IndexInStack, [UndoNext]_undoVars
             PROVE  IndexInStack'
  OBVIOUS
<1>1. CASE UNDO
  BY <1>1 DEF UNDO, IndexInStack
<1>2. CASE REDO
  BY <1>2 DEF REDO, IndexInStack
<1>3. CASE RESET_HEAD
  BY <1>3, UndoableAssumption DEF RESET_HEAD, IndexInStack
<1>4. ASSUME NEW s \in State, RESET(s)
      PROVE  IndexInStack'
  BY <1>4, UndoableAssumption DEF RESET, IndexInStack
<1>5. ASSUME NEW s \in State, IGNORED(s)
      PROVE  IndexInStack'
  BY <1>5 DEF IGNORED, IndexInStack
<1>6. ASSUME NEW s \in State, RECORDED(s)
      PROVE  IndexInStack'
  BY <1>6, Pushed, UndoableAssumption DEF RECORDED, IndexInStack
<1>7. CASE UNCHANGED undoVars
  BY <1>7 DEF undoVars, IndexInStack
<1> QED
  BY <1>1, <1>2, <1>3, <1>4, <1>5, <1>6, <1>7 DEF UndoNext

\* In every state that any sequence of actions reaches, the stack holds at
\* least one state and at most stackSize, and the index is inside it.  With
\* the stackSize of 1 the pipeline editor passes, the stack is one state.
THEOREM IndexInStackAlways == UndoSpec => []IndexInStack
BY IndexInStackInit, IndexInStackNext, PTL DEF UndoSpec

-----------------------------------------------------------------------------
(* The refinement, one lemma per kind of step.                             *)

LEMMA HistoryInit == UndoInit => History!Init
<1> SUFFICES ASSUME UndoInit PROVE History!Init
  OBVIOUS
<1>1. PICK s \in State : stack = <<s>> /\ index = 0
  BY DEF UndoInit
<1>2. SubSeq(stack, 1, index) = <<>> /\ SubSeq(stack, index + 2, Len(stack)) = <<>>
  BY <1>1, SubSeqEmpty
<1> QED
  BY <1>1, <1>2 DEF History!Init

LEMMA HistoryUndo == IndexInStack /\ UNDO => History!Undo
<1> SUFFICES ASSUME IndexInStack, UNDO PROVE History!Undo
  OBVIOUS
<1>1. /\ index \in 1 .. Len(stack) - 1
      /\ index' = index - 1
      /\ stack' = stack
      /\ stack \in Seq(State)
  BY DEF IndexInStack, UNDO
<1>2. /\ Len(SubSeq(stack, 1, index)) = index
      /\ SubSeq(stack, 1, index)[index] = stack[index]
  BY <1>1
<1>3. SubSeq(SubSeq(stack, 1, index), 1, index - 1) = SubSeq(stack, 1, index - 1)
  BY <1>1
<1>4. SubSeq(stack, index + 1, Len(stack))
        = <<stack[index + 1]>> \o SubSeq(stack, index + 2, Len(stack))
  BY <1>1, SubSeqRecursiveFirst
<1> QED
  BY <1>1, <1>2, <1>3, <1>4 DEF History!Undo

LEMMA HistoryRedo == IndexInStack /\ REDO => History!Redo
<1> SUFFICES ASSUME IndexInStack, REDO PROVE History!Redo
  OBVIOUS
<1>1. /\ index \in 0 .. Len(stack) - 2
      /\ index' = index + 1
      /\ stack' = stack
      /\ stack \in Seq(State)
      /\ Len(stack) \in Nat
  BY DEF IndexInStack, REDO
<1>2. SubSeq(stack, 1, index + 1) = Append(SubSeq(stack, 1, index), stack[index + 1])
  BY <1>1
<1>3. /\ Head(SubSeq(stack, index + 2, Len(stack))) = stack[index + 2]
      /\ Tail(SubSeq(stack, index + 2, Len(stack))) = SubSeq(stack, index + 3, Len(stack))
  BY <1>1, HeadTailOfSubSeq
<1>4. SubSeq(stack, index + 2, Len(stack)) # <<>>
  <2>1. Len(SubSeq(stack, index + 2, Len(stack))) = Len(stack) - index - 1
    BY <1>1
  <2> QED
    BY <1>1, <2>1
<1> QED
  BY <1>1, <1>2, <1>3, <1>4 DEF History!Redo

\* Both branches of RESET leave a stack of one state.
LEMMA HistoryReset ==
  ASSUME NEW s \in State, stack' = <<s>>, index' = 0
  PROVE  History!StartOver(s)
<1>1. SubSeq(stack', 1, index') = <<>> /\ SubSeq(stack', index' + 2, Len(stack')) = <<>>
  BY SubSeqEmpty
<1> QED
  BY <1>1 DEF History!StartOver

LEMMA HistoryIgnored ==
  ASSUME IndexInStack, NEW s \in State, IGNORED(s)
  PROVE  History!Amend(s)
<1>1. /\ index \in 0 .. Len(stack) - 1
      /\ index' = index
      /\ stack' = [stack EXCEPT ![index + 1] = s]
      /\ stack \in Seq(State)
      /\ Len(stack) \in Nat
  BY DEF IndexInStack, IGNORED
<1>2. stack'[index + 1] = s /\ Len(stack') = Len(stack)
  BY <1>1
<1>3. SubSeq(stack', 1, index) = SubSeq(stack, 1, index)
  BY <1>1
<1>4. SubSeq(stack', index + 2, Len(stack')) = SubSeq(stack, index + 2, Len(stack))
  BY <1>1, <1>2
<1> QED
  BY <1>1, <1>2, <1>3, <1>4 DEF History!Amend


\* A push keeps of the past what fits beside the new state.
LEMMA HistoryRecorded ==
  ASSUME IndexInStack, NEW s \in State, RECORDED(s)
  PROVE  History!Do(s)
<1> DEFINE kept == SubSeq(stack, 1, index + 1)
           long == Append(kept, s)
<1>1. /\ index \in 0 .. Len(stack) - 1
      /\ stack \in Seq(State)
      /\ Len(stack) \in Nat
      /\ StackSize \in Nat /\ StackSize > 0
      /\ stack' = takeLast(StackSize, long)
      /\ index' = Len(stack') - 1
  BY UndoableAssumption DEF IndexInStack, RECORDED
<1>2. kept \in Seq(State) /\ Len(kept) = index + 1
  BY <1>1
<1>3. long \in Seq(State) /\ Len(long) = index + 2
  BY <1>1, <1>2
<1>4. kept = Append(SubSeq(stack, 1, index), stack[index + 1])
  BY <1>1
<1>5. /\ stack' \in Seq(State)
      /\ Len(stack') \in 1 .. StackSize
      /\ stack'[Len(stack')] = s
  BY <1>1, Pushed
<1>6. SubSeq(stack', index' + 2, Len(stack')) = <<>>
  BY <1>1, <1>5, SubSeqEmpty
<1>7. SubSeq(stack', 1, index') = History!LastOf(StackSize - 1, kept)
  <2>1. CASE Len(long) <= StackSize
    <3>1. stack' = long
      BY <1>1, <1>3, <2>1, TakeLast
    <3>2. SubSeq(long, 1, index + 1) = kept
      BY <1>2
    <3>3. History!LastOf(StackSize - 1, kept) = SubSeq(kept, 1, Len(kept))
      BY <1>1, <1>2, <1>3, <2>1 DEF History!LastOf
    <3> QED
      BY <1>1, <1>2, <1>3, <3>1, <3>2, <3>3
  <2>2. CASE Len(long) > StackSize
    <3>1. History!LastOf(StackSize - 1, kept)
            = SubSeq(kept, index + 3 - StackSize, index + 1)
      BY <1>1, <1>2, <1>3, <2>2 DEF History!LastOf
    <3>2. stack' = SubSeq(long, index + 3 - StackSize, index + 2)
      BY <1>1, <1>3, <2>2 DEF takeLast
    <3>3. Len(stack') = StackSize /\ index' = StackSize - 1
      BY <1>1, <1>3, <2>2, <3>2
    <3>4. SubSeq(stack', 1, StackSize - 1)
            = SubSeq(kept, index + 3 - StackSize, index + 1)
      BY <1>1, <1>2, <1>3, <2>2, <3>2
    <3> QED
      BY <3>1, <3>3, <3>4
  <2> QED
    BY <1>1, <1>3, <2>1, <2>2
<1>8. stack'[index' + 1] = s
  BY <1>1, <1>5
<1> QED
  BY <1>4, <1>6, <1>7, <1>8 DEF History!Do

LEMMA HistoryNext == IndexInStack /\ [UndoNext]_undoVars => [History!Next]_(History!vars)
<1> SUFFICES ASSUME IndexInStack, [UndoNext]_undoVars
             PROVE  [History!Next]_(History!vars)
  OBVIOUS
<1>1. CASE UNDO
  BY <1>1, HistoryUndo DEF History!Next
<1>2. CASE REDO
  BY <1>2, HistoryRedo DEF History!Next
<1>3. CASE RESET_HEAD
  <2>1. Head(stack) \in State
    BY DEF IndexInStack
  <2> QED
    BY <1>3, <2>1, HistoryReset DEF RESET_HEAD, History!Next
<1>4. ASSUME NEW s \in State, RESET(s) PROVE History!Next
  BY <1>4, HistoryReset DEF RESET, History!Next
<1>5. ASSUME NEW s \in State, IGNORED(s) PROVE History!Next
  BY <1>5, HistoryIgnored DEF History!Next
<1>6. ASSUME NEW s \in State, RECORDED(s) PROVE History!Next
  BY <1>6, HistoryRecorded DEF History!Next
<1>7. CASE UNCHANGED undoVars
  BY <1>7 DEF undoVars, History!vars
<1> QED
  BY <1>1, <1>2, <1>3, <1>4, <1>5, <1>6, <1>7 DEF UndoNext

\* undoable() implements the history it promises: every step of its reducer
\* is a step of the past/present/future history or leaves it alone.
THEOREM HistoryImplemented == UndoSpec => HistorySpec
BY HistoryInit, HistoryNext, IndexInStackAlways, PTL DEF UndoSpec, HistorySpec, History!Spec
=============================================================================
