------------------------ MODULE PipelineStoreProofs -------------------------
(***************************************************************************)
(* Proofs about the reducers of the visual pipeline editor.                *)
(***************************************************************************)
EXTENDS PipelineStore, SequenceTheorems, FiniteSetTheorems, InductionLemmas

-----------------------------------------------------------------------------
(* Lemmas about lists of ids.                                              *)

\* Putting an element into a list keeps the others and their order.
LEMMA InsertAtProperties ==
  ASSUME NEW S, NEW s \in Seq(S), NEW e \in S, NEW i \in 1 .. Len(s) + 1
  PROVE  /\ InsertAt(s, i, e) \in Seq(S)
         /\ Len(InsertAt(s, i, e)) = Len(s) + 1
         /\ \A j \in 1 .. Len(s) + 1 :
              InsertAt(s, i, e)[j] = IF j < i THEN s[j] ELSE IF j = i THEN e ELSE s[j - 1]
  <1>. DEFINE l == SubSeq(s, 1, i - 1)
              r == SubSeq(s, i, Len(s))
  <1>1. /\ l \in Seq(S) /\ Len(l) = i - 1
        /\ \A j \in 1 .. i - 1 : l[j] = s[j]
    BY SubSeqProperties
  <1>2. /\ r \in Seq(S) /\ Len(r) = Len(s) - i + 1
        /\ \A j \in 1 .. Len(s) - i + 1 : r[j] = s[i + j - 1]
    BY SubSeqProperties
  <1>3. /\ <<e>> \in Seq(S) /\ Len(<<e>>) = 1 /\ <<e>>[1] = e
    OBVIOUS
  <1>. HIDE DEF l, r
  <1>. DEFINE m == l \o <<e>>
  <1>4. /\ m \in Seq(S) /\ Len(m) = i
        /\ \A j \in 1 .. i : m[j] = IF j < i THEN s[j] ELSE e
    BY <1>1, <1>3, ConcatProperties
  <1>5. InsertAt(s, i, e) = m \o r
    BY DEF InsertAt, l, r
  <1>. HIDE DEF m
  <1>6. /\ m \o r \in Seq(S) /\ Len(m \o r) = Len(s) + 1
        /\ \A j \in 1 .. Len(s) + 1 : (m \o r)[j] = IF j <= i THEN m[j] ELSE r[j - i]
    BY <1>2, <1>4, ConcatProperties
  <1>7. ASSUME NEW j \in 1 .. Len(s) + 1
        PROVE  (m \o r)[j] = IF j < i THEN s[j] ELSE IF j = i THEN e ELSE s[j - 1]
    <2>1. CASE j <= i
      BY <1>4, <1>6, <2>1
    <2>2. CASE j > i
      <3>1. (m \o r)[j] = r[j - i] /\ j - i \in 1 .. Len(s) - i + 1
        BY <1>6, <2>2
      <3>2. r[j - i] = s[i + (j - i) - 1]
        BY <1>2, <3>1
      <3>. QED
        BY <2>2, <3>1, <3>2
    <2>3. j <= i \/ j > i
      OBVIOUS
    <2>. QED
      BY <2>1, <2>2, <2>3, Zenon
  <1>. QED
    BY <1>5, <1>6, <1>7

\* Taking an element out of a list keeps the others and their order.
LEMMA RemoveAtProperties ==
  ASSUME NEW S, NEW s \in Seq(S), NEW i \in 1 .. Len(s)
  PROVE  /\ RemoveAt(s, i) \in Seq(S)
         /\ Len(RemoveAt(s, i)) = Len(s) - 1
         /\ \A j \in 1 .. Len(s) - 1 :
              RemoveAt(s, i)[j] = IF j < i THEN s[j] ELSE s[j + 1]
  <1>. DEFINE l == SubSeq(s, 1, i - 1)
              r == SubSeq(s, i + 1, Len(s))
  <1>1. /\ l \in Seq(S) /\ Len(l) = i - 1
        /\ \A j \in 1 .. i - 1 : l[j] = s[j]
    BY SubSeqProperties
  <1>2. /\ r \in Seq(S) /\ Len(r) = Len(s) - i
        /\ \A j \in 1 .. Len(s) - i : r[j] = s[i + j]
    BY SubSeqProperties
  <1>. HIDE DEF l, r
  <1>a. /\ l \o r \in Seq(S) /\ Len(l \o r) = Len(l) + Len(r)
        /\ \A j \in 1 .. Len(l) + Len(r) :
             (l \o r)[j] = IF j <= Len(l) THEN l[j] ELSE r[j - Len(l)]
    BY <1>1, <1>2, ConcatProperties
  <1>b. Len(l) = i - 1 /\ Len(l) + Len(r) = Len(s) - 1 /\ i \in Nat /\ Len(s) \in Nat
    BY <1>1, <1>2
  <1>3. /\ l \o r \in Seq(S) /\ Len(l \o r) = Len(s) - 1
        /\ \A j \in 1 .. Len(s) - 1 : (l \o r)[j] = IF j < i THEN l[j] ELSE r[j - i + 1]
    BY <1>a, <1>b
  <1>4. RemoveAt(s, i) = l \o r
    BY DEF RemoveAt, l, r
  <1>. QED
    BY <1>1, <1>2, <1>3, <1>4, SMTT(20)

\* positionOf finds the only position of an id.
LEMMA PositionOfFinds ==
  ASSUME NEW S, NEW s \in Seq(S), IsInjective(s), NEW x
  PROVE  /\ x \in ToSet(s) => positionOf(s, x) \in DOMAIN s /\ s[positionOf(s, x)] = x
         /\ x \notin ToSet(s) => positionOf(s, x) = 0
  <1>. DEFINE I == {i \in 1 .. Len(s) : s[i] = x}
  <1>1. positionOf(s, x) = IF I # {} THEN Min(I) ELSE 0
    BY DEF positionOf, SelectInSeq
  <1>2. ASSUME x \in ToSet(s)
        PROVE  Min(I) \in I
    <2>1. PICK i \in DOMAIN s : s[i] = x
      BY <1>2 DEF ToSet
    <2>2. I = {i}
      BY <2>1 DEF IsInjective
    <2>. QED
      BY <2>2 DEF Min
  <1>3. x \notin ToSet(s) => I = {}
    BY DEF ToSet
  <1>. QED
    BY <1>1, <1>2, <1>3

\* without takes exactly one id out of a list that has every id once.
LEMMA WithoutProperties ==
  ASSUME NEW S, NEW s \in Seq(S), IsInjective(s), NEW x
  PROVE  /\ without(s, x) \in Seq(S)
         /\ IsInjective(without(s, x))
         /\ ToSet(without(s, x)) = ToSet(s) \ {x}
  <1>1. CASE x \notin ToSet(s)
    BY <1>1 DEF without
  <1>2. CASE x \in ToSet(s)
    <2>. DEFINE p == positionOf(s, x)
                t == RemoveAt(s, p)
    <2>1. p \in 1 .. Len(s) /\ s[p] = x
      BY <1>2, PositionOfFinds
    <2>2. without(s, x) = t
      BY <1>2 DEF without
    <2>. HIDE DEF p
    <2>3. /\ t \in Seq(S)
          /\ Len(t) = Len(s) - 1
          /\ \A j \in 1 .. Len(s) - 1 : t[j] = IF j < p THEN s[j] ELSE s[j + 1]
      BY <2>1, RemoveAtProperties
    <2>. HIDE DEF t
    <2>4. ASSUME NEW i \in 1 .. Len(s) - 1, NEW j \in 1 .. Len(s) - 1, t[i] = t[j]
          PROVE  i = j
      <3>. DEFINE from(k) == IF k < p THEN k ELSE k + 1
      <3>1. \A k \in 1 .. Len(s) - 1 : from(k) \in DOMAIN s /\ t[k] = s[from(k)]
        BY <2>1, <2>3
      <3>2. from(i) = from(j)
        BY <2>4, <3>1 DEF IsInjective
      <3>. QED
        BY <2>1, <3>2
    <2>5. ToSet(t) \subseteq ToSet(s) \ {x}
      BY <2>1, <2>3 DEF ToSet, IsInjective
    <2>6. ASSUME NEW y \in ToSet(s) \ {x}
          PROVE  y \in ToSet(t)
      <3>1. PICK j \in 1 .. Len(s) : s[j] = y
        BY DEF ToSet
      <3>2. j # p
        BY <2>1, <3>1
      <3>3. CASE j < p
        BY <2>1, <2>3, <3>1, <3>3 DEF ToSet
      <3>4. CASE j > p
        <4>1. j - 1 \in 1 .. Len(s) - 1 /\ t[j - 1] = y
          BY <2>1, <2>3, <3>1, <3>4
        <4>. QED
          BY <2>3, <4>1 DEF ToSet
      <3>. QED
        BY <2>1, <3>2, <3>3, <3>4
    <2>. QED
      BY <2>2, <2>3, <2>4, <2>5, <2>6 DEF IsInjective
  <1>. QED
    BY <1>1, <1>2

\* A new id is put into a list once, wherever it is put.
LEMMA InsertAfterProperties ==
  ASSUME NEW S, NEW s \in Seq(S), IsInjective(s), NEW e \in S, e \notin ToSet(s), NEW after
  PROVE  LET t == InsertAt(s, positionOf(s, after) + 1, e) IN
         /\ t \in Seq(S)
         /\ IsInjective(t)
         /\ ToSet(t) = ToSet(s) \cup {e}
  <1>. DEFINE p == positionOf(s, after) + 1
              t == InsertAt(s, p, e)
  <1>1. p \in 1 .. Len(s) + 1
    BY PositionOfFinds
  <1>. HIDE DEF p
  <1>2. /\ t \in Seq(S)
        /\ Len(t) = Len(s) + 1
        /\ \A j \in 1 .. Len(s) + 1 :
             t[j] = IF j < p THEN s[j] ELSE IF j = p THEN e ELSE s[j - 1]
    <2>1. \A q \in 1 .. Len(s) + 1 :
            /\ InsertAt(s, q, e) \in Seq(S)
            /\ Len(InsertAt(s, q, e)) = Len(s) + 1
            /\ \A j \in 1 .. Len(s) + 1 :
                 InsertAt(s, q, e)[j] = IF j < q THEN s[j] ELSE IF j = q THEN e ELSE s[j - 1]
      BY InsertAtProperties
    <2>. QED
      BY <1>1, <2>1
  <1>. HIDE DEF t
  <1>3. \A j \in 1 .. Len(s) : s[j] # e
    BY DEF ToSet
  <1>4. ASSUME NEW i \in 1 .. Len(s) + 1, NEW j \in 1 .. Len(s) + 1, t[i] = t[j]
        PROVE  i = j
    <2>. DEFINE from(k) == IF k < p THEN k ELSE k - 1
    <2>1. \A k \in 1 .. Len(s) + 1 :
            k # p => from(k) \in 1 .. Len(s) /\ t[k] = s[from(k)] /\ t[k] # e
      BY <1>1, <1>2, <1>3
    <2>2. t[p] = e
      BY <1>1, <1>2
    <2>3. CASE i = p \/ j = p
      BY <1>4, <2>1, <2>2, <2>3
    <2>4. CASE i # p /\ j # p
      <3>1. from(i) = from(j)
        BY <1>4, <2>1, <2>4 DEF IsInjective
      <3>. QED
        BY <1>1, <2>4, <3>1
    <2>. QED
      BY <2>3, <2>4
  <1>5. ToSet(t) \subseteq ToSet(s) \cup {e}
    BY <1>1, <1>2 DEF ToSet
  <1>6. e \in ToSet(t)
    BY <1>1, <1>2 DEF ToSet
  <1>7. ASSUME NEW y \in ToSet(s)
        PROVE  y \in ToSet(t)
    <2>1. PICK j \in 1 .. Len(s) : s[j] = y
      BY DEF ToSet
    <2>2. CASE j < p
      BY <1>1, <1>2, <2>1, <2>2 DEF ToSet
    <2>3. CASE j >= p
      <3>1. j + 1 \in 1 .. Len(s) + 1 /\ t[j + 1] = y
        BY <1>1, <1>2, <2>1, <2>3
      <3>. QED
        BY <1>2, <3>1 DEF ToSet
    <2>. QED
      BY <1>1, <2>2, <2>3
  <1>8. t \in Seq(S) /\ IsInjective(t) /\ ToSet(t) = ToSet(s) \cup {e}
    BY <1>2, <1>4, <1>5, <1>6, <1>7 DEF IsInjective
  <1>. QED
    BY <1>8 DEF p, t

\* A new id is appended to a list once.
LEMMA AppendOnce ==
  ASSUME NEW S, NEW s \in Seq(S), IsInjective(s), NEW e \in S, e \notin ToSet(s)
  PROVE  /\ Append(s, e) \in Seq(S)
         /\ Append(s, e) # <<>>
         /\ IsInjective(Append(s, e))
         /\ ToSet(Append(s, e)) = ToSet(s) \cup {e}
  <1>1. /\ Append(s, e) \in Seq(S)
        /\ Append(s, e) # <<>>
        /\ Len(Append(s, e)) = Len(s) + 1
        /\ \A i \in 1 .. Len(s) : Append(s, e)[i] = s[i]
        /\ Append(s, e)[Len(s) + 1] = e
    BY AppendProperties
  <1>2. \A i \in 1 .. Len(s) : s[i] # e
    BY DEF ToSet
  <1>3. IsInjective(Append(s, e))
    BY <1>1, <1>2 DEF IsInjective
  <1>4. ToSet(Append(s, e)) = ToSet(s) \cup {e}
    BY <1>1 DEF ToSet
  <1>. QED
    BY <1>1, <1>3, <1>4

-----------------------------------------------------------------------------
(* Lemmas about dictionaries.                                              *)

LEMMA PutProperties ==
  ASSUME NEW entities, NEW id, NEW item
  PROVE  /\ DOMAIN put(entities, id, item) = DOMAIN entities \cup {id}
         /\ put(entities, id, item)[id] = item
         /\ \A x \in DOMAIN entities : x # id => put(entities, id, item)[x] = entities[x]
  BY DEF put

-----------------------------------------------------------------------------
(* The inductive invariant.                                                *)

\* uuid() has not drawn what it will draw.
Fresh ==
  /\ \A id \in ToSet(parallels.ids) : id < nextId
  /\ \A id \in DOMAIN stages.entities : id < nextId

FormsOfStages == DOMAIN stageForms.entities = DOMAIN stages.entities

\* A stage is only added where the user clicked, removed where its parent says
\* and named with an id no list holds: the invariant needs all three.
IInv ==
  /\ TypeOK
  /\ inStep(parallels)
  /\ EveryStageInOneFork
  /\ SelectedExists
  /\ Fresh
  /\ FormsOfStages

LEMMA InitEstablishes == Init => IInv
  <1>. SUFFICES ASSUME Init
                PROVE  IInv
    OBVIOUS
  <1>a. /\ DOMAIN emptyState = {"ids", "entities"}
        /\ emptyState.ids = <<>> /\ emptyState.entities = <<>>
        /\ <<>> \in Seq(Id) /\ 1 \in Id
        /\ \A id : id \notin DOMAIN <<>>
    BY DEF emptyState, Id
  <1>1. TypeOK
    BY <1>a DEF Init, TypeOK
  <1>2. ToSet(<<>>) = {} /\ IsInjective(<<>>)
    BY DEF ToSet, IsInjective
  <1>3. inStep(parallels)
    BY <1>2 DEF Init, inStep, emptyState
  <1>4. EveryStageInOneFork
    BY <1>2 DEF Init, EveryStageInOneFork, emptyState
  <1>5. SelectedExists /\ Fresh /\ FormsOfStages
    BY <1>2 DEF Init, SelectedExists, paths, Fresh, FormsOfStages, emptyState
  <1>. QED
    BY <1>1, <1>3, <1>4, <1>5 DEF IInv

\* What a path names is told by its first component.
LEMMA PathCases ==
  ASSUME SelectedExists
  PROVE  /\ selected[1] = "stage"
              => selected[2] \in UNION {ToSet(forks[id]) : id \in ToSet(parallels.ids)}
         /\ selected[1] \in {"parallel", "of"} => selected[2] \in ToSet(parallels.ids)
  <1>1. Unselected[1] = ""
    BY DEF Unselected
  <1>2. \A S, T, x : x \in S \X T => x[1] \in S /\ x[2] \in T
    OBVIOUS
  <1>. DEFINE A == {"after"} \X ({NoId} \cup ToSet(parallels.ids))
              P == {"parallel", "of"} \X ToSet(parallels.ids)
              U == UNION {ToSet(forks[id]) : id \in ToSet(parallels.ids)}
              B == {"stage"} \X U
  <1>3. selected = Unselected \/ selected \in A \/ selected \in P \/ selected \in B
    BY DEF SelectedExists, paths
  <1>4. selected \in A => selected[1] \in {"after"}
    BY <1>2
  <1>5. selected \in P => selected[1] \in {"parallel", "of"} /\ selected[2] \in ToSet(parallels.ids)
    BY <1>2
  <1>6. selected \in B => selected[1] \in {"stage"} /\ selected[2] \in U
    BY <1>2
  <1>. HIDE DEF A, P, B, U
  <1>7. /\ selected[1] = "stage" => selected[2] \in U
        /\ selected[1] \in {"parallel", "of"} => selected[2] \in ToSet(parallels.ids)
    BY <1>1, <1>3, <1>4, <1>5, <1>6
  <1>. QED
    BY <1>7 DEF U

\* The stage the form is open for is there, and its parent forks into it.
LEMMA SelectedStage ==
  ASSUME IInv, selected[1] = "stage"
  PROVE  LET id == selected[2] IN
         /\ id \in DOMAIN stages.entities
         /\ id \in DOMAIN stageForms.entities
         /\ id \in Id
  <1>1. selected[2] \in UNION {ToSet(forks[id]) : id \in ToSet(parallels.ids)}
    BY PathCases DEF IInv
  <1>2. PICK p \in ToSet(parallels.ids) : selected[2] \in ToSet(forks[p])
    BY <1>1
  <1>3. p \in DOMAIN forks
    BY <1>2 DEF IInv, EveryStageInOneFork
  <1>4. selected[2] \in DOMAIN stages.entities
    BY <1>2, <1>3 DEF IInv, EveryStageInOneFork
  <1>5. selected[2] \in Id
    BY <1>2, <1>3 DEF IInv, TypeOK, ToSet
  <1>. QED
    BY <1>4, <1>5 DEF IInv, FormsOfStages

\* So is the parallel.
LEMMA SelectedParallel ==
  ASSUME IInv, selected[1] \in {"parallel", "of"}
  PROVE  selected[2] \in ToSet(parallels.ids)
  BY PathCases DEF IInv

-----------------------------------------------------------------------------
(* Steps that leave the graph as it is.                                    *)

LEMMA SelectPreserves ==
  ASSUME IInv, Select
  PROVE  IInv'
  <1>1. PICK path \in paths : SELECT(path)
    BY DEF Select
  <1>2. paths' = paths
    BY <1>1 DEF SELECT, paths
  <1>. QED
    BY <1>1, <1>2 DEF IInv, SELECT, TypeOK, inStep, EveryStageInOneFork, SelectedExists,
                      Fresh, FormsOfStages

LEMMA SettingsPreserve ==
  ASSUME IInv, NEW ok \in BOOLEAN, CHANGE_PIPELINE_SETTINGS(ok)
  PROVE  IInv'
  <1>1. paths' = paths
    BY DEF CHANGE_PIPELINE_SETTINGS, paths
  <1>. QED
    BY <1>1 DEF IInv, CHANGE_PIPELINE_SETTINGS, TypeOK, inStep, EveryStageInOneFork,
                SelectedExists, Fresh, FormsOfStages

\* A form is replaced by one of the same shape.
LEMMA FormPreserves ==
  ASSUME IInv, NEW id \in DOMAIN stageForms.entities, NEW form,
         stageForms' = update(stageForms, id, form),
         DOMAIN form = {"values", "errors", "options"},
         form.values \in Values, form.errors \in BOOLEAN,
         UNCHANGED <<parallels, forks, stages, selected, settingsOk, nextId>>
  PROVE  IInv'
  <1>1. /\ DOMAIN stageForms' = {"ids", "entities"}
        /\ stageForms'.entities = put(stageForms.entities, id, form)
    BY DEF update, IInv, TypeOK
  <1>2. /\ DOMAIN stageForms'.entities = DOMAIN stageForms.entities
        /\ stageForms'.entities[id] = form
        /\ \A x \in DOMAIN stageForms.entities :
             x # id => stageForms'.entities[x] = stageForms.entities[x]
    BY <1>1 DEF put
  <1>3. TypeOK'
    BY <1>1, <1>2 DEF IInv, TypeOK
  <1>4. paths' = paths
    BY DEF paths
  <1>. QED
    BY <1>2, <1>3, <1>4 DEF IInv, inStep, EveryStageInOneFork, SelectedExists, Fresh,
                            FormsOfStages

\* A field holds an input of its own or null.
LEMMA ValuesHold ==
  ASSUME NEW values, values = [f \in Field |-> values[f]],
         \A f \in Field : values[f] \in Input[f] \cup {Nil}
  PROVE  values \in Values
  <1>. DEFINE D == (UNION {Input[f] : f \in Field}) \cup {Nil}
  <1>1. \A f \in Field : values[f] \in D
    OBVIOUS
  <1>. HIDE DEF D
  <1>2. values \in [Field -> D]
    BY <1>1
  <1>. QED
    BY <1>2 DEF Values, D

LEMMA ValuesAre ==
  ASSUME NEW values \in Values
  PROVE  /\ values = [f \in Field |-> values[f]]
         /\ \A f \in Field : values[f] \in Input[f] \cup {Nil}
  BY DEF Values

LEMMA NoTextsReadable == readable(noTexts)
  <1>. SUFFICES ASSUME NEW f \in Field
                PROVE  deserialize(f, noTexts[f]) \in Input[f] \cup {Nil}
    BY DEF readable
  <1>1. noTexts[f] = Nil
    BY DEF noTexts
  <1>2. deserialize(f, Nil) \in Input[f] \cup {Nil}
    BY DynamicFormAssumption
  <1>. QED
    BY <1>1, <1>2

\* What the form of readable texts is made of.
LEMMA SnapshotForm ==
  ASSUME NEW texts, readable(texts)
  PROVE  /\ DOMAIN snapshot(texts) = {"values", "errors", "options"}
         /\ snapshot(texts).values \in Values
         /\ snapshot(texts).errors \in BOOLEAN
         /\ snapshot(texts).values
              = [f \in Field |-> LET v == deserialize(f, texts[f]) IN
                                 IF v = Nil THEN defaultValue(f) ELSE v]
  <1>. DEFINE values == [f \in Field |-> LET v == deserialize(f, texts[f]) IN
                                          IF v = Nil THEN defaultValue(f) ELSE v]
  <1>1. /\ DOMAIN snapshot(texts) = {"values", "errors", "options"}
        /\ snapshot(texts).values = values
        /\ snapshot(texts).errors = errorsOf(values, values)
    BY DEF snapshot
  <1>2. errorsOf(values, values) \in BOOLEAN
    BY DEF errorsOf
  <1>3. ASSUME NEW f \in Field
        PROVE  values[f] \in Input[f] \cup {Nil}
    <2>1. deserialize(f, texts[f]) \in Input[f] \cup {Nil}
      BY DEF readable
    <2>2. defaultValue(f) \in Input[f] \cup {Nil}
      BY DynamicFormAssumption
    <2>. QED
      BY <2>1, <2>2
  <1>4. values = [f \in Field |-> values[f]]
    OBVIOUS
  <1>5. values \in Values
    <2>. HIDE DEF values
    <2>. QED
      BY <1>3, <1>4, ValuesHold
  <1>. QED
    BY <1>1, <1>2, <1>5

LEMMA TryChangePreserves ==
  ASSUME IInv, NEW id, NEW current \in Values, TRY_CHANGE_STAGE_VALUES(id, current)
  PROVE  IInv'
  <1>1. PICK values \in Values, errors \in BOOLEAN, affected \in SUBSET Field :
          CHANGE_STAGE_VALUES(id, values, errors, affected)
    <2>. DEFINE original == stageForms.entities[id].values
                affected == allAffected({f \in Field : original[f] # current[f]})
                values == [f \in Field |-> IF f \in affected THEN Nil ELSE current[f]]
                errors == IF affected = {} THEN errorsOf(original, current)
                          ELSE errorsOf(values, values)
    <2>1. CHANGE_STAGE_VALUES(id, values, errors, affected)
      BY DEF TRY_CHANGE_STAGE_VALUES
    <2>2. affected \in SUBSET Field
      BY DEF allAffected
    <2>. HIDE DEF affected
    <2>3. errors \in BOOLEAN
      BY DEF errorsOf
    <2>4. /\ values = [f \in Field |-> values[f]]
          /\ \A f \in Field : values[f] \in Input[f] \cup {Nil}
      BY ValuesAre
    <2>. HIDE DEF values
    <2>5. values \in Values
      BY <2>4, ValuesHold
    <2>. QED
      BY <2>1, <2>2, <2>3, <2>5
  <1>. DEFINE form == changeValues(stageForms.entities[id], values, errors, affected)
  <1>2. /\ DOMAIN form = {"values", "errors", "options"}
        /\ form.values = values
        /\ form.errors = errors
    BY DEF changeValues
  <1>. HIDE DEF form
  <1>3. id \in DOMAIN stageForms.entities /\ stageForms' = update(stageForms, id, form)
    BY <1>1 DEF CHANGE_STAGE_VALUES, form
  <1>4. UNCHANGED <<parallels, forks, stages, selected, settingsOk, nextId>>
    BY <1>1 DEF CHANGE_STAGE_VALUES
  <1>. QED
    BY <1>2, <1>3, <1>4, FormPreserves

LEMMA OptionsPreserve ==
  ASSUME IInv, NEW id, NEW items, RECEIVE_STAGE_OPTIONS(id, items)
  PROVE  IInv'
  <1>. DEFINE form == receiveOptions(stageForms.entities[id], items)
  <1>0. id \in DOMAIN stageForms.entities
    BY DEF RECEIVE_STAGE_OPTIONS
  <1>2. /\ DOMAIN form = {"values", "errors", "options"}
        /\ form.values \in Values
        /\ form.errors \in BOOLEAN
    BY <1>0 DEF receiveOptions, IInv, TypeOK
  <1>. HIDE DEF form
  <1>3. stageForms' = update(stageForms, id, form)
    BY DEF RECEIVE_STAGE_OPTIONS, form
  <1>4. UNCHANGED <<parallels, forks, stages, selected, settingsOk, nextId>>
    BY DEF RECEIVE_STAGE_OPTIONS
  <1>. QED
    BY <1>0, <1>2, <1>3, <1>4, FormPreserves

LEMMA ReceivePreserves ==
  ASSUME IInv, Receive
  PROVE  IInv'
  BY OptionsPreserve DEF Receive

LEMMA StageNamePreserves ==
  ASSUME IInv, NEW id \in DOMAIN stages.entities, NEW name \in Name \cup {NoName},
         CHANGE_STAGE_NAME(id, name)
  PROVE  IInv'
  <1>. DEFINE item == [stages.entities[id] EXCEPT !.name = name]
  <1>1. /\ DOMAIN stages' = {"ids", "entities"}
        /\ stages'.entities = put(stages.entities, id, item)
    BY DEF CHANGE_STAGE_NAME, update, IInv, TypeOK
  <1>2. item \in [name : Name \cup {NoName}, parent : Id] /\ item.parent = stages.entities[id].parent
    BY DEF IInv, TypeOK
  <1>. HIDE DEF item
  <1>3. /\ DOMAIN stages'.entities = DOMAIN stages.entities
        /\ stages'.entities[id] = item
        /\ \A x \in DOMAIN stages.entities :
             x # id => stages'.entities[x] = stages.entities[x]
    BY <1>1 DEF put
  <1>4. UNCHANGED <<parallels, forks, stageForms, selected, settingsOk, nextId>>
    BY DEF CHANGE_STAGE_NAME
  <1>5. TypeOK'
    BY <1>1, <1>2, <1>3, <1>4 DEF IInv, TypeOK
  <1>6. \A x \in DOMAIN stages.entities : stages'.entities[x].parent = stages.entities[x].parent
    BY <1>2, <1>3
  <1>7. EveryStageInOneFork'
    BY <1>3, <1>4, <1>6 DEF IInv, EveryStageInOneFork
  <1>8. paths' = paths
    BY <1>4 DEF paths
  <1>. QED
    BY <1>3, <1>4, <1>5, <1>7, <1>8 DEF IInv, inStep, SelectedExists, Fresh, FormsOfStages

LEMMA ParallelNamePreserves ==
  ASSUME IInv, NEW id \in ToSet(parallels.ids), NEW name \in Name \cup {NoName},
         CHANGE_PARALLEL_NAME(id, name)
  PROVE  IInv'
  <1>1. /\ DOMAIN parallels' = {"ids", "entities"}
        /\ parallels'.ids = parallels.ids
        /\ parallels'.entities = put(parallels.entities, id, [name |-> name])
    BY DEF CHANGE_PARALLEL_NAME, update, IInv, TypeOK
  <1>2. id \in DOMAIN parallels.entities
    BY DEF IInv, inStep
  <1>3. /\ DOMAIN parallels'.entities = DOMAIN parallels.entities
        /\ parallels'.entities[id] = [name |-> name]
        /\ \A x \in DOMAIN parallels.entities :
             x # id => parallels'.entities[x] = parallels.entities[x]
    BY <1>1, <1>2 DEF put
  <1>4. UNCHANGED <<forks, stages, stageForms, selected, settingsOk, nextId>>
    BY DEF CHANGE_PARALLEL_NAME
  <1>5. TypeOK'
    BY <1>1, <1>3, <1>4 DEF IInv, TypeOK
  <1>6. paths' = paths
    BY <1>1, <1>4 DEF paths
  <1>. QED
    BY <1>1, <1>3, <1>4, <1>5, <1>6
    DEF IInv, inStep, EveryStageInOneFork, SelectedExists, Fresh, FormsOfStages

-----------------------------------------------------------------------------
(* Steps that put a stage into the graph.                                  *)

\* What both additions do: a new stage, its form, and the selection.
Added(parent) ==
  /\ nextId' = nextId + 1
  /\ stages' = append(stages, nextId, [name |-> NoName, parent |-> parent])
  /\ stageForms' = append(stageForms, nextId, snapshot(noTexts))
  /\ selected' = <<"stage", nextId>>
  /\ UNCHANGED settingsOk

LEMMA AddedFacts ==
  ASSUME IInv, NEW parent \in Id, Added(parent)
  PROVE  /\ nextId \in Id /\ nextId' \in Id /\ settingsOk' \in BOOLEAN
         /\ nextId \notin DOMAIN stages.entities
         /\ nextId \notin ToSet(parallels.ids)
         /\ DOMAIN stages' = {"ids", "entities"}
         /\ DOMAIN stages'.entities = DOMAIN stages.entities \cup {nextId}
         /\ stages'.entities[nextId] = [name |-> NoName, parent |-> parent]
         /\ \A s \in DOMAIN stages.entities : stages'.entities[s] = stages.entities[s]
         /\ \A s \in DOMAIN stages'.entities :
              /\ stages'.entities[s] \in [name : Name \cup {NoName}, parent : Id]
              /\ s < nextId'
         /\ DOMAIN stageForms' = {"ids", "entities"}
         /\ FormsOfStages'
         /\ \A s \in DOMAIN stageForms'.entities :
              /\ DOMAIN stageForms'.entities[s] = {"values", "errors", "options"}
              /\ stageForms'.entities[s].values \in Values
              /\ stageForms'.entities[s].errors \in BOOLEAN
  <1>1. nextId \in Id /\ nextId' \in Id /\ settingsOk' \in BOOLEAN
    BY DEF Added, IInv, TypeOK, Id
  <1>2. nextId \notin DOMAIN stages.entities /\ nextId \notin ToSet(parallels.ids)
    BY <1>1 DEF IInv, Fresh, Id
  <1>. DEFINE item == [name |-> NoName, parent |-> parent]
  <1>3. /\ DOMAIN stages' = {"ids", "entities"}
        /\ stages'.entities = put(stages.entities, nextId, item)
    BY DEF Added, append
  <1>4. item \in [name : Name \cup {NoName}, parent : Id]
    OBVIOUS
  <1>. HIDE DEF item
  <1>5. /\ DOMAIN stages'.entities = DOMAIN stages.entities \cup {nextId}
        /\ stages'.entities[nextId] = item
        /\ \A s \in DOMAIN stages.entities : stages'.entities[s] = stages.entities[s]
    BY <1>2, <1>3 DEF put
  <1>6. \A s \in DOMAIN stages'.entities :
          stages'.entities[s] \in [name : Name \cup {NoName}, parent : Id]
    BY <1>4, <1>5 DEF IInv, TypeOK
  <1>7. \A s \in DOMAIN stages'.entities : s < nextId'
    <2>1. nextId' = nextId + 1 /\ nextId \in Nat
      BY <1>1 DEF Added, Id
    <2>2. \A s \in DOMAIN stages.entities : s < nextId
      BY DEF IInv, Fresh
    <2>3. \A s \in DOMAIN stages.entities : s \in Nat
      BY SMTT(20) DEF IInv, EveryStageInOneFork, TypeOK, ToSet, Id
    <2>. QED
      BY <1>5, <2>1, <2>2, <2>3
  <1>. DEFINE form == snapshot(noTexts)
  <1>8. /\ DOMAIN form = {"values", "errors", "options"}
        /\ form.values \in Values
        /\ form.errors \in BOOLEAN
    BY NoTextsReadable, SnapshotForm
  <1>9. /\ DOMAIN stageForms' = {"ids", "entities"}
        /\ stageForms'.entities = put(stageForms.entities, nextId, form)
    BY DEF Added, append
  <1>. HIDE DEF form
  <1>10. /\ DOMAIN stageForms'.entities = DOMAIN stageForms.entities \cup {nextId}
         /\ stageForms'.entities[nextId] = form
         /\ \A s \in DOMAIN stageForms.entities :
              s # nextId => stageForms'.entities[s] = stageForms.entities[s]
    BY <1>9 DEF put
  <1>11. FormsOfStages'
    BY <1>5, <1>10 DEF IInv, FormsOfStages
  <1>12. \A s \in DOMAIN stageForms'.entities :
           /\ DOMAIN stageForms'.entities[s] = {"values", "errors", "options"}
           /\ stageForms'.entities[s].values \in Values
           /\ stageForms'.entities[s].errors \in BOOLEAN
    BY <1>8, <1>10 DEF IInv, TypeOK
  <1>. QED
    BY <1>1, <1>2, <1>3, <1>5, <1>6, <1>7, <1>9, <1>11, <1>12 DEF item

LEMMA AddParallelPreserves ==
  ASSUME IInv, NEW after, ADD_PARALLEL_BY_STAGE(after)
  PROVE  IInv'
  <1>1. Added(nextId)
    BY DEF ADD_PARALLEL_BY_STAGE, Added
  <1>2. nextId \in Id
    BY DEF IInv, TypeOK
  <1>3. /\ nextId' \in Id /\ settingsOk' \in BOOLEAN
        /\ nextId \notin DOMAIN stages.entities
        /\ nextId \notin ToSet(parallels.ids)
        /\ DOMAIN stages' = {"ids", "entities"}
        /\ DOMAIN stages'.entities = DOMAIN stages.entities \cup {nextId}
        /\ stages'.entities[nextId] = [name |-> NoName, parent |-> nextId]
        /\ \A s \in DOMAIN stages.entities : stages'.entities[s] = stages.entities[s]
        /\ \A s \in DOMAIN stages'.entities :
             /\ stages'.entities[s] \in [name : Name \cup {NoName}, parent : Id]
             /\ s < nextId'
        /\ DOMAIN stageForms' = {"ids", "entities"}
        /\ FormsOfStages'
        /\ \A s \in DOMAIN stageForms'.entities :
             /\ DOMAIN stageForms'.entities[s] = {"values", "errors", "options"}
             /\ stageForms'.entities[s].values \in Values
             /\ stageForms'.entities[s].errors \in BOOLEAN
    BY <1>1, <1>2, AddedFacts
  <1>. DEFINE item == [name |-> NoName]
  <1>4. /\ DOMAIN parallels' = {"ids", "entities"}
        /\ parallels'.ids = InsertAt(parallels.ids, positionOf(parallels.ids, after) + 1, nextId)
        /\ parallels'.entities = put(parallels.entities, nextId, item)
    BY DEF ADD_PARALLEL_BY_STAGE, insertAfter
  <1>5. /\ parallels'.ids \in Seq(Id)
        /\ IsInjective(parallels'.ids)
        /\ ToSet(parallels'.ids) = ToSet(parallels.ids) \cup {nextId}
    <2>1. parallels.ids \in Seq(Id) /\ IsInjective(parallels.ids)
      BY DEF IInv, TypeOK, inStep
    <2>. QED
      BY <1>2, <1>3, <1>4, <2>1, InsertAfterProperties
  <1>6. item \in [name : Name \cup {NoName}]
    OBVIOUS
  <1>. HIDE DEF item
  <1>7. /\ DOMAIN parallels'.entities = DOMAIN parallels.entities \cup {nextId}
        /\ \A p \in DOMAIN parallels'.entities :
             parallels'.entities[p] \in [name : Name \cup {NoName}]
    BY <1>4, <1>6 DEF put, IInv, TypeOK
  <1>8. inStep(parallels)'
    BY <1>5, <1>7 DEF IInv, inStep
  <1>. DEFINE alone == <<nextId>>
  <1>9. /\ alone \in Seq(Id) /\ alone # <<>> /\ IsInjective(alone)
        /\ ToSet(alone) = {nextId}
    BY <1>2 DEF IsInjective, ToSet
  <1>10. forks' = put(forks, nextId, alone)
    BY DEF ADD_PARALLEL_BY_STAGE
  <1>. HIDE DEF alone
  <1>11. nextId \notin DOMAIN forks
    BY <1>3 DEF IInv, EveryStageInOneFork
  <1>12. /\ DOMAIN forks' = DOMAIN forks \cup {nextId}
         /\ forks'[nextId] = alone
         /\ \A p \in DOMAIN forks : forks'[p] = forks[p]
    BY <1>10, <1>11 DEF put
  <1>13. TypeOK'
    BY <1>3, <1>4, <1>5, <1>7, <1>9, <1>12 DEF IInv, TypeOK
  <1>14. EveryStageInOneFork'
    <2>1. DOMAIN forks' = ToSet(parallels'.ids)
      BY <1>5, <1>12 DEF IInv, EveryStageInOneFork
    <2>2. \A p \in DOMAIN forks' :
            /\ forks'[p] # <<>>
            /\ IsInjective(forks'[p])
            /\ \A s \in ToSet(forks'[p]) :
                 s \in DOMAIN stages'.entities /\ stages'.entities[s].parent = p
      BY <1>3, <1>9, <1>12 DEF IInv, EveryStageInOneFork
    <2>3. \A s \in DOMAIN stages'.entities :
            /\ stages'.entities[s].parent \in DOMAIN forks'
            /\ s \in ToSet(forks'[stages'.entities[s].parent])
      BY <1>3, <1>9, <1>12 DEF IInv, EveryStageInOneFork
    <2>. QED
      BY <2>1, <2>2, <2>3 DEF EveryStageInOneFork
  <1>15. SelectedExists'
    <2>1. nextId \in ToSet(parallels'.ids) /\ nextId \in ToSet(forks'[nextId])
      BY <1>5, <1>9, <1>12
    <2>2. selected' = <<"stage", nextId>>
      BY DEF ADD_PARALLEL_BY_STAGE
    <2>. QED
      BY <2>1, <2>2 DEF SelectedExists, paths
  <1>16. Fresh'
    <2>1. nextId' = nextId + 1 /\ nextId \in Nat
      BY <1>2 DEF ADD_PARALLEL_BY_STAGE, Id
    <2>2. \A p \in ToSet(parallels.ids) : p < nextId /\ p \in Nat
      BY DEF IInv, Fresh, TypeOK, ToSet, Id
    <2>. QED
      BY <1>3, <1>5, <2>1, <2>2 DEF Fresh
  <1>. QED
    BY <1>3, <1>8, <1>13, <1>14, <1>15, <1>16 DEF IInv

LEMMA AddStagePreserves ==
  ASSUME IInv, NEW parallel \in ToSet(parallels.ids), ADD_STAGE(parallel)
  PROVE  IInv'
  <1>1. Added(parallel) /\ UNCHANGED parallels
    BY DEF ADD_STAGE, Added
  <1>2. nextId \in Id /\ parallel \in Id /\ parallel \in DOMAIN forks
    BY DEF IInv, TypeOK, EveryStageInOneFork, ToSet
  <1>3. /\ nextId' \in Id /\ settingsOk' \in BOOLEAN
        /\ nextId \notin DOMAIN stages.entities
        /\ DOMAIN stages' = {"ids", "entities"}
        /\ DOMAIN stages'.entities = DOMAIN stages.entities \cup {nextId}
        /\ stages'.entities[nextId] = [name |-> NoName, parent |-> parallel]
        /\ \A s \in DOMAIN stages.entities : stages'.entities[s] = stages.entities[s]
        /\ \A s \in DOMAIN stages'.entities :
             /\ stages'.entities[s] \in [name : Name \cup {NoName}, parent : Id]
             /\ s < nextId'
        /\ DOMAIN stageForms' = {"ids", "entities"}
        /\ FormsOfStages'
        /\ \A s \in DOMAIN stageForms'.entities :
             /\ DOMAIN stageForms'.entities[s] = {"values", "errors", "options"}
             /\ stageForms'.entities[s].values \in Values
             /\ stageForms'.entities[s].errors \in BOOLEAN
    BY <1>1, <1>2, AddedFacts
  <1>. DEFINE more == Append(forks[parallel], nextId)
  <1>4. /\ more \in Seq(Id) /\ more # <<>> /\ IsInjective(more)
        /\ ToSet(more) = ToSet(forks[parallel]) \cup {nextId}
    <2>1. forks[parallel] \in Seq(Id) /\ IsInjective(forks[parallel])
      BY <1>2 DEF IInv, TypeOK, EveryStageInOneFork
    <2>2. nextId \notin ToSet(forks[parallel])
      BY <1>2, <1>3 DEF IInv, EveryStageInOneFork
    <2>. QED
      BY <1>2, <2>1, <2>2, AppendOnce
  <1>5. forks' = put(forks, parallel, more)
    BY DEF ADD_STAGE
  <1>. HIDE DEF more
  <1>6. /\ DOMAIN forks' = DOMAIN forks
        /\ forks'[parallel] = more
        /\ \A p \in DOMAIN forks : p # parallel => forks'[p] = forks[p]
    BY <1>2, <1>5 DEF put
  <1>7. TypeOK'
    BY <1>1, <1>3, <1>4, <1>6 DEF IInv, TypeOK
  <1>8. EveryStageInOneFork'
    <2>1. DOMAIN forks' = ToSet(parallels'.ids)
      BY <1>1, <1>6 DEF IInv, EveryStageInOneFork
    <2>2. \A p \in DOMAIN forks' :
            /\ forks'[p] # <<>>
            /\ IsInjective(forks'[p])
            /\ \A s \in ToSet(forks'[p]) :
                 s \in DOMAIN stages'.entities /\ stages'.entities[s].parent = p
      BY <1>2, <1>3, <1>4, <1>6 DEF IInv, EveryStageInOneFork
    <2>3. \A s \in DOMAIN stages'.entities :
            /\ stages'.entities[s].parent \in DOMAIN forks'
            /\ s \in ToSet(forks'[stages'.entities[s].parent])
      BY <1>2, <1>3, <1>4, <1>6 DEF IInv, EveryStageInOneFork
    <2>. QED
      BY <2>1, <2>2, <2>3 DEF EveryStageInOneFork
  <1>9. SelectedExists'
    <2>1. parallel \in ToSet(parallels'.ids) /\ nextId \in ToSet(forks'[parallel])
      BY <1>1, <1>4, <1>6
    <2>2. selected' = <<"stage", nextId>>
      BY DEF ADD_STAGE
    <2>. QED
      BY <2>1, <2>2 DEF SelectedExists, paths
  <1>10. Fresh'
    <2>1. nextId' = nextId + 1 /\ nextId \in Nat
      BY <1>2 DEF ADD_STAGE, Id
    <2>2. \A p \in ToSet(parallels.ids) : p < nextId /\ p \in Nat
      BY DEF IInv, Fresh, TypeOK, ToSet, Id
    <2>. QED
      BY <1>1, <1>3, <2>1, <2>2 DEF Fresh
  <1>. QED
    BY <1>1, <1>3, <1>7, <1>8, <1>9, <1>10 DEF IInv, inStep

-----------------------------------------------------------------------------
(* Steps that take a stage or a parallel out of the graph.                 *)

\* The other parallels stay as they are, in their order.
LEMMA ParallelRemoved ==
  ASSUME IInv, NEW id
  PROVE  /\ DOMAIN remove(parallels, id) = {"ids", "entities"}
         /\ remove(parallels, id).ids \in Seq(Id)
         /\ inStep(remove(parallels, id))
         /\ ToSet(remove(parallels, id).ids) = ToSet(parallels.ids) \ {id}
         /\ DOMAIN remove(parallels, id).entities = DOMAIN parallels.entities \ {id}
         /\ \A x \in DOMAIN parallels.entities :
              x # id => remove(parallels, id).entities[x] = parallels.entities[x]
  <1>1. /\ DOMAIN remove(parallels, id) = {"ids", "entities"}
        /\ remove(parallels, id).ids = without(parallels.ids, id)
        /\ DOMAIN remove(parallels, id).entities = DOMAIN parallels.entities \ {id}
        /\ \A x \in DOMAIN parallels.entities :
             x # id => remove(parallels, id).entities[x] = parallels.entities[x]
    BY DEF remove, Restrict
  <1>2. /\ without(parallels.ids, id) \in Seq(Id)
        /\ IsInjective(without(parallels.ids, id))
        /\ ToSet(without(parallels.ids, id)) = ToSet(parallels.ids) \ {id}
    <2>1. parallels.ids \in Seq(Id) /\ IsInjective(parallels.ids)
      BY DEF IInv, TypeOK, inStep
    <2>. QED
      BY <2>1, WithoutProperties
  <1>3. ToSet(parallels.ids) = DOMAIN parallels.entities
    BY DEF IInv, inStep
  <1>. QED
    BY <1>1, <1>2, <1>3 DEF inStep

LEMMA RemoveStagePreserves ==
  ASSUME IInv, NEW id \in DOMAIN stages.entities,
         REMOVE_STAGE(id, stages.entities[id].parent)
  PROVE  IInv'
  <1>. DEFINE parent == stages.entities[id].parent
              rest == without(forks[parent], id)
  <1>1. parent \in DOMAIN forks /\ parent \in ToSet(parallels.ids) /\ id \in ToSet(forks[parent])
    BY DEF IInv, EveryStageInOneFork
  <1>2. /\ rest \in Seq(Id) /\ IsInjective(rest) /\ ToSet(rest) = ToSet(forks[parent]) \ {id}
    <2>1. forks[parent] \in Seq(Id) /\ IsInjective(forks[parent])
      BY <1>1 DEF IInv, TypeOK, EveryStageInOneFork
    <2>. QED
      BY <2>1, WithoutProperties
  <1>3. forks' = IF rest = <<>> THEN Restrict(forks, DOMAIN forks \ {parent})
                 ELSE [forks EXCEPT ![parent] = rest]
    BY <1>1 DEF REMOVE_STAGE, forksWithout
  <1>4. /\ DOMAIN stages' = {"ids", "entities"}
        /\ DOMAIN stages'.entities = DOMAIN stages.entities \ {id}
        /\ \A s \in DOMAIN stages.entities : s # id => stages'.entities[s] = stages.entities[s]
    BY DEF REMOVE_STAGE, remove, Restrict
  <1>5. /\ DOMAIN stageForms' = {"ids", "entities"}
        /\ DOMAIN stageForms'.entities = DOMAIN stageForms.entities \ {id}
        /\ \A s \in DOMAIN stageForms.entities :
             s # id => stageForms'.entities[s] = stageForms.entities[s]
    BY DEF REMOVE_STAGE, remove, Restrict
  <1>6. /\ selected' = Unselected /\ UNCHANGED <<settingsOk, nextId>>
        /\ parallels' = IF parent \in DOMAIN forks' THEN parallels ELSE remove(parallels, parent)
    BY DEF REMOVE_STAGE
  <1>7. /\ DOMAIN remove(parallels, parent) = {"ids", "entities"}
        /\ remove(parallels, parent).ids \in Seq(Id)
        /\ inStep(remove(parallels, parent))
        /\ ToSet(remove(parallels, parent).ids) = ToSet(parallels.ids) \ {parent}
        /\ DOMAIN remove(parallels, parent).entities = DOMAIN parallels.entities \ {parent}
        /\ \A p \in DOMAIN parallels.entities :
             p # parent => remove(parallels, parent).entities[p] = parallels.entities[p]
    BY ParallelRemoved
  <1>8. \A s \in DOMAIN stages.entities :
          /\ stages.entities[s].parent \in DOMAIN forks
          /\ s \in ToSet(forks[stages.entities[s].parent])
    BY DEF IInv, EveryStageInOneFork
  <1>9. \A p \in DOMAIN forks :
          /\ forks[p] \in Seq(Id) /\ forks[p] # <<>> /\ IsInjective(forks[p])
          /\ \A s \in ToSet(forks[p]) :
               s \in DOMAIN stages.entities /\ stages.entities[s].parent = p
    BY DEF IInv, TypeOK, EveryStageInOneFork
  <1>10. DOMAIN forks = ToSet(parallels.ids) /\ inStep(parallels) /\ DOMAIN parallels = {"ids", "entities"}
         /\ parallels.ids \in Seq(Id)
    BY DEF IInv, TypeOK, EveryStageInOneFork
  <1>11. \A x : ToSet(<<>>) = {}
    BY DEF ToSet
  <1>. HIDE DEF rest
  <1>12. /\ DOMAIN forks' = ToSet(parallels'.ids)
         /\ inStep(parallels')
         /\ DOMAIN parallels' = {"ids", "entities"}
         /\ parallels'.ids \in Seq(Id)
         /\ ToSet(parallels'.ids) \subseteq ToSet(parallels.ids)
         /\ \A p \in DOMAIN parallels'.entities :
              parallels'.entities[p] \in [name : Name \cup {NoName}]
    <2>1. CASE rest = <<>>
      <3>1. DOMAIN forks' = DOMAIN forks \ {parent}
        BY <1>3, <2>1 DEF Restrict
      <3>2. parallels' = remove(parallels, parent)
        BY <1>6, <3>1
      <3>. QED
        BY <1>7, <1>10, <3>1, <3>2 DEF IInv, TypeOK
    <2>2. CASE rest # <<>>
      <3>1. DOMAIN forks' = DOMAIN forks
        BY <1>3, <2>2
      <3>2. parallels' = parallels
        BY <1>1, <1>6, <3>1
      <3>. QED
        BY <1>10, <3>1, <3>2 DEF IInv, TypeOK
    <2>. QED
      BY <2>1, <2>2
  <1>13. /\ \A p \in DOMAIN forks' :
              /\ p \in DOMAIN forks
              /\ forks'[p] # <<>>
              /\ p # parent => forks'[p] = forks[p]
              /\ p = parent => forks'[p] = rest
         /\ \A p \in DOMAIN forks : p # parent => p \in DOMAIN forks'
         /\ rest # <<>> => parent \in DOMAIN forks'
    <2>1. CASE rest = <<>>
      BY <1>3, <1>9, <2>1 DEF Restrict
    <2>2. CASE rest # <<>>
      BY <1>1, <1>3, <1>9, <2>2
    <2>. QED
      BY <2>1, <2>2
  <1>14. EveryStageInOneFork'
    <2>1. ASSUME NEW p \in DOMAIN forks'
          PROVE  /\ forks'[p] # <<>>
                 /\ IsInjective(forks'[p])
                 /\ \A s \in ToSet(forks'[p]) :
                      s \in DOMAIN stages'.entities /\ stages'.entities[s].parent = p
      <3>1. CASE p = parent
        BY <1>2, <1>4, <1>9, <1>13, <3>1
      <3>2. CASE p # parent
        BY <1>4, <1>9, <1>13, <3>2
      <3>. QED
        BY <3>1, <3>2
    <2>2. ASSUME NEW s \in DOMAIN stages'.entities
          PROVE  /\ stages'.entities[s].parent \in DOMAIN forks'
                 /\ s \in ToSet(forks'[stages'.entities[s].parent])
      <3>1. s \in DOMAIN stages.entities /\ s # id /\ stages'.entities[s] = stages.entities[s]
        BY <1>4
      <3>2. CASE stages.entities[s].parent = parent
        <4>1. s \in ToSet(rest)
          BY <1>2, <1>8, <3>1, <3>2
        <4>2. rest # <<>>
          BY <1>11, <4>1
        <4>. QED
          BY <1>13, <3>1, <3>2, <4>1, <4>2
      <3>3. CASE stages.entities[s].parent # parent
        BY <1>8, <1>13, <3>1, <3>3
      <3>. QED
        BY <3>2, <3>3
    <2>. QED
      BY <1>12, <2>1, <2>2 DEF EveryStageInOneFork
  <1>15. \A p \in DOMAIN forks' : forks'[p] \in Seq(Id)
    BY <1>2, <1>9, <1>13
  <1>16. TypeOK'
    BY <1>4, <1>5, <1>6, <1>12, <1>15 DEF IInv, TypeOK
  <1>17. SelectedExists'
    BY <1>6 DEF SelectedExists, paths
  <1>18. Fresh'
    BY <1>4, <1>6, <1>12 DEF IInv, Fresh
  <1>19. FormsOfStages'
    BY <1>4, <1>5 DEF IInv, FormsOfStages
  <1>. QED
    BY <1>12, <1>14, <1>16, <1>17, <1>18, <1>19 DEF IInv

LEMMA RemoveParallelPreserves ==
  ASSUME IInv, NEW id \in ToSet(parallels.ids), REMOVE_PARALLEL(id)
  PROVE  IInv'
  <1>. DEFINE gone == ToSet(forks[id])
  <1>1. /\ DOMAIN stages' = {"ids", "entities"}
        /\ DOMAIN stages'.entities = DOMAIN stages.entities \ gone
        /\ \A s \in DOMAIN stages'.entities : stages'.entities[s] = stages.entities[s]
    BY DEF REMOVE_PARALLEL, removeAll, Restrict
  <1>2. /\ DOMAIN stageForms' = {"ids", "entities"}
        /\ DOMAIN stageForms'.entities = DOMAIN stageForms.entities \ gone
        /\ \A s \in DOMAIN stageForms'.entities : stageForms'.entities[s] = stageForms.entities[s]
    BY DEF REMOVE_PARALLEL, removeAll, Restrict
  <1>3. /\ DOMAIN forks' = DOMAIN forks \ {id}
        /\ \A p \in DOMAIN forks' : forks'[p] = forks[p]
    BY DEF REMOVE_PARALLEL, Restrict
  <1>4. parallels' = remove(parallels, id) /\ selected' = Unselected
        /\ UNCHANGED <<settingsOk, nextId>>
    BY DEF REMOVE_PARALLEL
  <1>5. /\ DOMAIN parallels' = {"ids", "entities"}
        /\ parallels'.ids \in Seq(Id)
        /\ inStep(parallels')
        /\ ToSet(parallels'.ids) = ToSet(parallels.ids) \ {id}
        /\ DOMAIN parallels'.entities = DOMAIN parallels.entities \ {id}
        /\ \A p \in DOMAIN parallels.entities :
             p # id => parallels'.entities[p] = parallels.entities[p]
    BY <1>4, ParallelRemoved
  <1>6. TypeOK'
    BY <1>1, <1>2, <1>3, <1>4, <1>5 DEF IInv, TypeOK
  <1>7. EveryStageInOneFork'
    <2>1. DOMAIN forks' = ToSet(parallels'.ids)
      BY <1>3, <1>5 DEF IInv, EveryStageInOneFork
    <2>2. ASSUME NEW p \in DOMAIN forks'
          PROVE  /\ forks'[p] # <<>>
                 /\ IsInjective(forks'[p])
                 /\ \A s \in ToSet(forks'[p]) :
                      s \in DOMAIN stages'.entities /\ stages'.entities[s].parent = p
      <3>1. id \in DOMAIN forks /\ p \in DOMAIN forks /\ p # id
        BY <1>3 DEF IInv, EveryStageInOneFork
      <3>2. \A s \in ToSet(forks[p]) : s \notin gone
        BY <3>1 DEF IInv, EveryStageInOneFork
      <3>. QED
        BY <1>1, <1>3, <3>1, <3>2 DEF IInv, EveryStageInOneFork
    <2>3. ASSUME NEW s \in DOMAIN stages'.entities
          PROVE  /\ stages'.entities[s].parent \in DOMAIN forks'
                 /\ s \in ToSet(forks'[stages'.entities[s].parent])
      <3>1. s \in DOMAIN stages.entities /\ s \notin gone
        BY <1>1
      <3>2. /\ stages.entities[s].parent \in DOMAIN forks
            /\ s \in ToSet(forks[stages.entities[s].parent])
        BY <3>1 DEF IInv, EveryStageInOneFork
      <3>3. stages.entities[s].parent # id
        BY <3>1, <3>2
      <3>. QED
        BY <1>1, <1>3, <3>2, <3>3
    <2>. QED
      BY <2>1, <2>2, <2>3 DEF EveryStageInOneFork
  <1>8. SelectedExists'
    BY <1>4 DEF SelectedExists, paths
  <1>9. Fresh'
    BY <1>1, <1>4, <1>5 DEF IInv, Fresh
  <1>10. FormsOfStages'
    BY <1>1, <1>2 DEF IInv, FormsOfStages
  <1>. QED
    BY <1>5, <1>6, <1>7, <1>8, <1>9, <1>10 DEF IInv

-----------------------------------------------------------------------------
(* Opening a saved pipeline.                                               *)

\* A set of naturals with a bound has a greatest element.
LEMMA MaxExists ==
  ASSUME NEW S \in SUBSET Nat, S # {}, NEW b \in Nat, \A x \in S : x <= b
  PROVE  /\ Max(S) \in S
         /\ \A x \in S : x <= Max(S)
  <1>. DEFINE T == {b - x : x \in S}
  <1>a. \A x \in S : b - x \in Nat
    OBVIOUS
  <1>b. PICK e \in S : TRUE
    OBVIOUS
  <1>c. b - e \in T
    OBVIOUS
  <1>1. T \subseteq Nat /\ T # {}
    BY <1>a, <1>c
  <1>2. PICK t \in T : \A y \in T : ~ (<<y, t>> \in OpToRel(<, Nat))
    BY <1>1, NatLessThanWellFounded, WFMin
  <1>3. PICK m \in S : t = b - m
    OBVIOUS
  <1>4. ASSUME NEW x \in S
        PROVE  x <= m
    <2>1. b - x \in T /\ b - x \in Nat /\ t \in Nat
      BY <1>1
    <2>2. <<b - x, t>> \in Nat \X Nat /\ ~ (<<b - x, t>> \in OpToRel(<, Nat))
      BY <1>2, <2>1
    <2>3. ~ (b - x < t)
      BY <2>2 DEF OpToRel
    <2>4. x \in Nat /\ m \in Nat
      OBVIOUS
    <2>. HIDE DEF T
    <2>. QED
      BY <1>3, <2>3, <2>4
  <1>5. \E m1 \in S : \A x \in S : m1 >= x
    BY <1>4
  <1>. QED
    BY <1>5 DEF Max

\* Places in different rows have different numbers.
LEMMA RowsDoNotOverlap ==
  ASSUME NEW L \in Nat, NEW k \in Nat, NEW m \in Nat, k < m
  PROVE  k * L + L <= m * L
  <1>1. PICK d \in Nat : m = k + 1 + d
    <2>1. m - k - 1 \in Nat /\ m = k + 1 + (m - k - 1)
      OBVIOUS
    <2>. QED
      BY <2>1
  <1>2. d * L \in Nat
    OBVIOUS
  <1>3. (k + 1 + d) * L = k * L + L + d * L
    BY SMT
  <1>4. k * L \in Nat
    OBVIOUS
  <1>. QED
    BY <1>1, <1>2, <1>3, <1>4

LEMMA PlaceIsUnique ==
  ASSUME NEW L \in Nat, NEW i \in 1 .. L, NEW j \in 1 .. L, NEW k \in Nat, NEW m \in Nat,
         k * L + i = m * L + j
  PROVE  i = j /\ k = m
  <1>1. k * L \in Nat /\ m * L \in Nat
    OBVIOUS
  <1>2. ~ (k < m)
    <2>1. k < m => k * L + L <= m * L
      BY RowsDoNotOverlap
    <2>. QED
      BY <1>1, <2>1
  <1>3. ~ (m < k)
    <2>1. m < k => m * L + L <= k * L
      BY RowsDoNotOverlap
    <2>. QED
      BY <1>1, <2>1
  <1>4. k = m
    BY <1>2, <1>3
  <1>. QED
    BY <1>1, <1>4

\* A fresh store numbers the stages of a saved pipeline row by row.
LEMMA Numbers ==
  ASSUME nextId = 1, NEW flow, NEW L \in Nat, Len(flow) = L
  PROVE  /\ \A i \in 1 .. L, k \in Nat :
              uuidOf(flow, i, k) = k * L + i /\ uuidOf(flow, i, k) \in Id
         /\ \A i \in 1 .. L : uuidOf(flow, i, 0) = i
         /\ \A i, j \in 1 .. L, k, m \in Nat :
              uuidOf(flow, i, k) = uuidOf(flow, j, m) => i = j /\ k = m
  <1>1. ASSUME NEW i \in 1 .. L, NEW k \in Nat
        PROVE  uuidOf(flow, i, k) = k * L + i /\ uuidOf(flow, i, k) \in Id
    <2>1. uuidOf(flow, i, k) = 1 + k * L + i - 1
      BY DEF uuidOf
    <2>. DEFINE r == k * L
    <2>2. r \in Nat
      OBVIOUS
    <2>. HIDE DEF r
    <2>3. uuidOf(flow, i, k) = r + i /\ r + i \in Id
      BY <2>1, <2>2 DEF Id, r
    <2>. QED
      BY <2>3 DEF r
  <1>2. ASSUME NEW i \in 1 .. L
        PROVE  uuidOf(flow, i, 0) = i
    <2>1. uuidOf(flow, i, 0) = 0 * L + i
      BY <1>1
    <2>2. 0 * L = 0
      OBVIOUS
    <2>. QED
      BY <2>1, <2>2
  <1>3. ASSUME NEW i \in 1 .. L, NEW j \in 1 .. L, NEW k \in Nat, NEW m \in Nat,
               uuidOf(flow, i, k) = uuidOf(flow, j, m)
        PROVE  i = j /\ k = m
    <2>1. k * L + i = m * L + j
      BY <1>1, <1>3
    <2>. QED
      BY <2>1, PlaceIsUnique
  <1>. QED
    BY <1>1, <1>2, <1>3

\* The next number is beyond every row.
LEMMA NextNumber ==
  ASSUME nextId = 1, NEW flow, NEW L \in Nat, Len(flow) = L,
         NEW last \in Nat
  PROVE  /\ uuidOf(flow, 1, 1 + last) \in Id
         /\ \A i \in 1 .. L, k \in Nat :
              k <= last => uuidOf(flow, i, k) < uuidOf(flow, 1, 1 + last)
  <1>. DEFINE top == (1 + last) * L
  <1>1. top \in Nat
    OBVIOUS
  <1>2. uuidOf(flow, 1, 1 + last) = 1 + top + 1 - 1
    BY DEF uuidOf
  <1>3. ASSUME NEW i \in 1 .. L, NEW k \in Nat, k <= last
        PROVE  uuidOf(flow, i, k) < 1 + top
    <2>1. k < 1 + last /\ 1 + last \in Nat
      BY <1>3
    <2>2. k * L + L <= top
      BY <2>1, RowsDoNotOverlap
    <2>3. uuidOf(flow, i, k) = k * L + i
      BY Numbers
    <2>4. k * L \in Nat
      OBVIOUS
    <2>. HIDE DEF top
    <2>. QED
      BY <1>1, <2>2, <2>3, <2>4
  <1>. HIDE DEF top
  <1>4. uuidOf(flow, 1, 1 + last) = 1 + top /\ 1 + top \in Id
    BY <1>1, <1>2 DEF Id
  <1>. QED
    BY <1>3, <1>4

\* The rows are as long as the longest group.
LEMMA LongestBounds ==
  ASSUME NEW flow, \A i \in DOMAIN flow : Len(flow[i].tasks) \in 1 .. MaxTasks
  PROVE  /\ longest(flow) \in Nat
         /\ \A i \in DOMAIN flow : Len(flow[i].tasks) <= longest(flow)
  <1>. DEFINE S == {0} \cup {Len(flow[i].tasks) : i \in DOMAIN flow}
  <1>1. MaxTasks \in Nat
    BY PipelineStoreAssumption
  <1>2. S \subseteq Nat /\ S # {} /\ \A x \in S : x <= MaxTasks
    BY <1>1
  <1>3. \A i \in DOMAIN flow : Len(flow[i].tasks) \in S
    OBVIOUS
  <1>4. longest(flow) = Max(S)
    BY DEF longest
  <1>. HIDE DEF S
  <1>5. Max(S) \in S /\ \A x \in S : x <= Max(S)
    BY <1>1, <1>2, MaxExists
  <1>. QED
    BY <1>2, <1>3, <1>4, <1>5

\* What fromDatasource makes of a saved pipeline in a fresh store: the groups
\* are numbered 1 .. L and every stage is in the group that is its parent.
LoadedAs(pipeline, flow, L, loaded) ==
  /\ loaded.parallels.ids = [i \in 1 .. L |-> i]
  /\ loaded.parallels.entities = [i \in 1 .. L |-> [name |-> flow[i].name]]
  /\ loaded.forks = [i \in 1 .. L |-> flowIds(flow, i)]
  /\ DOMAIN loaded.stages.entities = {uuidOf(flow, p[1], p[2]) : p \in places(flow)}
  /\ DOMAIN loaded.stageForms.entities = {uuidOf(flow, p[1], p[2]) : p \in places(flow)}
  /\ \A i \in 1 .. L : \A k \in DOMAIN flow[i].tasks :
       LET id == uuidOf(flow, i, k) IN
       /\ id \in {uuidOf(flow, p[1], p[2]) : p \in places(flow)}
       /\ loaded.stages.entities[id] = [name |-> flow[i].tasks[k], parent |-> i]
       /\ loaded.stageForms.entities[id]
            = snapshot(pipeline.graphValues[flow[i].tasks[k]])
  /\ DOMAIN loaded.parallels = {"ids", "entities"}
  /\ DOMAIN loaded.stages = {"ids", "entities"}
  /\ DOMAIN loaded.stageForms = {"ids", "entities"}
  /\ \A p \in places(flow) : \E i \in 1 .. L : \E k \in DOMAIN flow[i].tasks :
       p[1] = i /\ p[2] = k

LEMMA LoadedGraph ==
  ASSUME nextId = 1, NEW pipeline, SavedPipeline(pipeline),
         NEW flow, flow = pipeline.stages, NEW L \in Nat, Len(flow) = L,
         NEW loaded, loaded = fromDatasource(pipeline)
  PROVE  LoadedAs(pipeline, flow, L, loaded)
  <1>a. flow \in Seq([name : Name \cup {NoName}, tasks : Seq(Name \cup {NoName})])
    BY DEF SavedPipeline
  <1>. DEFINE R == [name : Name \cup {NoName}, tasks : Seq(Name \cup {NoName})]
  <1>b. \A r \in R : r.tasks \in Seq(Name \cup {NoName})
    OBVIOUS
  <1>c. flow \in Seq(R)
    BY <1>a
  <1>. HIDE DEF R
  <1>1. /\ DOMAIN flow = 1 .. L
        /\ \A i \in 1 .. L : flow[i].tasks \in Seq(Name \cup {NoName})
    BY <1>b, <1>c
  <1>2. \A i \in 1 .. L : DOMAIN flow[i].tasks \subseteq Nat
    BY <1>1
  <1>. DEFINE ids == [i \in DOMAIN flow |-> uuidOf(flow, i, 0)]
              drawn == {uuidOf(flow, p[1], p[2]) : p \in places(flow)}
  <1>3. ids = [i \in 1 .. L |-> i]
    <2>1. \A i \in 1 .. L : uuidOf(flow, i, 0) = i
      BY Numbers
    <2>. QED
      BY <1>1, <2>1
  <1>. HIDE DEF ids
  <1>4. ToSet(ids) = 1 .. L
    BY <1>3 DEF ToSet
  <1>5. \A i \in 1 .. L : i - nextId + 1 = i
    OBVIOUS
  <1>6. \A p : p \in places(flow) <=> \E i \in 1 .. L : \E k \in DOMAIN flow[i].tasks : p = <<i, k>>
    BY <1>1 DEF places
  <1>7. ASSUME NEW i \in 1 .. L, NEW k \in DOMAIN flow[i].tasks
        PROVE  /\ <<i, k>> \in places(flow)
               /\ uuidOf(flow, i, k) \in drawn
               /\ placeOf(flow, uuidOf(flow, i, k)) = <<i, k>>
    <2>. DEFINE p == placeOf(flow, uuidOf(flow, i, k))
    <2>1. <<i, k>> \in places(flow)
      BY <1>6
    <2>2. p \in places(flow) /\ uuidOf(flow, p[1], p[2]) = uuidOf(flow, i, k)
      BY <2>1 DEF placeOf
    <2>. HIDE DEF p
    <2>a. PICK j \in 1 .. L : \E m \in DOMAIN flow[j].tasks : p = <<j, m>>
      BY <1>6, <2>2
    <2>3. PICK m \in DOMAIN flow[j].tasks : p = <<j, m>>
      BY <2>a
    <2>4. k \in Nat /\ m \in Nat
      BY <1>2
    <2>5. uuidOf(flow, j, m) = uuidOf(flow, i, k)
      BY <2>2, <2>3
    <2>6. j = i /\ m = k
      BY <2>4, <2>5, Numbers
    <2>7. p = <<i, k>>
      BY <2>3, <2>6
    <2>. QED
      BY <2>1, <2>7 DEF p
  <1>8. /\ loaded.parallels.ids = ids
        /\ loaded.parallels.entities
             = [id \in ToSet(ids) |-> [name |-> flow[id - nextId + 1].name]]
        /\ loaded.forks = [id \in ToSet(ids) |-> flowIds(flow, id - nextId + 1)]
        /\ DOMAIN loaded.parallels = {"ids", "entities"}
        /\ DOMAIN loaded.stages = {"ids", "entities"}
        /\ DOMAIN loaded.stageForms = {"ids", "entities"}
    BY DEF fromDatasource, reset, ids
  <1>9. /\ loaded.stages.entities
             = [id \in drawn |-> [name   |-> flow[placeOf(flow, id)[1]].tasks[placeOf(flow, id)[2]],
                                  parent |-> ids[placeOf(flow, id)[1]]]]
        /\ loaded.stageForms.entities
             = [id \in drawn |-> snapshot(pipeline.graphValues
                  [flow[placeOf(flow, id)[1]].tasks[placeOf(flow, id)[2]]])]
    BY DEF fromDatasource, reset, ids
  <1>. HIDE DEF drawn
  <1>d. \A id \in drawn :
          /\ loaded.stages.entities[id]
               = [name   |-> flow[placeOf(flow, id)[1]].tasks[placeOf(flow, id)[2]],
                  parent |-> ids[placeOf(flow, id)[1]]]
          /\ loaded.stageForms.entities[id]
               = snapshot(pipeline.graphValues
                   [flow[placeOf(flow, id)[1]].tasks[placeOf(flow, id)[2]]])
    BY <1>9
  <1>10. ASSUME NEW i \in 1 .. L, NEW k \in DOMAIN flow[i].tasks
         PROVE  LET id == uuidOf(flow, i, k) IN
                /\ id \in drawn
                /\ loaded.stages.entities[id] = [name |-> flow[i].tasks[k], parent |-> i]
                /\ loaded.stageForms.entities[id]
                     = snapshot(pipeline.graphValues[flow[i].tasks[k]])
    <2>1. ids[i] = i
      BY <1>3
    <2>. DEFINE id == uuidOf(flow, i, k)
    <2>a. id \in drawn /\ placeOf(flow, id) = <<i, k>>
      BY <1>7
    <2>2. id \in drawn /\ placeOf(flow, id)[1] = i /\ placeOf(flow, id)[2] = k
      BY <2>a
    <2>. HIDE DEF id
    <2>3. /\ loaded.stages.entities[id] = [name |-> flow[i].tasks[k], parent |-> i]
          /\ loaded.stageForms.entities[id]
               = snapshot(pipeline.graphValues[flow[i].tasks[k]])
      BY <1>d, <2>1, <2>2
    <2>. QED
      BY <2>2, <2>3 DEF id
  <1>11. \A p \in places(flow) : \E i \in 1 .. L : \E k \in DOMAIN flow[i].tasks :
           p[1] = i /\ p[2] = k
    BY <1>6
  <1>12. /\ loaded.parallels.entities = [i \in 1 .. L |-> [name |-> flow[i].name]]
         /\ loaded.forks = [i \in 1 .. L |-> flowIds(flow, i)]
    BY <1>4, <1>5, <1>8
  <1>13. DOMAIN loaded.stages.entities = drawn /\ DOMAIN loaded.stageForms.entities = drawn
    BY <1>9
  <1>. QED
    BY <1>3, <1>8, <1>10, <1>11, <1>12, <1>13 DEF drawn, LoadedAs

LEMMA FlowIds ==
  ASSUME nextId = 1, NEW flow, NEW L \in Nat, Len(flow) = L, NEW i \in 1 .. L,
         NEW n \in Nat \ {0}, DOMAIN flow[i].tasks = 1 .. n
  PROVE  /\ flowIds(flow, i) \in Seq(Id) /\ flowIds(flow, i) # <<>>
         /\ IsInjective(flowIds(flow, i))
         /\ ToSet(flowIds(flow, i)) = {uuidOf(flow, i, k) : k \in 1 .. n}
  <1>1. flowIds(flow, i) = [k \in 1 .. n |-> uuidOf(flow, i, k)]
    BY DEF flowIds
  <1>2. \A k \in 1 .. n : k \in Nat /\ uuidOf(flow, i, k) \in Id
    <2>. TAKE k \in 1 .. n
    <2>1. k \in Nat
      OBVIOUS
    <2>. QED
      BY <2>1, Numbers
  <1>3. \A k, m \in 1 .. n : uuidOf(flow, i, k) = uuidOf(flow, i, m) => k = m
    BY <1>2, Numbers
  <1>4. flowIds(flow, i) \in Seq(Id) /\ Len(flowIds(flow, i)) = n
    BY <1>1, <1>2
  <1>. QED
    BY <1>1, <1>3, <1>4 DEF IsInjective, ToSet

LEMMA OpenPreserves ==
  ASSUME IInv, Open
  PROVE  IInv'
  <1>1. PICK pipeline \in Pipelines : RESET_PIPELINE(pipeline)
    BY DEF Open
  <1>2. SavedPipeline(pipeline)
    BY PipelineStoreAssumption
  <1>3. nextId = 1 /\ selected' = Unselected /\ settingsOk' = TRUE
    BY <1>1 DEF Open, RESET_PIPELINE
  <1>4. PICK flow : flow = pipeline.stages
    OBVIOUS
  <1>5. PICK L \in Nat : Len(flow) = L /\ DOMAIN flow = 1 .. L
    BY <1>2, <1>4 DEF SavedPipeline
  <1>6. PICK loaded : loaded = fromDatasource(pipeline)
    OBVIOUS
  <1>a. LoadedAs(pipeline, flow, L, loaded)
    BY <1>2, <1>3, <1>4, <1>5, <1>6, LoadedGraph
  <1>7. /\ parallels' = loaded.parallels /\ forks' = loaded.forks
        /\ stages' = loaded.stages /\ stageForms' = loaded.stageForms
        /\ nextId' = uuidOf(flow, 1, 1 + longest(flow))
    BY <1>1, <1>4, <1>6 DEF RESET_PIPELINE
  <1>8. /\ \A i \in 1 .. L : flow[i].tasks \in Seq(Name \cup {NoName})
        /\ \A i \in 1 .. L : flow[i].name \in Name \cup {NoName}
    <2>. DEFINE R == [name : Name \cup {NoName}, tasks : Seq(Name \cup {NoName})]
    <2>1. \A r \in R : r.tasks \in Seq(Name \cup {NoName}) /\ r.name \in Name \cup {NoName}
      OBVIOUS
    <2>2. flow \in Seq(R)
      BY <1>2, <1>4 DEF SavedPipeline
    <2>. HIDE DEF R
    <2>. QED
      BY <1>5, <2>1, <2>2
  <1>9. \A i \in 1 .. L :
          /\ Len(flow[i].tasks) \in 1 .. MaxTasks
          /\ \A k \in DOMAIN flow[i].tasks : readable(pipeline.graphValues[flow[i].tasks[k]])
    BY <1>2, <1>4, <1>5 DEF SavedPipeline
  <1>10. \A i \in 1 .. L : \E n \in Nat \ {0} :
           n = Len(flow[i].tasks) /\ DOMAIN flow[i].tasks = 1 .. n
    BY <1>8, <1>9, PipelineStoreAssumption
  <1>. DEFINE drawn == {uuidOf(flow, p[1], p[2]) : p \in places(flow)}
  <1>11. /\ parallels'.ids = [i \in 1 .. L |-> i]
         /\ parallels'.entities = [i \in 1 .. L |-> [name |-> flow[i].name]]
         /\ forks' = [i \in 1 .. L |-> flowIds(flow, i)]
         /\ DOMAIN stages'.entities = drawn
         /\ DOMAIN stageForms'.entities = drawn
         /\ \A i \in 1 .. L : \A k \in DOMAIN flow[i].tasks :
              LET id == uuidOf(flow, i, k) IN
              /\ id \in drawn
              /\ stages'.entities[id] = [name |-> flow[i].tasks[k], parent |-> i]
              /\ stageForms'.entities[id]
                   = snapshot(pipeline.graphValues[flow[i].tasks[k]])
         /\ DOMAIN parallels' = {"ids", "entities"}
         /\ DOMAIN stages' = {"ids", "entities"}
         /\ DOMAIN stageForms' = {"ids", "entities"}
         /\ \A p \in places(flow) : \E i \in 1 .. L : \E k \in DOMAIN flow[i].tasks :
              p[1] = i /\ p[2] = k
    BY <1>7, <1>a DEF LoadedAs
  <1>12. \A id \in drawn : \E i \in 1 .. L : \E k \in DOMAIN flow[i].tasks :
           id = uuidOf(flow, i, k)
    BY <1>11
  <1>. HIDE DEF drawn
  <1>13. \A i \in 1 .. L : \A k \in DOMAIN flow[i].tasks :
           /\ uuidOf(flow, i, k) \in drawn
           /\ stages'.entities[uuidOf(flow, i, k)].parent = i
           /\ stages'.entities[uuidOf(flow, i, k)] \in [name : Name \cup {NoName}, parent : Id]
    <2>. TAKE i \in 1 .. L
    <2>. TAKE k \in DOMAIN flow[i].tasks
    <2>1. flow[i].tasks[k] \in Name \cup {NoName} /\ i \in Id
      BY <1>8 DEF Id
    <2>2. /\ uuidOf(flow, i, k) \in drawn
          /\ stages'.entities[uuidOf(flow, i, k)] = [name |-> flow[i].tasks[k], parent |-> i]
      BY <1>11
    <2>. QED
      BY <2>1, <2>2
  <1>14. \A i \in 1 .. L :
           /\ forks'[i] = flowIds(flow, i)
           /\ flowIds(flow, i) \in Seq(Id) /\ flowIds(flow, i) # <<>>
           /\ IsInjective(flowIds(flow, i))
           /\ ToSet(flowIds(flow, i)) = {uuidOf(flow, i, k) : k \in DOMAIN flow[i].tasks}
    <2>. TAKE i \in 1 .. L
    <2>1. PICK n \in Nat \ {0} : DOMAIN flow[i].tasks = 1 .. n
      BY <1>10
    <2>2. /\ flowIds(flow, i) \in Seq(Id) /\ flowIds(flow, i) # <<>>
          /\ IsInjective(flowIds(flow, i))
          /\ ToSet(flowIds(flow, i)) = {uuidOf(flow, i, k) : k \in 1 .. n}
      BY <1>3, <1>5, <2>1, FlowIds
    <2>. QED
      BY <1>11, <2>1, <2>2
  <1>15. /\ parallels'.ids \in Seq(Id) /\ IsInjective(parallels'.ids)
         /\ ToSet(parallels'.ids) = 1 .. L
    BY <1>11 DEF IsInjective, ToSet, Id
  <1>16. /\ nextId' \in Id
         /\ \A id \in drawn : id < nextId'
         /\ \A i \in 1 .. L : i < nextId'
    <2>1. /\ longest(flow) \in Nat
          /\ \A i \in 1 .. L : Len(flow[i].tasks) <= longest(flow)
      BY <1>5, <1>9, LongestBounds
    <2>2. /\ uuidOf(flow, 1, 1 + longest(flow)) \in Id
          /\ \A i \in 1 .. L, k \in Nat :
               k <= longest(flow) => uuidOf(flow, i, k) < uuidOf(flow, 1, 1 + longest(flow))
      BY <1>3, <1>5, <2>1, NextNumber
    <2>3. \A i \in 1 .. L : \A k \in DOMAIN flow[i].tasks : k \in Nat /\ k <= longest(flow)
      BY <1>10, <2>1
    <2>4. \A i \in 1 .. L : uuidOf(flow, i, 0) = i /\ 0 \in Nat /\ 0 <= longest(flow)
      BY <1>3, <1>5, <2>1, Numbers
    <2>5. \A i \in 1 .. L : i < nextId'
      BY <1>7, <2>2, <2>4
    <2>6. \A id \in drawn : id < nextId'
      BY <1>7, <1>12, <2>2, <2>3
    <2>. QED
      BY <1>7, <2>2, <2>5, <2>6
  <1>17. \A id \in drawn :
           /\ DOMAIN stageForms'.entities[id] = {"values", "errors", "options"}
           /\ stageForms'.entities[id].values \in Values
           /\ stageForms'.entities[id].errors \in BOOLEAN
    <2>. TAKE id \in drawn
    <2>1. PICK i \in 1 .. L : \E k \in DOMAIN flow[i].tasks : id = uuidOf(flow, i, k)
      BY <1>12
    <2>2. PICK k \in DOMAIN flow[i].tasks : id = uuidOf(flow, i, k)
      BY <2>1
    <2>3. readable(pipeline.graphValues[flow[i].tasks[k]])
      BY <1>9
    <2>4. stageForms'.entities[id] = snapshot(pipeline.graphValues[flow[i].tasks[k]])
      BY <1>11, <2>2
    <2>. QED
      BY <2>3, <2>4, SnapshotForm
  <1>18. inStep(parallels)'
    BY <1>11, <1>15 DEF inStep
  <1>19. TypeOK'
    <2>1. \A id \in DOMAIN stages'.entities :
            stages'.entities[id] \in [name : Name \cup {NoName}, parent : Id]
      BY <1>11, <1>12, <1>13
    <2>2. \A id \in DOMAIN parallels'.entities :
            parallels'.entities[id] \in [name : Name \cup {NoName}]
      BY <1>8, <1>11
    <2>3. \A id \in DOMAIN forks' : forks'[id] \in Seq(Id)
      BY <1>11, <1>14
    <2>. QED
      BY <1>3, <1>11, <1>15, <1>16, <1>17, <2>1, <2>2, <2>3 DEF TypeOK
  <1>20. EveryStageInOneFork'
    <2>1. DOMAIN forks' = ToSet(parallels'.ids) /\ DOMAIN forks' = 1 .. L
      BY <1>11, <1>15
    <2>2. \A p \in 1 .. L :
            /\ forks'[p] # <<>>
            /\ IsInjective(forks'[p])
            /\ \A s \in ToSet(forks'[p]) :
                 s \in DOMAIN stages'.entities /\ stages'.entities[s].parent = p
      BY <1>11, <1>13, <1>14
    <2>3. \A s \in DOMAIN stages'.entities :
            /\ stages'.entities[s].parent \in 1 .. L
            /\ s \in ToSet(forks'[stages'.entities[s].parent])
      <3>. TAKE s \in DOMAIN stages'.entities
      <3>1. PICK i \in 1 .. L : \E k \in DOMAIN flow[i].tasks : s = uuidOf(flow, i, k)
        BY <1>11, <1>12
      <3>2. stages'.entities[s].parent = i
        BY <1>13, <3>1
      <3>. QED
        BY <1>14, <3>1, <3>2
    <2>. QED
      BY <2>1, <2>2, <2>3 DEF EveryStageInOneFork
  <1>21. SelectedExists'
    BY <1>3 DEF SelectedExists, paths
  <1>22. Fresh'
    BY <1>11, <1>15, <1>16 DEF Fresh
  <1>23. FormsOfStages'
    BY <1>11 DEF FormsOfStages
  <1>. QED
    BY <1>18, <1>19, <1>20, <1>21, <1>22, <1>23 DEF IInv

-----------------------------------------------------------------------------
(* The theorems.                                                           *)

LEMMA NextPreserves ==
  ASSUME IInv, [Next]_storeVars
  PROVE  IInv'
  <1>1. CASE Open
    BY <1>1, OpenPreserves
  <1>2. CASE Select
    BY <1>2, SelectPreserves
  <1>3. CASE PickTask
    <2>1. CASE selected[1] = "after" /\ ADD_PARALLEL_BY_STAGE(selected[2])
      BY <2>1, AddParallelPreserves
    <2>2. CASE selected[1] = "of" /\ ADD_STAGE(selected[2])
      BY <2>2, SelectedParallel, AddStagePreserves
    <2>. QED
      BY <1>3, <2>1, <2>2 DEF PickTask
  <1>4. CASE RemoveSelected
    <2>1. CASE /\ selected[1] = "stage"
               /\ REMOVE_STAGE(selected[2], stages.entities[selected[2]].parent)
      BY <2>1, SelectedStage, RemoveStagePreserves
    <2>2. CASE selected[1] = "parallel" /\ REMOVE_PARALLEL(selected[2])
      BY <2>2, SelectedParallel, RemoveParallelPreserves
    <2>. QED
      BY <1>4, <2>1, <2>2 DEF RemoveSelected
  <1>5. CASE Edit
    <2>1. ASSUME selected[1] = "stage", NEW name \in Name \cup {NoName},
                 CHANGE_STAGE_NAME(selected[2], name)
          PROVE  IInv'
      BY <2>1, SelectedStage, StageNamePreserves
    <2>2. ASSUME NEW values \in Values, TRY_CHANGE_STAGE_VALUES(selected[2], values)
          PROVE  IInv'
      BY <2>2, TryChangePreserves
    <2>3. ASSUME selected[1] = "parallel", NEW name \in Name \cup {NoName},
                 CHANGE_PARALLEL_NAME(selected[2], name)
          PROVE  IInv'
      BY <2>3, SelectedParallel, ParallelNamePreserves
    <2>4. ASSUME NEW ok \in BOOLEAN, CHANGE_PIPELINE_SETTINGS(ok)
          PROVE  IInv'
      BY <2>4, SettingsPreserve
    <2>. QED
      BY <1>5, <2>1, <2>2, <2>3, <2>4 DEF Edit
  <1>6. CASE Receive
    BY <1>6, ReceivePreserves
  <1>7. CASE UNCHANGED storeVars
    <2>1. paths' = paths
      BY <1>7 DEF storeVars, paths
    <2>. QED
      BY <1>7, <2>1 DEF storeVars, IInv, TypeOK, inStep, EveryStageInOneFork, SelectedExists,
                        Fresh, FormsOfStages
  <1>. QED
    BY <1>1, <1>2, <1>3, <1>4, <1>5, <1>6, <1>7 DEF Next

LEMMA InvariantHolds == Spec => []IInv
  <1>1. Init => IInv
    BY InitEstablishes
  <1>2. IInv /\ [Next]_storeVars => IInv'
    BY NextPreserves
  <1>. QED
    BY <1>1, <1>2, PTL DEF Spec

\* The state keeps its shape, whatever is typed, clicked or loaded, however
\* many ids and names there are.
THEOREM TypeOKAlways == Spec => []TypeOK
  <1>1. IInv => TypeOK
    BY DEF IInv
  <1>. QED
    BY <1>1, InvariantHolds, PTL

\* The forks always are a partition of the stages over the parallels shown,
\* without an empty part, and every stage names its part: the cascades of
\* internalReducer and the parent that REMOVE_STAGE is given are enough.
THEOREM EveryStageInOneForkAlways == Spec => []EveryStageInOneFork
  <1>1. IInv => EveryStageInOneFork
    BY DEF IInv
  <1>. QED
    BY <1>1, InvariantHolds, PTL

\* The side form is never open for a stage or a parallel that was removed.
THEOREM SelectedExistsAlways == Spec => []SelectedExists
  <1>1. IInv => SelectedExists
    BY DEF IInv
  <1>. QED
    BY <1>1, InvariantHolds, PTL

-----------------------------------------------------------------------------
(* Lists made one step at a time.                                          *)

Once(S) == {s \in Seq(S) : IsInjective(s)}

\* Several ids are taken out of a list that has every id once.
LEMMA WithoutAllProperties ==
  ASSUME NEW S, NEW ids \in Once(S), NEW gone \in Seq(S)
  PROVE  /\ withoutAll(ids, gone) \in Once(S)
         /\ ToSet(withoutAll(ids, gone)) = ToSet(ids) \ ToSet(gone)
  <1>. DEFINE L == Len(gone)
              A == Once(S)
              step == [p \in A \X Nat |->
                         IF p[2] \in 1 .. L THEN without(p[1], gone[p[2]]) ELSE p[1]]
              F(f) == [n \in 0 .. L |->
                         IF n = 0 THEN ids ELSE without(f[n - 1], gone[n])]
              c == CHOOSE f : f = F(f)
  <1>1. L \in Nat /\ DOMAIN gone = 1 .. L
    OBVIOUS
  <1>2. \A s \in A : \A x : without(s, x) \in A /\ ToSet(without(s, x)) = ToSet(s) \ {x}
    BY WithoutProperties DEF Once
  <1>3. step \in [A \X Nat -> A]
    <2>1. \A p \in A \X Nat : p[1] \in A
      OBVIOUS
    <2>. HIDE DEF A, L
    <2>. QED
      BY <1>2, <2>1
  <1>4. PICK g : Recursive(g, L, A, ids, step)
    <2>. HIDE DEF step, L
    <2>. QED
      BY <1>1, <1>3, RecursionExists
  <1>5. g \in [0 .. L -> A] /\ g[0] = ids /\ \A n \in 1 .. L : g[n] = step[<<g[n - 1], n>>]
    BY <1>4 DEF Recursive
  <1>6. \A n \in 1 .. L : g[n] = without(g[n - 1], gone[n])
    <2>1. ASSUME NEW n \in 1 .. L
          PROVE  g[n] = without(g[n - 1], gone[n])
      <3>1. <<g[n - 1], n>> \in A \X Nat
        BY <1>1, <1>5
      <3>. HIDE DEF A
      <3>2. step[<<g[n - 1], n>>] = without(g[n - 1], gone[n])
        BY <3>1
      <3>. QED
        BY <1>5, <3>2
    <2>. QED
      BY <2>1
  <1>7. g = F(g)
    <2>1. \A n \in 0 .. L : g[n] = IF n = 0 THEN ids ELSE without(g[n - 1], gone[n])
      BY <1>1, <1>5, <1>6
    <2>. QED
      BY <1>5, <2>1
  <1>8. c = F(c)
    <2>. HIDE DEF F
    <2>. QED
      BY <1>7
  <1>9. withoutAll(ids, gone) = c[L]
    BY DEF withoutAll
  <1>10. c[0] = ids /\ \A n \in 1 .. L : c[n] = without(c[n - 1], gone[n])
    <2>. HIDE DEF c
    <2>. QED
      BY <1>1, <1>8
  <1>. HIDE DEF c, A
  <1>. DEFINE T == {n \in Nat : n <= L => /\ c[n] \in A
                                          /\ ToSet(c[n]) = ToSet(ids) \ {gone[j] : j \in 1 .. n}}
  <1>11. 0 \in T
    BY <1>10 DEF A
  <1>12. ASSUME NEW n \in T
         PROVE  n + 1 \in T
    <2>1. n \in Nat
      OBVIOUS
    <2>2. CASE n + 1 <= L
      <3>1. PICK m \in 1 .. L : m = n + 1 /\ m - 1 = n
        BY <1>1, <2>1, <2>2
      <3>2. c[n] \in A /\ ToSet(c[n]) = ToSet(ids) \ {gone[j] : j \in 1 .. n}
        BY <1>1, <2>1, <2>2
      <3>3. c[m] = without(c[n], gone[m])
        BY <1>10, <3>1
      <3>4. c[m] \in A /\ ToSet(c[m]) = ToSet(c[n]) \ {gone[m]}
        BY <1>2, <3>2, <3>3
      <3>5. \A j : j \in 1 .. m <=> j \in 1 .. n \/ j = m
        BY <2>1, <3>1
      <3>. HIDE DEF T
      <3>6. {gone[j] : j \in 1 .. m} = {gone[j] : j \in 1 .. n} \cup {gone[m]}
        BY <3>5
      <3>7. ToSet(c[m]) = ToSet(ids) \ {gone[j] : j \in 1 .. m}
        BY <3>2, <3>4, <3>6
      <3>. QED
        BY <2>1, <3>1, <3>4, <3>7 DEF T
    <2>. QED
      BY <1>1, <2>1, <2>2
  <1>13. T = Nat
    <2>. HIDE DEF T
    <2>1. T \in SUBSET Nat
      BY DEF T
    <2>. QED
      BY <1>11, <1>12, <2>1, SetInduction
  <1>14. c[L] \in A /\ ToSet(c[L]) = ToSet(ids) \ {gone[j] : j \in 1 .. L}
    <2>1. L \in T
      BY <1>1, <1>13
    <2>. QED
      BY <1>1, <2>1
  <1>. QED
    BY <1>1, <1>9, <1>14 DEF A, ToSet

\* Two lists that have every element once and none in common, one after the
\* other.
LEMMA JoinedOnce ==
  ASSUME NEW S, NEW s \in Once(S), NEW t \in Once(S), ToSet(s) \cap ToSet(t) = {}
  PROVE  /\ s \o t \in Once(S)
         /\ ToSet(s \o t) = ToSet(s) \cup ToSet(t)
  <1>1. /\ s \in Seq(S) /\ t \in Seq(S)
        /\ \A i, j \in 1 .. Len(s) : s[i] = s[j] => i = j
        /\ \A i, j \in 1 .. Len(t) : t[i] = t[j] => i = j
    BY DEF Once, IsInjective
  <1>2. /\ s \o t \in Seq(S) /\ Len(s \o t) = Len(s) + Len(t)
        /\ \A i \in 1 .. Len(s) + Len(t) :
             (s \o t)[i] = IF i <= Len(s) THEN s[i] ELSE t[i - Len(s)]
    BY <1>1, ConcatProperties
  <1>3. \A i \in 1 .. Len(s), j \in 1 .. Len(t) : s[i] # t[j]
    BY <1>1 DEF ToSet
  <1>4. \A i \in 1 .. Len(s) + Len(t) : i > Len(s) => i - Len(s) \in 1 .. Len(t)
    BY <1>1
  <1>. DEFINE u == s \o t
  <1>5. ASSUME NEW i \in 1 .. Len(s) + Len(t), NEW j \in 1 .. Len(s) + Len(t), u[i] = u[j]
        PROVE  i = j
    <2>1. CASE i <= Len(s) /\ j <= Len(s)
      BY <1>1, <1>2, <1>5, <2>1
    <2>2. CASE i > Len(s) /\ j > Len(s)
      <3>1. i - Len(s) = j - Len(s)
        BY <1>1, <1>2, <1>4, <1>5, <2>2
      <3>. QED
        BY <1>1, <3>1
    <2>3. CASE i <= Len(s) /\ j > Len(s)
      BY <1>1, <1>2, <1>3, <1>4, <1>5, <2>3
    <2>4. CASE i > Len(s) /\ j <= Len(s)
      BY <1>1, <1>2, <1>3, <1>4, <1>5, <2>4
    <2>. QED
      BY <1>1, <2>1, <2>2, <2>3, <2>4
  <1>6. IsInjective(u)
    BY <1>2, <1>5 DEF IsInjective
  <1>7. ToSet(u) \subseteq ToSet(s) \cup ToSet(t)
    BY <1>1, <1>2, <1>4 DEF ToSet
  <1>8. ASSUME NEW i \in 1 .. Len(s)
        PROVE  s[i] \in ToSet(u)
    BY <1>1, <1>2 DEF ToSet
  <1>9. ASSUME NEW i \in 1 .. Len(t)
        PROVE  t[i] \in ToSet(u)
    <2>1. i + Len(s) \in 1 .. Len(s) + Len(t) /\ ~ (i + Len(s) <= Len(s))
          /\ (i + Len(s)) - Len(s) = i
      BY <1>1
    <2>2. u[i + Len(s)] = t[i]
      BY <1>2, <2>1
    <2>. QED
      BY <1>2, <2>1, <2>2 DEF ToSet
  <1>10. ToSet(u) = ToSet(s) \cup ToSet(t)
    <2>1. \A x \in ToSet(s) : \E i \in 1 .. Len(s) : x = s[i]
      BY <1>1 DEF ToSet
    <2>2. \A x \in ToSet(t) : \E i \in 1 .. Len(t) : x = t[i]
      BY <1>1 DEF ToSet
    <2>. HIDE DEF u
    <2>. QED
      BY <1>7, <1>8, <1>9, <2>1, <2>2
  <1>. QED
    BY <1>2, <1>6, <1>10 DEF Once

\* The stages of a saved pipeline are listed once each.
LEMMA FlowStagesOnce ==
  ASSUME nextId = 1, NEW flow, NEW L \in Nat, Len(flow) = L,
         \A i \in 1 .. L : \E n \in Nat \ {0} : DOMAIN flow[i].tasks = 1 .. n
  PROVE  /\ flowStages(flow) \in Once(Id)
         /\ \A id : id \in ToSet(flowStages(flow))
              <=> \E i \in 1 .. L : \E k \in DOMAIN flow[i].tasks : id = uuidOf(flow, i, k)
  <1>. DEFINE A == Once(Id)
              In(n) == {id \in Id : \E i \in 1 .. n : \E k \in DOMAIN flow[i].tasks :
                                      id = uuidOf(flow, i, k)}
              step == [p \in Seq(Id) \X Nat |->
                         IF p[2] \in 1 .. L THEN p[1] \o flowIds(flow, p[2]) ELSE p[1]]
              F(f) == [n \in 0 .. L |->
                         IF n = 0 THEN <<>> ELSE f[n - 1] \o flowIds(flow, n)]
              c == CHOOSE f : f = F(f)
  <1>0. \A h, j \in 1 .. L, a, b \in Nat : uuidOf(flow, h, a) = uuidOf(flow, j, b) => h = j
    <2>. HIDE DEF c, F, step, In, A
    <2>1. ASSUME NEW h \in 1 .. L, NEW j \in 1 .. L, NEW a \in Nat, NEW b \in Nat,
                 uuidOf(flow, h, a) = uuidOf(flow, j, b)
          PROVE  h = j
      BY <2>1, Numbers, SMTT(20)
    <2>. QED
      BY <2>1
  <1>1. \A i \in 1 .. L : DOMAIN flow[i].tasks \subseteq Nat
    OBVIOUS
  <1>2. \A i \in 1 .. L : \A k \in DOMAIN flow[i].tasks : uuidOf(flow, i, k) \in Id
    BY <1>1, Numbers
  <1>3. \A i \in 1 .. L :
          /\ flowIds(flow, i) \in Once(Id)
          /\ ToSet(flowIds(flow, i)) = {uuidOf(flow, i, k) : k \in DOMAIN flow[i].tasks}
    <2>. TAKE i \in 1 .. L
    <2>1. PICK n \in Nat \ {0} : DOMAIN flow[i].tasks = 1 .. n
      OBVIOUS
    <2>2. /\ flowIds(flow, i) \in Seq(Id) /\ IsInjective(flowIds(flow, i))
          /\ ToSet(flowIds(flow, i)) = {uuidOf(flow, i, k) : k \in 1 .. n}
      BY <2>1, FlowIds
    <2>. QED
      BY <2>1, <2>2 DEF Once
  <1>4. step \in [Seq(Id) \X Nat -> Seq(Id)]
    <2>1. ASSUME NEW p \in Seq(Id) \X Nat
          PROVE  (IF p[2] \in 1 .. L THEN p[1] \o flowIds(flow, p[2]) ELSE p[1]) \in Seq(Id)
      <3>1. p[1] \in Seq(Id)
        OBVIOUS
      <3>2. CASE p[2] \in 1 .. L
        <4>1. flowIds(flow, p[2]) \in Seq(Id)
          BY <1>3, <3>2 DEF Once
        <4>. QED
          BY <3>1, <3>2, <4>1
      <3>. QED
        BY <3>1, <3>2
    <2>. QED
      BY <2>1
  <1>5. PICK g : Recursive(g, L, Seq(Id), <<>>, step)
    <2>1. <<>> \in Seq(Id)
      OBVIOUS
    <2>. HIDE DEF step
    <2>. QED
      BY <1>4, <2>1, RecursionExists
  <1>6. g \in [0 .. L -> Seq(Id)] /\ g[0] = <<>> /\ \A n \in 1 .. L : g[n] = step[<<g[n - 1], n>>]
    BY <1>5 DEF Recursive
  <1>7. \A n \in 1 .. L : g[n] = g[n - 1] \o flowIds(flow, n)
    <2>1. ASSUME NEW n \in 1 .. L
          PROVE  g[n] = g[n - 1] \o flowIds(flow, n)
      <3>1. <<g[n - 1], n>> \in Seq(Id) \X Nat
        BY <1>6
      <3>2. step[<<g[n - 1], n>>] = g[n - 1] \o flowIds(flow, n)
        BY <3>1
      <3>. QED
        BY <1>6, <3>2
    <2>. QED
      BY <2>1
  <1>8. c = F(c)
    <2>1. ASSUME NEW n \in 0 .. L
          PROVE  g[n] = IF n = 0 THEN <<>> ELSE g[n - 1] \o flowIds(flow, n)
      <3>1. CASE n = 0
        BY <1>6, <3>1
      <3>2. CASE n \in 1 .. L
        <4>1. n # 0
          BY <3>2
        <4>. QED
          BY <1>7, <3>2, <4>1, Zenon
      <3>3. n = 0 \/ n \in 1 .. L
        OBVIOUS
      <3>. QED
        BY <3>1, <3>2, <3>3, Zenon
    <2>2. g = F(g)
      BY <1>6, <2>1
    <2>. HIDE DEF F
    <2>. QED
      BY <2>2
  <1>9. flowStages(flow) = c[L]
    BY DEF flowStages
  <1>10. c[0] = <<>> /\ \A n \in 1 .. L : c[n] = c[n - 1] \o flowIds(flow, n)
    <2>. HIDE DEF c
    <2>1. 0 \in 0 .. L /\ \A n \in 1 .. L : n \in 0 .. L /\ n # 0
      OBVIOUS
    <2>2. c[0] = <<>>
      BY <1>8, <2>1
    <2>3. ASSUME NEW n \in 1 .. L
          PROVE  c[n] = c[n - 1] \o flowIds(flow, n)
      BY <1>8, <2>1, Zenon
    <2>. QED
      BY <2>2, <2>3
  <1>. HIDE DEF c, A
  <1>. DEFINE T == {n \in Nat : n <= L => c[n] \in A /\ ToSet(c[n]) = In(n)}
  <1>11. 0 \in T
    <2>1. <<>> \in A /\ ToSet(<<>>) = {}
      BY DEF A, Once, IsInjective, ToSet
    <2>2. In(0) = {}
      OBVIOUS
    <2>. HIDE DEF In
    <2>. QED
      BY <1>10, <2>1, <2>2
  <1>12. ASSUME NEW n \in T
         PROVE  n + 1 \in T
    <2>1. n \in Nat
      OBVIOUS
    <2>2. CASE n + 1 <= L
      <3>1. PICK m \in 1 .. L : m = n + 1 /\ m - 1 = n
        BY <2>1, <2>2
      <3>2. c[n] \in A /\ ToSet(c[n]) = In(n)
        <4>1. n <= L
          BY <2>1, <2>2
        <4>. HIDE DEF In
        <4>. QED
          BY <4>1
      <3>3. c[m] = c[n] \o flowIds(flow, m)
        BY <1>10, <3>1
      <3>. HIDE DEF T
      <3>4. ToSet(c[n]) \cap ToSet(flowIds(flow, m)) = {}
        <4>1. ASSUME NEW i \in 1 .. n, NEW k \in DOMAIN flow[i].tasks,
                     NEW q \in DOMAIN flow[m].tasks, uuidOf(flow, i, k) = uuidOf(flow, m, q)
              PROVE  FALSE
          <5>1. i \in 1 .. L /\ i # m
            BY <2>1, <3>1
          <5>2. k \in Nat /\ q \in Nat
            BY <1>1, <5>1
          <5>3. m \in 1 .. L
            OBVIOUS
          <5>. HIDE DEF c, F, In, A
          <5>. QED
            BY <1>0, <4>1, <5>1, <5>2, <5>3, Zenon
        <4>. QED
          BY <1>3, <3>2, <4>1
      <3>5. c[m] \in A /\ ToSet(c[m]) = In(n) \cup ToSet(flowIds(flow, m))
        BY <1>3, <3>2, <3>3, <3>4, JoinedOnce DEF A
      <3>6. In(n) \cup ToSet(flowIds(flow, m)) = In(m)
        <4>1. \A i : i \in 1 .. m <=> i \in 1 .. n \/ i = m
          BY <2>1, <3>1
        <4>2. ToSet(flowIds(flow, m)) = {id \in Id : \E k \in DOMAIN flow[m].tasks : id = uuidOf(flow, m, k)}
          BY <1>2, <1>3
        <4>. QED
          BY <4>1, <4>2
      <3>. QED
        BY <2>1, <3>1, <3>5, <3>6 DEF T
    <2>. QED
      BY <2>1, <2>2
  <1>13. T = Nat
    <2>. HIDE DEF T
    <2>1. T \in SUBSET Nat
      BY DEF T
    <2>. QED
      BY <1>11, <1>12, <2>1, SetInduction
  <1>14. c[L] \in A /\ ToSet(c[L]) = In(L)
    <2>1. L \in T
      BY <1>13
    <2>. QED
      BY <2>1
  <1>. QED
    BY <1>2, <1>9, <1>14 DEF A

-----------------------------------------------------------------------------
(* The stages are listed as they are kept.                                 *)

Listed ==
  /\ stages.ids \in Seq(Id)
  /\ inStep(stages)
  /\ stageForms.ids = stages.ids
  /\ inStep(stageForms)

\* Forms that have changed, or a name, leave the lists alone.
LEMMA SameLists ==
  ASSUME Listed, stages'.ids = stages.ids, stageForms'.ids = stageForms.ids,
         DOMAIN stages'.entities = DOMAIN stages.entities,
         DOMAIN stageForms'.entities = DOMAIN stageForms.entities
  PROVE  Listed'
  BY DEF Listed, inStep

LEMMA OpenLists ==
  ASSUME IInv, Open
  PROVE  Listed'
  <1>1. PICK pipeline \in Pipelines : RESET_PIPELINE(pipeline)
    BY DEF Open
  <1>2. SavedPipeline(pipeline) /\ nextId = 1
    BY PipelineStoreAssumption DEF Open
  <1>3. PICK flow : flow = pipeline.stages
    OBVIOUS
  <1>4. PICK L \in Nat : Len(flow) = L /\ DOMAIN flow = 1 .. L
    BY <1>2, <1>3 DEF SavedPipeline
  <1>5. PICK loaded : loaded = fromDatasource(pipeline)
    OBVIOUS
  <1>6. LoadedAs(pipeline, flow, L, loaded)
    BY <1>2, <1>3, <1>4, <1>5, LoadedGraph
  <1>7. stages' = loaded.stages /\ stageForms' = loaded.stageForms
    BY <1>1, <1>5 DEF RESET_PIPELINE
  <1>8. loaded.stages.ids = flowStages(flow) /\ loaded.stageForms.ids = flowStages(flow)
    BY <1>3, <1>5 DEF fromDatasource, reset
  <1>9. \A i \in 1 .. L : \E n \in Nat \ {0} : DOMAIN flow[i].tasks = 1 .. n
    <2>. DEFINE R == [name : Name \cup {NoName}, tasks : Seq(Name \cup {NoName})]
    <2>1. \A r \in R : r.tasks \in Seq(Name \cup {NoName})
      OBVIOUS
    <2>2. flow \in Seq(R)
      BY <1>2, <1>3 DEF SavedPipeline
    <2>. HIDE DEF R
    <2>3. \A i \in 1 .. L : flow[i].tasks \in Seq(Name \cup {NoName})
      BY <1>4, <2>1, <2>2
    <2>4. \A i \in 1 .. L : Len(flow[i].tasks) \in 1 .. MaxTasks
      BY <1>2, <1>3, <1>4 DEF SavedPipeline
    <2>. QED
      BY <2>3, <2>4, PipelineStoreAssumption
  <1>10. /\ flowStages(flow) \in Once(Id)
         /\ \A id : id \in ToSet(flowStages(flow))
              <=> \E i \in 1 .. L : \E k \in DOMAIN flow[i].tasks : id = uuidOf(flow, i, k)
    BY <1>2, <1>4, <1>9, FlowStagesOnce
  <1>. DEFINE drawn == {uuidOf(flow, p[1], p[2]) : p \in places(flow)}
  <1>11. /\ DOMAIN loaded.stages.entities = drawn
         /\ DOMAIN loaded.stageForms.entities = drawn
         /\ \A i \in 1 .. L : \A k \in DOMAIN flow[i].tasks : uuidOf(flow, i, k) \in drawn
         /\ \A p \in places(flow) : \E i \in 1 .. L : \E k \in DOMAIN flow[i].tasks :
              p[1] = i /\ p[2] = k
    BY <1>6 DEF LoadedAs
  <1>12. \A id \in drawn : \E i \in 1 .. L : \E k \in DOMAIN flow[i].tasks :
           id = uuidOf(flow, i, k)
    BY <1>11
  <1>. HIDE DEF drawn
  <1>13. ToSet(flowStages(flow)) = drawn
    <2>. DEFINE listed == ToSet(flowStages(flow))
    <2>1. \A id : id \in listed
            <=> \E i \in 1 .. L : \E k \in DOMAIN flow[i].tasks : id = uuidOf(flow, i, k)
      BY <1>10
    <2>. HIDE DEF listed
    <2>2. \A id \in listed : id \in drawn
      BY <1>11, <2>1
    <2>3. \A id \in drawn : id \in listed
      BY <1>12, <2>1
    <2>4. listed = drawn
      BY <2>2, <2>3
    <2>. QED
      BY <2>4 DEF listed
  <1>. QED
    BY <1>7, <1>8, <1>10, <1>11, <1>13 DEF Listed, inStep, Once

LEMMA AddedLists ==
  ASSUME IInv, Listed, NEW parent \in Id, Added(parent)
  PROVE  Listed'
  <1>1. nextId \in Id /\ nextId \notin DOMAIN stages.entities
    BY DEF IInv, TypeOK, Fresh, Id
  <1>2. /\ stages.ids \in Seq(Id) /\ IsInjective(stages.ids)
        /\ ToSet(stages.ids) = DOMAIN stages.entities
        /\ stageForms.ids = stages.ids
        /\ DOMAIN stageForms.entities = DOMAIN stages.entities
    BY DEF Listed, inStep
  <1>3. /\ stages'.ids = Append(stages.ids, nextId)
        /\ DOMAIN stages'.entities = DOMAIN stages.entities \cup {nextId}
        /\ stageForms'.ids = Append(stageForms.ids, nextId)
        /\ DOMAIN stageForms'.entities = DOMAIN stageForms.entities \cup {nextId}
    BY DEF Added, append, put
  <1>4. /\ Append(stages.ids, nextId) \in Seq(Id)
        /\ IsInjective(Append(stages.ids, nextId))
        /\ ToSet(Append(stages.ids, nextId)) = ToSet(stages.ids) \cup {nextId}
    BY <1>1, <1>2, AppendOnce
  <1>. QED
    BY <1>2, <1>3, <1>4 DEF Listed, inStep

LEMMA RemoveStageLists ==
  ASSUME Listed, NEW id, NEW parent, REMOVE_STAGE(id, parent)
  PROVE  Listed'
  <1>1. /\ stages.ids \in Seq(Id) /\ IsInjective(stages.ids)
        /\ ToSet(stages.ids) = DOMAIN stages.entities
        /\ stageForms.ids = stages.ids
        /\ DOMAIN stageForms.entities = DOMAIN stages.entities
    BY DEF Listed, inStep
  <1>2. /\ stages'.ids = without(stages.ids, id)
        /\ DOMAIN stages'.entities = DOMAIN stages.entities \ {id}
        /\ stageForms'.ids = without(stageForms.ids, id)
        /\ DOMAIN stageForms'.entities = DOMAIN stageForms.entities \ {id}
    BY DEF REMOVE_STAGE, remove, Restrict
  <1>3. /\ without(stages.ids, id) \in Seq(Id)
        /\ IsInjective(without(stages.ids, id))
        /\ ToSet(without(stages.ids, id)) = ToSet(stages.ids) \ {id}
    BY <1>1, WithoutProperties
  <1>. QED
    BY <1>1, <1>2, <1>3 DEF Listed, inStep

LEMMA RemoveParallelLists ==
  ASSUME IInv, Listed, NEW id \in ToSet(parallels.ids), REMOVE_PARALLEL(id)
  PROVE  Listed'
  <1>1. /\ stages.ids \in Once(Id)
        /\ ToSet(stages.ids) = DOMAIN stages.entities
        /\ stageForms.ids = stages.ids
        /\ DOMAIN stageForms.entities = DOMAIN stages.entities
    BY DEF Listed, inStep, Once
  <1>2. forks[id] \in Seq(Id)
    BY DEF IInv, TypeOK, EveryStageInOneFork
  <1>3. /\ stages'.ids = withoutAll(stages.ids, forks[id])
        /\ DOMAIN stages'.entities = DOMAIN stages.entities \ ToSet(forks[id])
        /\ stageForms'.ids = withoutAll(stageForms.ids, forks[id])
        /\ DOMAIN stageForms'.entities = DOMAIN stageForms.entities \ ToSet(forks[id])
    BY DEF REMOVE_PARALLEL, removeAll, Restrict
  <1>4. /\ withoutAll(stages.ids, forks[id]) \in Once(Id)
        /\ ToSet(withoutAll(stages.ids, forks[id])) = ToSet(stages.ids) \ ToSet(forks[id])
    BY <1>1, <1>2, WithoutAllProperties
  <1>. QED
    BY <1>1, <1>3, <1>4 DEF Listed, inStep, Once

LEMMA NextLists ==
  ASSUME IInv, Listed, [Next]_storeVars
  PROVE  Listed'
  <1>1. CASE Open
    BY <1>1, OpenLists
  <1>2. CASE Select \/ UNCHANGED storeVars
    BY <1>2, SameLists DEF Select, SELECT, storeVars
  <1>3. CASE PickTask
    <2>1. CASE ADD_PARALLEL_BY_STAGE(selected[2])
      <3>1. nextId \in Id /\ Added(nextId)
        BY <2>1 DEF ADD_PARALLEL_BY_STAGE, Added, IInv, TypeOK
      <3>. QED
        BY <3>1, AddedLists
    <2>2. CASE selected[1] = "of" /\ ADD_STAGE(selected[2])
      <3>1. selected[2] \in Id
        BY <2>2, SelectedParallel DEF IInv, TypeOK, ToSet
      <3>2. Added(selected[2])
        BY <2>2 DEF ADD_STAGE, Added
      <3>. QED
        BY <3>1, <3>2, AddedLists
    <2>. QED
      BY <1>3, <2>1, <2>2 DEF PickTask
  <1>4. CASE RemoveSelected
    <2>1. CASE selected[1] = "stage" /\ REMOVE_STAGE(selected[2], stages.entities[selected[2]].parent)
      BY <2>1, RemoveStageLists
    <2>2. CASE selected[1] = "parallel" /\ REMOVE_PARALLEL(selected[2])
      BY <2>2, SelectedParallel, RemoveParallelLists
    <2>. QED
      BY <1>4, <2>1, <2>2 DEF RemoveSelected
  <1>5. CASE Edit
    <2>1. ASSUME selected[1] = "stage", NEW name \in Name \cup {NoName},
                 CHANGE_STAGE_NAME(selected[2], name)
          PROVE  Listed'
      <3>1. selected[2] \in DOMAIN stages.entities
        BY <2>1, SelectedStage
      <3>2. stages'.ids = stages.ids /\ UNCHANGED stageForms
            /\ DOMAIN stages'.entities = DOMAIN stages.entities \cup {selected[2]}
        BY <2>1 DEF CHANGE_STAGE_NAME, update, put, IInv, TypeOK
      <3>. QED
        BY <3>1, <3>2, SameLists
    <2>2. ASSUME NEW values \in Values, TRY_CHANGE_STAGE_VALUES(selected[2], values)
          PROVE  Listed'
      <3>1. PICK now, errors, affected : CHANGE_STAGE_VALUES(selected[2], now, errors, affected)
        BY <2>2 DEF TRY_CHANGE_STAGE_VALUES
      <3>2. /\ UNCHANGED stages /\ stageForms'.ids = stageForms.ids
            /\ DOMAIN stageForms'.entities = DOMAIN stageForms.entities
        BY <3>1 DEF CHANGE_STAGE_VALUES, update, put, IInv, TypeOK
      <3>. QED
        BY <3>2, SameLists
    <2>3. ASSUME NEW name, CHANGE_PARALLEL_NAME(selected[2], name)
          PROVE  Listed'
      BY <2>3, SameLists DEF CHANGE_PARALLEL_NAME
    <2>4. ASSUME NEW ok, CHANGE_PIPELINE_SETTINGS(ok)
          PROVE  Listed'
      BY <2>4, SameLists DEF CHANGE_PIPELINE_SETTINGS
    <2>. QED
      BY <1>5, <2>1, <2>2, <2>3, <2>4 DEF Edit
  <1>6. CASE Receive
    <2>1. PICK id \in DOMAIN stageForms.entities : \E items : RECEIVE_STAGE_OPTIONS(id, items)
      BY <1>6 DEF Receive
    <2>2. /\ UNCHANGED stages /\ stageForms'.ids = stageForms.ids
          /\ DOMAIN stageForms'.entities = DOMAIN stageForms.entities
      BY <2>1 DEF RECEIVE_STAGE_OPTIONS, update, put, IInv, TypeOK
    <2>. QED
      BY <2>2, SameLists
  <1>. QED
    BY <1>1, <1>2, <1>3, <1>4, <1>5, <1>6 DEF Next

LEMMA ListedHolds == Spec => []Listed
  <1>1. Init => Listed
    <2>1. <<>> \in Seq(Id) /\ IsInjective(<<>>) /\ ToSet(<<>>) = DOMAIN <<>>
      BY DEF IsInjective, ToSet
    <2>. QED
      BY <2>1 DEF Init, emptyState, Listed, inStep
  <1>2. IInv /\ Listed /\ [Next]_storeVars => Listed'
    BY NextLists
  <1>. QED
    BY <1>1, <1>2, InvariantHolds, PTL DEF Spec

\* Every slice lists what it keeps, each once, and the stages and their forms
\* come and go together, also when a parallel is removed with all its stages
\* or a pipeline of any size is opened.
THEOREM EntitiesInStepAlways == Spec => []EntitiesInStep
  <1>1. IInv /\ Listed => EntitiesInStep
    BY DEF IInv, Listed, EntitiesInStep
  <1>. QED
    BY <1>1, InvariantHolds, ListedHolds, PTL

-----------------------------------------------------------------------------
(* The fields a change affects.                                            *)

\* One more step along the related fields.
onward(changed, S) == UNION {affectFields(f) : f \in changed \cup S}

\* The recursion of getAllAffected, step by step.
LEMMA AffectedSteps ==
  ASSUME NEW changed \in SUBSET Field
  PROVE  \E c : /\ allAffected(changed) = Field \cap c[Cardinality(Field)]
               /\ c[0] = {}
               /\ \A n \in 1 .. Cardinality(Field) : c[n] = onward(changed, c[n - 1])
  <1>. DEFINE N == Cardinality(Field)
              A == SUBSET Field
              step == [p \in A \X Nat |-> onward(changed, p[1])]
              F(f) == [n \in 0 .. N |->
                         IF n = 0 THEN {} ELSE UNION {affectFields(g) : g \in changed \cup f[n - 1]}]
              c == CHOOSE f : f = F(f)
  <1>1. N \in Nat /\ IsFiniteSet(Field)
    BY DynamicFormAssumption, FS_CardinalityType
  <1>2. \A S \in A : onward(changed, S) \in A
    BY DEF onward, affectFields
  <1>3. step \in [A \X Nat -> A]
    <2>1. \A p \in A \X Nat : p[1] \in A
      OBVIOUS
    <2>. HIDE DEF A
    <2>. QED
      BY <1>2, <2>1
  <1>4. PICK g : Recursive(g, N, A, {}, step)
    <2>1. {} \in A
      OBVIOUS
    <2>. HIDE DEF step, N, A
    <2>. QED
      BY <1>1, <1>3, <2>1, RecursionExists
  <1>5. g \in [0 .. N -> A] /\ g[0] = {} /\ \A n \in 1 .. N : g[n] = step[<<g[n - 1], n>>]
    BY <1>4 DEF Recursive
  <1>. HIDE DEF A, N
  <1>6. \A n \in 1 .. N : g[n] = onward(changed, g[n - 1])
    <2>1. ASSUME NEW n \in 1 .. N
          PROVE  g[n] = onward(changed, g[n - 1])
      <3>1. <<g[n - 1], n>> \in A \X Nat
        BY <1>1, <1>5
      <3>2. step[<<g[n - 1], n>>] = onward(changed, g[n - 1])
        BY <3>1
      <3>. QED
        BY <1>5, <3>2
    <2>. QED
      BY <2>1
  <1>7. c = F(c)
    <2>1. ASSUME NEW n \in 0 .. N
          PROVE  g[n] = IF n = 0 THEN {} ELSE UNION {affectFields(f) : f \in changed \cup g[n - 1]}
      <3>1. n = 0 \/ n \in 1 .. N
        BY <1>1
      <3>. QED
        BY <1>5, <1>6, <3>1 DEF onward
    <2>2. g = F(g)
      BY <1>5, <2>1
    <2>. HIDE DEF F
    <2>. QED
      BY <2>2
  <1>8. allAffected(changed) = Field \cap c[N]
    BY DEF allAffected, N
  <1>9. c[0] = {} /\ \A n \in 1 .. N : c[n] = onward(changed, c[n - 1])
    <2>. HIDE DEF c
    <2>1. 0 \in 0 .. N /\ \A n \in 1 .. N : n \in 0 .. N /\ n # 0
      BY <1>1
    <2>2. c[0] = {}
      BY <1>7, <2>1
    <2>3. ASSUME NEW n \in 1 .. N
          PROVE  c[n] = UNION {affectFields(f) : f \in changed \cup c[n - 1]}
      BY <1>7, <2>1, Zenon
    <2>. QED
      BY <2>2, <2>3 DEF onward
  <1>. QED
    BY <1>8, <1>9 DEF N

\* The recursion of getAllAffected has gone far enough after as many steps as
\* there are fields: what it reaches is the whole chain.
LEMMA AffectedClosed ==
  ASSUME NEW changed \in SUBSET Field
  PROVE  /\ allAffected(changed) \subseteq Field
         /\ onward(changed, allAffected(changed)) = allAffected(changed)
  <1>. DEFINE N == Cardinality(Field)
              A == SUBSET Field
  <1>1. N \in Nat /\ IsFiniteSet(Field)
    BY DynamicFormAssumption, FS_CardinalityType
  <1>2. \A S \in A : onward(changed, S) \in A
    BY DEF onward, affectFields
  <1>8. PICK c : /\ allAffected(changed) = Field \cap c[N]
                 /\ c[0] = {}
                 /\ \A n \in 1 .. N : c[n] = onward(changed, c[n - 1])
    BY AffectedSteps
  <1>9. c[0] = {} /\ \A n \in 1 .. N : c[n] = onward(changed, c[n - 1])
    BY <1>8
  <1>. HIDE DEF A, N
  <1>. DEFINE T == {n \in Nat : n <= N =>
                      /\ c[n] \in A
                      /\ c[n] \subseteq onward(changed, c[n])
                      /\ onward(changed, c[n]) = c[n] \/ n <= Cardinality(c[n])}
  <1>10. 0 \in T
    <2>1. {} \in A /\ Cardinality({}) = 0
      BY FS_EmptySet DEF A
    <2>. QED
      BY <1>9, <2>1
  <1>11. ASSUME NEW n \in T
         PROVE  n + 1 \in T
    <2>1. n \in Nat
      OBVIOUS
    <2>2. CASE n + 1 <= N
      <3>1. PICK m \in 1 .. N : m = n + 1 /\ m - 1 = n
        BY <1>1, <2>1, <2>2
      <3>2. /\ c[n] \in A
            /\ c[n] \subseteq onward(changed, c[n])
            /\ onward(changed, c[n]) = c[n] \/ n <= Cardinality(c[n])
        <4>1. n <= N
          BY <1>1, <2>1, <2>2
        <4>. QED
          BY <4>1
      <3>3. c[m] = onward(changed, c[n])
        BY <1>9, <3>1
      <3>. HIDE DEF T
      <3>4. c[m] \in A
        BY <1>2, <3>2, <3>3
      <3>5. c[m] \subseteq onward(changed, c[m])
        BY <3>2, <3>3 DEF onward
      <3>6. onward(changed, c[m]) = c[m] \/ m <= Cardinality(c[m])
        <4>1. CASE onward(changed, c[n]) = c[n]
          BY <3>3, <4>1
        <4>2. CASE onward(changed, c[n]) # c[n] /\ n <= Cardinality(c[n])
          <5>1. IsFiniteSet(c[m])
            BY <1>1, <3>4, FS_Subset DEF A
          <5>2. c[n] \subseteq c[m] /\ c[n] # c[m]
            BY <3>2, <3>3, <4>2
          <5>3. /\ IsFiniteSet(c[n]) /\ Cardinality(c[n]) \in Nat /\ Cardinality(c[m]) \in Nat
                /\ Cardinality(c[n]) < Cardinality(c[m])
            BY <5>1, <5>2, FS_Subset, FS_CardinalityType
          <5>. QED
            BY <2>1, <3>1, <4>2, <5>3
        <4>. QED
          BY <3>2, <4>1, <4>2
      <3>. QED
        BY <2>1, <3>1, <3>4, <3>5, <3>6 DEF T
    <2>. QED
      BY <1>1, <2>1, <2>2
  <1>12. T = Nat
    <2>. HIDE DEF T
    <2>1. T \in SUBSET Nat
      BY DEF T
    <2>. QED
      BY <1>10, <1>11, <2>1, SetInduction
  <1>13. /\ c[N] \in A
         /\ c[N] \subseteq onward(changed, c[N])
         /\ onward(changed, c[N]) = c[N] \/ N <= Cardinality(c[N])
    <2>1. N \in T
      BY <1>1, <1>12
    <2>. QED
      BY <1>1, <2>1
  <1>14. onward(changed, c[N]) = c[N]
    <2>1. CASE N <= Cardinality(c[N])
      <3>1. c[N] \subseteq Field /\ onward(changed, c[N]) \subseteq Field
        BY <1>2, <1>13 DEF A
      <3>2. c[N] = Field
        BY <1>1, <2>1, <3>1, FS_Subset, FS_CardinalityType DEF N
      <3>. QED
        BY <1>13, <3>1, <3>2
    <2>. QED
      BY <1>13, <2>1
  <1>15. allAffected(changed) = c[N] /\ c[N] \subseteq Field
    BY <1>8, <1>13 DEF A
  <1>. QED
    BY <1>14, <1>15

\* What is related to a changed or an affected field is affected.
LEMMA RelatedAffected ==
  ASSUME NEW changed \in SUBSET Field, NEW g \in changed \cup allAffected(changed),
         NEW f, relatedTo(f, g)
  PROVE  f \in allAffected(changed)
  <1>. DEFINE all == allAffected(changed)
  <1>1. all \in SUBSET Field /\ onward(changed, all) = all
    BY AffectedClosed
  <1>. HIDE DEF all
  <1>2. affectFields(g) \cup UNION {affectFields(h) : h \in all} \subseteq all
    BY <1>1 DEF onward, all
  <1>. QED
    BY <1>1, <1>2 DEF relatedTo, all

-----------------------------------------------------------------------------
(* The options a form offers.                                              *)

\* OptionsFresh, of one form.
Offers(form) ==
  /\ DOMAIN form.options = Field
  /\ \A f \in Resolved :
       announced(f) /\ ~ form.options[f].pending
         => form.options[f].items \in {NoOptions, resolve(f, form.values)}

FreshForms == \A id \in DOMAIN stageForms.entities : Offers(stageForms.entities[id])

\* A form that was just built asks for all its options.
LEMMA SnapshotOffers ==
  ASSUME NEW values
  PROVE  Offers(snapshot(values))
  <1>1. DOMAIN snapshot(values).options = Field
    BY DEF snapshot
  <1>2. ASSUME NEW f \in Resolved
        PROVE  snapshot(values).options[f].pending
    <2>1. f \in Field
      BY DynamicFormAssumption
    <2>2. PICK due : due = (f \in Resolved)
      OBVIOUS
    <2>3. snapshot(values).options[f] = [items |-> Nil, pending |-> due]
      BY <2>1, <2>2 DEF snapshot
    <2>4. snapshot(values).options[f].pending = due
      BY <2>3
    <2>. QED
      BY <2>2, <2>4, Zenon
  <1>. QED
    BY <1>1, <1>2, Zenon DEF Offers

LEMMA ReceivedOffers ==
  ASSUME NEW form, DOMAIN form = {"values", "errors", "options"}, Offers(form),
         NEW failed, NEW items, items = answer(asked(form), failed)
  PROVE  Offers(receiveOptions(form, items))
  <1>. DEFINE next == receiveOptions(form, items)
              come == [f \in DOMAIN items |-> [items |-> items[f], pending |-> FALSE]]
  <1>1. next.options = spread(form.options, come) /\ next.values = form.values
    BY DEF receiveOptions
  <1>2. /\ DOMAIN items = pendingFields(form) /\ DOMAIN form.options = Field
        /\ \A f \in pendingFields(form) : items[f] \in {NoOptions, resolve(f, form.values)}
    BY DEF Offers, answer, asked
  <1>3. DOMAIN next.options = Field
    BY <1>1, <1>2 DEF pendingFields, spread
  <1>4. \A f \in Field : next.options[f] = IF f \in pendingFields(form) THEN come[f] ELSE form.options[f]
    BY <1>1, <1>2 DEF pendingFields, spread
  <1>5. \A f \in pendingFields(form) : come[f].items \in {NoOptions, resolve(f, form.values)}
    BY <1>2
  <1>. HIDE DEF come, next
  <1>6. ASSUME NEW f \in Resolved, announced(f), ~ next.options[f].pending
        PROVE  next.options[f].items \in {NoOptions, resolve(f, next.values)}
    <2>1. f \in Field
      BY DynamicFormAssumption
    <2>2. CASE f \in pendingFields(form)
      BY <1>1, <1>4, <1>5, <2>1, <2>2
    <2>3. CASE f \notin pendingFields(form)
      <3>1. next.options[f] = form.options[f]
        BY <1>4, <2>1, <2>3
      <3>2. form.options[f].items \in {NoOptions, resolve(f, form.values)}
        BY <1>6, <3>1, Zenon DEF Offers
      <3>. QED
        BY <1>1, <3>1, <3>2
    <2>. QED
      BY <2>2, <2>3
  <1>. QED
    BY <1>3, <1>6, Zenon DEF Offers, next

\* What a field that is not affected asks for has not changed: a change of what
\* it looks at would have affected it.
LEMMA AnswerStands ==
  ASSUME NEW form, NEW current,
         NEW changes, changes = {f \in Field : form.values[f] # current[f]},
         NEW values,
         values = [f \in Field |-> IF f \in allAffected(changes) THEN Nil ELSE current[f]],
         NEW f \in Resolved, announced(f), f \notin allAffected(changes)
  PROVE  resolve(f, form.values) = resolve(f, values)
  <1>. DEFINE affected == allAffected(changes)
  <1>1. f \in Field
    BY DynamicFormAssumption
  <1>2. inspected(f) \subseteq Field /\ Needs[f] \subseteq inspected(f)
    BY <1>1, DynamicFormAssumption DEF inspected
  <1>3. ASSUME NEW g \in inspected(f)
        PROVE  form.values[g] = values[g]
    <2>1. relatedTo(f, g)
      BY DEF announced
    <2>2. g \notin changes /\ g \notin affected
      BY <2>1, RelatedAffected
    <2>. HIDE DEF affected
    <2>. QED
      BY <1>2, <2>2 DEF affected
  <1>4. (\E g \in Needs[f] : empty(form.values[g])) <=> (\E g \in Needs[f] : empty(values[g]))
    BY <1>2, <1>3
  <1>5. [g \in inspected(f) |-> form.values[g]] = [g \in inspected(f) |-> values[g]]
    BY <1>3
  <1>. QED
    BY <1>4, <1>5 DEF resolve

LEMMA ChangedOffers ==
  ASSUME NEW form, Offers(form), NEW current \in Values,
         NEW changes, changes = {f \in Field : form.values[f] # current[f]},
         NEW values, NEW errors,
         values = [f \in Field |-> IF f \in allAffected(changes) THEN Nil ELSE current[f]]
  PROVE  Offers(changeValues(form, values, errors, allAffected(changes)))
  <1>. DEFINE affected == allAffected(changes)
              next == changeValues(form, values, errors, affected)
  <1>. HIDE DEF affected
  <1>2. /\ next.values = values
        /\ DOMAIN next.options = Field
        /\ \A f \in Field : f \in affected => next.options[f].pending
        /\ \A f \in Field : f \notin affected => next.options[f] = form.options[f]
    BY Zenon DEF changeValues
  <1>. HIDE DEF next
  <1>3. ASSUME NEW f \in Resolved, announced(f), ~ next.options[f].pending
        PROVE  next.options[f].items \in {NoOptions, resolve(f, values)}
    <2>1. f \in Field
      BY DynamicFormAssumption
    <2>2. f \notin affected
      BY <1>2, <1>3, <2>1, Zenon
    <2>3. next.options[f] = form.options[f]
      BY <1>2, <2>1, <2>2
    <2>4. form.options[f].items \in {NoOptions, resolve(f, form.values)}
      BY <1>3, <2>3, Zenon DEF Offers
    <2>5. resolve(f, form.values) = resolve(f, values)
      BY <1>3, <2>2, AnswerStands DEF affected
    <2>. QED
      BY <2>3, <2>4, <2>5
  <1>. QED
    BY <1>2, <1>3, Zenon DEF Offers, next, affected

\* A form has been replaced by one that offers what it should.
LEMMA UpdatedOffers ==
  ASSUME TypeOK, FreshForms, NEW id, NEW form, Offers(form),
         stageForms' = update(stageForms, id, form)
  PROVE  FreshForms'
  <1>1. stageForms'.entities = put(stageForms.entities, id, form)
    BY DEF update, TypeOK
  <1>2. \A x \in DOMAIN stageForms'.entities :
          stageForms'.entities[x] = form
            \/ (x \in DOMAIN stageForms.entities /\ stageForms'.entities[x] = stageForms.entities[x])
    BY <1>1 DEF put
  <1>. QED
    BY <1>2 DEF FreshForms

LEMMA OpenOffers ==
  ASSUME IInv, Open
  PROVE  FreshForms'
  <1>1. PICK pipeline \in Pipelines : RESET_PIPELINE(pipeline)
    BY DEF Open
  <1>2. PICK loaded : loaded = fromDatasource(pipeline)
    OBVIOUS
  <1>3. stageForms' = loaded.stageForms
    BY <1>1, <1>2 DEF RESET_PIPELINE
  <1>4. \A id \in DOMAIN loaded.stageForms.entities :
          \E values : loaded.stageForms.entities[id] = snapshot(values)
    BY <1>2 DEF fromDatasource, reset
  <1>. QED
    BY <1>3, <1>4, SnapshotOffers DEF FreshForms

LEMMA NextOffers ==
  ASSUME IInv, FreshForms, [Next]_storeVars
  PROVE  FreshForms'
  <1>0. TypeOK
    BY DEF IInv
  <1>1. CASE Open
    BY <1>1, OpenOffers
  <1>2. CASE UNCHANGED stageForms
    BY <1>2 DEF FreshForms
  <1>3. CASE PickTask
    <2>1. stageForms' = append(stageForms, nextId, snapshot(noTexts))
      BY <1>3 DEF PickTask, ADD_PARALLEL_BY_STAGE, ADD_STAGE
    <2>2. stageForms'.entities = put(stageForms.entities, nextId, snapshot(noTexts))
      BY <2>1 DEF append
    <2>3. Offers(snapshot(noTexts))
      BY SnapshotOffers
    <2>4. \A x \in DOMAIN stageForms'.entities :
            stageForms'.entities[x] = snapshot(noTexts)
              \/ (x \in DOMAIN stageForms.entities /\ stageForms'.entities[x] = stageForms.entities[x])
      BY <2>2 DEF put
    <2>. QED
      BY <2>3, <2>4 DEF FreshForms
  <1>4. CASE RemoveSelected
    <2>1. /\ DOMAIN stageForms'.entities \subseteq DOMAIN stageForms.entities
          /\ \A x \in DOMAIN stageForms'.entities : stageForms'.entities[x] = stageForms.entities[x]
      BY <1>4 DEF RemoveSelected, REMOVE_STAGE, REMOVE_PARALLEL, remove, removeAll, Restrict
    <2>. QED
      BY <2>1 DEF FreshForms
  <1>5. ASSUME NEW id, NEW current \in Values, TRY_CHANGE_STAGE_VALUES(id, current)
        PROVE  FreshForms'
    <2>. DEFINE form == stageForms.entities[id]
                changes == {f \in Field : form.values[f] # current[f]}
                values == [f \in Field |-> IF f \in allAffected(changes) THEN Nil ELSE current[f]]
    <2>1. PICK errors : CHANGE_STAGE_VALUES(id, values, errors, allAffected(changes))
      BY <1>5 DEF TRY_CHANGE_STAGE_VALUES
    <2>2. /\ id \in DOMAIN stageForms.entities
          /\ stageForms' = update(stageForms, id,
               changeValues(form, values, errors, allAffected(changes)))
      BY <2>1 DEF CHANGE_STAGE_VALUES
    <2>3. Offers(form)
      BY <2>2 DEF FreshForms
    <2>. HIDE DEF form
    <2>4. Offers(changeValues(form, values, errors, allAffected(changes)))
      BY <1>5, <2>3, ChangedOffers
    <2>. HIDE DEF values, changes
    <2>. QED
      BY <1>0, <2>2, <2>4, UpdatedOffers
  <1>6. CASE Edit
    BY <1>2, <1>5, <1>6 DEF Edit, CHANGE_STAGE_NAME, CHANGE_PARALLEL_NAME,
                            CHANGE_PIPELINE_SETTINGS
  <1>7. CASE Receive
    <2>1. PICK id \in DOMAIN stageForms.entities :
            \E failed \in SUBSET pendingFields(stageForms.entities[id]) :
              RECEIVE_STAGE_OPTIONS(id, answer(asked(stageForms.entities[id]), failed))
      BY <1>7 DEF Receive
    <2>. DEFINE form == stageForms.entities[id]
    <2>a. PICK failed : RECEIVE_STAGE_OPTIONS(id, answer(asked(form), failed))
      BY <2>1
    <2>2. PICK items : items = answer(asked(form), failed)
      OBVIOUS
    <2>3. stageForms' = update(stageForms, id, receiveOptions(form, items))
      BY <2>a, <2>2 DEF RECEIVE_STAGE_OPTIONS
    <2>4. Offers(form) /\ DOMAIN form = {"values", "errors", "options"}
      BY <1>0 DEF FreshForms, TypeOK
    <2>. HIDE DEF form
    <2>5. Offers(receiveOptions(form, items))
      BY <2>2, <2>4, ReceivedOffers
    <2>. QED
      BY <1>0, <2>3, <2>5, UpdatedOffers
  <1>8. CASE Select \/ UNCHANGED storeVars
    BY <1>2, <1>8 DEF Select, SELECT, storeVars
  <1>. QED
    BY <1>1, <1>3, <1>4, <1>6, <1>7, <1>8 DEF Next

\* Whatever the fields are and however they are related, no dropdown offers
\* options for values that the fields its resolver looks at no longer have, if
\* a change of any of these fields is announced to it.
THEOREM OptionsFreshAlways == Spec => []OptionsFresh
  <1>1. Init => FreshForms
    BY DEF Init, emptyState, FreshForms
  <1>2. IInv /\ FreshForms /\ [Next]_storeVars => FreshForms'
    BY NextOffers
  <1>3. FreshForms => OptionsFresh
    BY DEF FreshForms, Offers, OptionsFresh
  <1>. QED
    BY <1>1, <1>2, <1>3, InvariantHolds, PTL DEF Spec

-----------------------------------------------------------------------------
(* What is saved.                                                          *)

nameOfStage(id) == stages.entities[id].name

SavedNames == {nameOfStage(id) : id \in ToSet(stages.ids)}

\* With distinct names the last stage of a name is the only one.
LEMMA ValuesUnderName ==
  ASSUME Listed, noDuplicateStageName, NEW id \in ToSet(stages.ids)
  PROVE  /\ DOMAIN toDatasource.graphValues = SavedNames
         /\ toDatasource.graphValues[nameOfStage(id)] = textsOf(stageForms.entities[id].values)
  <1>. DEFINE n == nameOfStage(id)
              last == SelectLastInSeq(stages.ids, LAMBDA x : stages.entities[x].name = n)
              I == {k \in 1 .. Len(stages.ids) : nameOfStage(stages.ids[k]) = n}
  <1>1. PICK p \in DOMAIN stages.ids : stages.ids[p] = id
    BY DEF ToSet
  <1>2. DOMAIN stages.ids = 1 .. Len(stages.ids) /\ IsInjective(stages.ids)
    BY DEF Listed, inStep
  <1>3. \A a, b \in ToSet(stages.ids) : nameOfStage(a) = nameOfStage(b) => a = b
    BY DEF noDuplicateStageName, DistinctNames, nameOfStage
  <1>4. I = {p}
    <2>1. ASSUME NEW k \in I
          PROVE  k = p
      <3>1. k \in DOMAIN stages.ids /\ nameOfStage(stages.ids[k]) = n
        BY <1>2
      <3>2. stages.ids[k] \in ToSet(stages.ids)
        BY <3>1 DEF ToSet
      <3>3. stages.ids[k] = id
        BY <1>3, <3>1, <3>2
      <3>. QED
        BY <1>1, <1>2, <3>1, <3>3 DEF IsInjective
    <2>2. p \in I
      BY <1>1, <1>2
    <2>. QED
      BY <2>1, <2>2
  <1>5. last = p
    <2>1. last = IF I # {} THEN Max(I) ELSE 0
      BY DEF SelectLastInSeq, nameOfStage
    <2>2. Max({p}) = p
      BY <1>2 DEF Max
    <2>. QED
      BY <1>4, <2>1, <2>2
  <1>6. /\ DOMAIN toDatasource.graphValues = SavedNames
        /\ n \in SavedNames
           => toDatasource.graphValues[n] = textsOf(stageForms.entities[stages.ids[last]].values)
    BY DEF toDatasource, SavedNames, nameOfStage
  <1>7. n \in SavedNames
    BY DEF SavedNames
  <1>. HIDE DEF last
  <1>. QED
    BY <1>1, <1>5, <1>6, <1>7

\* A parallel has a name of its own or that of its first stage.
LEMMA ParallelNamed ==
  ASSUME IInv, allNameFilled, NEW id \in ToSet(parallels.ids)
  PROVE  getParallelName(id) # NoName
  <1>1. /\ id \in DOMAIN forks /\ forks[id] # <<>> /\ forks[id] \in Seq(Id)
        /\ \A s \in ToSet(forks[id]) : s \in DOMAIN stages.entities
    BY DEF IInv, TypeOK, EveryStageInOneFork
  <1>2. Head(forks[id]) \in ToSet(forks[id])
    BY <1>1 DEF ToSet
  <1>. QED
    BY <1>1, <1>2 DEF getParallelName, firstStage, allNameFilled

\* The groups that are saved hold the names under which the values are saved.
LEMMA TasksNamed ==
  ASSUME IInv, Listed
  PROVE  SavedNames = UNION {ToSet(toDatasource.stages[i].tasks) : i \in DOMAIN toDatasource.stages}
  <1>1. /\ DOMAIN toDatasource.stages = DOMAIN parallels.ids
        /\ \A i \in DOMAIN parallels.ids :
             toDatasource.stages[i].tasks
               = [k \in DOMAIN forks[parallels.ids[i]] |-> nameOfStage(forks[parallels.ids[i]][k])]
    BY DEF toDatasource, nameOfStage
  <1>2. \A i \in DOMAIN parallels.ids :
          ToSet(toDatasource.stages[i].tasks) = {nameOfStage(s) : s \in ToSet(forks[parallels.ids[i]])}
    <2>1. ASSUME NEW f, NEW t, t = [k \in DOMAIN f |-> nameOfStage(f[k])]
          PROVE  ToSet(t) = {nameOfStage(s) : s \in ToSet(f)}
      <3>1. DOMAIN t = DOMAIN f /\ \A k \in DOMAIN f : t[k] = nameOfStage(f[k])
        BY <2>1
      <3>. QED
        BY <3>1 DEF ToSet
    <2>. QED
      BY <1>1, <2>1
  <1>3. /\ ToSet(stages.ids) = DOMAIN stages.entities
        /\ DOMAIN forks = ToSet(parallels.ids)
        /\ \A p \in DOMAIN forks : ToSet(forks[p]) \subseteq DOMAIN stages.entities
        /\ \A s \in DOMAIN stages.entities : \E p \in DOMAIN forks : s \in ToSet(forks[p])
    BY DEF Listed, inStep, IInv, EveryStageInOneFork
  <1>4. \A p \in DOMAIN forks : \E i \in DOMAIN parallels.ids : parallels.ids[i] = p
    BY <1>3 DEF ToSet
  <1>5. \A i \in DOMAIN parallels.ids : parallels.ids[i] \in DOMAIN forks
    BY <1>3 DEF ToSet
  <1>6. ASSUME NEW s \in ToSet(stages.ids)
        PROVE  \E i \in DOMAIN parallels.ids : nameOfStage(s) \in ToSet(toDatasource.stages[i].tasks)
    <2>1. PICK p \in DOMAIN forks : s \in ToSet(forks[p])
      BY <1>3
    <2>2. PICK i \in DOMAIN parallels.ids : parallels.ids[i] = p
      BY <1>4
    <2>. QED
      BY <1>2, <2>1, <2>2
  <1>7. ASSUME NEW i \in DOMAIN parallels.ids, NEW n \in ToSet(toDatasource.stages[i].tasks)
        PROVE  n \in SavedNames
    <2>1. PICK s \in ToSet(forks[parallels.ids[i]]) : n = nameOfStage(s)
      BY <1>2
    <2>2. s \in ToSet(stages.ids)
      BY <1>3, <1>5
    <2>. QED
      BY <2>1, <2>2 DEF SavedNames
  <1>. QED
    BY <1>1, <1>6, <1>7 DEF SavedNames

LEMMA OwnNames ==
  ASSUME IInv, Listed
  PROVE  SavedUnderOwnName
  <1>. SUFFICES ASSUME selectValid
                PROVE  /\ \A id \in ToSet(stages.ids) :
                            toDatasource.graphValues[stages.entities[id].name]
                              = textsOf(stageForms.entities[id].values)
                       /\ \A i, j \in DOMAIN toDatasource.stages :
                            toDatasource.stages[i].name = toDatasource.stages[j].name => i = j
                       /\ \A i \in DOMAIN toDatasource.stages : toDatasource.stages[i].name # NoName
                       /\ DOMAIN toDatasource.graphValues
                            = UNION {ToSet(toDatasource.stages[i].tasks) :
                                       i \in DOMAIN toDatasource.stages}
    BY DEF SavedUnderOwnName
  <1>1. noDuplicateStageName /\ allNameFilled /\ noDuplicateParallelName
    BY DEF selectValid
  <1>2. \A id \in ToSet(stages.ids) :
          toDatasource.graphValues[stages.entities[id].name]
            = textsOf(stageForms.entities[id].values)
    BY <1>1, ValuesUnderName DEF nameOfStage
  <1>3. /\ DOMAIN toDatasource.stages = DOMAIN parallels.ids
        /\ \A i \in DOMAIN parallels.ids :
             toDatasource.stages[i].name = getParallelName(parallels.ids[i])
    BY DEF toDatasource
  <1>4. \A i \in DOMAIN parallels.ids : parallels.ids[i] \in ToSet(parallels.ids)
    BY DEF ToSet
  <1>5. \A a, b \in ToSet(parallels.ids) : getParallelName(a) = getParallelName(b) => a = b
    BY <1>1 DEF noDuplicateParallelName, DistinctNames
  <1>6. IsInjective(parallels.ids)
    BY DEF IInv, inStep
  <1>7. \A i, j \in DOMAIN toDatasource.stages :
          toDatasource.stages[i].name = toDatasource.stages[j].name => i = j
    BY <1>3, <1>4, <1>5, <1>6 DEF IsInjective
  <1>8. \A i \in DOMAIN toDatasource.stages : toDatasource.stages[i].name # NoName
    BY <1>1, <1>3, <1>4, ParallelNamed
  <1>9. DOMAIN toDatasource.graphValues = SavedNames
    BY DEF toDatasource, SavedNames, nameOfStage
  <1>. QED
    BY <1>2, <1>7, <1>8, <1>9, TasksNamed

\* Whenever the editor lets the pipeline be saved, every stage is saved with
\* its own values under its own name, and every parallel under a name of its
\* own, however many there are.
THEOREM SavedUnderOwnNameAlways == Spec => []SavedUnderOwnName
  <1>1. IInv /\ Listed => SavedUnderOwnName
    BY OwnNames
  <1>. QED
    BY <1>1, InvariantHolds, ListedHolds, PTL

-----------------------------------------------------------------------------
(* Saving and opening again.                                               *)

LEMMA SameStart ==
  ASSUME NEW n \in Nat, NEW a \in Nat, NEW b \in Nat, NEW i \in Nat, NEW j \in Nat,
         n + a + j - 1 = n + b + i - 1
  PROVE  a + j = b + i
  OBVIOUS

\* The number of a place tells the place, wherever the numbers start.
LEMMA PlaceFound ==
  ASSUME nextId \in Nat, NEW flow, NEW L \in Nat, Len(flow) = L, DOMAIN flow = 1 .. L,
         \A i \in 1 .. L : DOMAIN flow[i].tasks \subseteq Nat,
         NEW i \in 1 .. L, NEW k \in DOMAIN flow[i].tasks
  PROVE  /\ <<i, k>> \in places(flow)
         /\ placeOf(flow, uuidOf(flow, i, k)) = <<i, k>>
  <1>. DEFINE p == placeOf(flow, uuidOf(flow, i, k))
  <1>1. \A q : q \in places(flow) <=> \E j \in 1 .. L : \E m \in DOMAIN flow[j].tasks : q = <<j, m>>
    BY DEF places
  <1>2. <<i, k>> \in places(flow)
    BY <1>1
  <1>3. p \in places(flow) /\ uuidOf(flow, p[1], p[2]) = uuidOf(flow, i, k)
    BY <1>2 DEF placeOf
  <1>. HIDE DEF p
  <1>4. PICK j \in 1 .. L : \E m \in DOMAIN flow[j].tasks : p = <<j, m>>
    BY <1>1, <1>3
  <1>5. PICK m \in DOMAIN flow[j].tasks : p = <<j, m>>
    BY <1>4
  <1>6. k \in Nat /\ m \in Nat
    OBVIOUS
  <1>7. nextId + m * L + j - 1 = nextId + k * L + i - 1
    BY <1>3, <1>5 DEF uuidOf
  <1>8. m * L + j = k * L + i
    <2>. DEFINE a == m * L
                b == k * L
    <2>1. a \in Nat /\ b \in Nat
      BY <1>6
    <2>2. nextId + a + j - 1 = nextId + b + i - 1
      BY <1>7
    <2>. HIDE DEF a, b
    <2>3. i \in Nat /\ j \in Nat
      OBVIOUS
    <2>4. a + j = b + i
      BY <2>1, <2>2, <2>3, SameStart
    <2>. QED
      BY <2>4 DEF a, b
  <1>9. j = i /\ m = k
    BY <1>6, <1>8, PlaceIsUnique
  <1>. QED
    BY <1>2, <1>5, <1>9 DEF p

loadedValues(texts) ==
  [f \in Field |-> LET v == deserialize(f, texts[f]) IN
                   IF v = Nil THEN defaultValue(f) ELSE v]

LEMMA SecretAgain ==
  ASSUME NEW secret,
         secret # Nil =>
           /\ secret = [namespace |-> secret.namespace, name |-> secret.name]
           /\ secret.name # Blank
  PROVE  fromCredentialId(formatSecret(secret)) = secretAgain(secret)
  <1>1. CASE secret = Nil
    BY <1>1 DEF formatSecret, fromCredentialId, secretAgain
  <1>2. CASE secret # Nil
    <2>1. formatSecret(secret) = <<secret.namespace, secret.name>>
      BY <1>2 DEF formatSecret
    <2>2. <<secret.namespace, secret.name>> # NoSecret
      BY <1>2 DEF NoSecret
    <2>. QED
      BY <1>2, <2>1, <2>2, DynamicFormAssumption DEF fromCredentialId, secretAgain
  <1>. QED
    BY <1>1, <1>2

LEMMA RepositoryAgain ==
  ASSUME NEW data, data # Nil, CodeRepository(data), serializeRepository(data) # Nil
  PROVE  deserializeRepository(serializeRepository(data))
           = [repo              |-> data.repo,
              secret            |-> secretAgain(data.secret),
              bindingRepository |-> IF data.kind = "buildin" THEN data.bindingRepository
                                    ELSE Blank,
              kind              |-> data.kind]
  <1>. DEFINE text == serializeRepository(data)
              binding == IF data.kind = "buildin" THEN data.bindingRepository ELSE Blank
  <1>1. /\ text.url = data.repo
        /\ text.bindingRepositoryName = binding
        /\ text.credentialId = formatSecret(data.secret)
        /\ text.sourceType = IF data.kind = "svn" THEN "SVN" ELSE "GIT"
        /\ text.kind = IF data.kind = "buildin" THEN "select" ELSE "input"
    BY DEF serializeRepository
  <1>2. fromCredentialId(text.credentialId) = secretAgain(data.secret)
    BY <1>1, SecretAgain DEF CodeRepository
  <1>3. (IF text.kind = "select" THEN "buildin"
         ELSE IF text.sourceType = "SVN" THEN "svn" ELSE "git") = data.kind
    BY <1>1 DEF CodeRepository
  <1>. HIDE DEF text
  <1>4. deserializeRepository(text)
          = [repo |-> data.repo, secret |-> secretAgain(data.secret),
             bindingRepository |-> binding, kind |-> data.kind]
    BY <1>1, <1>2, <1>3 DEF deserializeRepository, text
  <1>. QED
    BY <1>4 DEF text

\* What is read of the text that was stored for a value.
LEMMA TextReadAgain ==
  ASSUME NEW f \in Field, NEW v \in Input[f] \cup {Nil}
  PROVE  LET w == deserialize(f, serialize(f, v)) IN
         (IF w = Nil THEN defaultValue(f) ELSE w) = valueAgain(f, v)
  <1>. DEFINE w == deserialize(f, serialize(f, v))
  <1>1. /\ Kind[f] \in {"string", "boolean", "json", "repository"}
        /\ Nil \notin Input[f] /\ True # False
        /\ Kind[f] = "boolean" => Input[f] = {True, False}
        /\ v # Nil => w \in Input[f]
        /\ Kind[f] = "repository" /\ v # Nil => CodeRepository(v)
    BY DynamicFormAssumption
  <1>2. CASE Kind[f] = "string"
    BY <1>2 DEF serialize, deserialize, valueAgain
  <1>3. CASE Kind[f] = "boolean"
    <2>1. serialize(f, v) = [json |-> IF v = True THEN True ELSE False]
      BY <1>3 DEF serialize
    <2>2. w = IF v = True THEN True ELSE False
      BY <1>1, <1>3, <2>1 DEF deserialize
    <2>. QED
      BY <1>1, <1>3, <2>2 DEF valueAgain
  <1>4. CASE Kind[f] = "json"
    <2>1. serialize(f, v) = [json |-> v]
      BY <1>4 DEF serialize
    <2>2. w = IF v \in Input[f] THEN v ELSE Nil
      BY <1>4, <2>1 DEF deserialize
    <2>. QED
      BY <1>1, <1>4, <2>2 DEF valueAgain
  <1>5. CASE Kind[f] = "repository"
    <2>1. w = deserializeRepository(serializeRepository(v))
      BY <1>5 DEF serialize, deserialize
    <2>2. CASE v = Nil
      BY <1>5, <2>1, <2>2 DEF serializeRepository, deserializeRepository, valueAgain
    <2>3. CASE v # Nil
      <3>1. w # Nil /\ CodeRepository(v)
        BY <1>1, <1>5, <2>3
      <3>2. serializeRepository(v) # Nil
        BY <2>1, <3>1 DEF deserializeRepository
      <3>3. w = [repo              |-> v.repo,
                 secret            |-> secretAgain(v.secret),
                 bindingRepository |-> IF v.kind = "buildin" THEN v.bindingRepository ELSE Blank,
                 kind              |-> v.kind]
        BY <2>1, <2>3, <3>1, <3>2, RepositoryAgain
      <3>. QED
        BY <1>5, <2>3, <3>1, <3>3 DEF valueAgain
    <2>. QED
      BY <2>2, <2>3
  <1>. QED
    BY <1>1, <1>2, <1>3, <1>4, <1>5

LEMMA TextsReadAgain ==
  ASSUME NEW values \in Values
  PROVE  loadedValues(textsOf(values)) = valuesAgain(values)
  <1>1. ASSUME NEW f \in Field
        PROVE  (LET v == deserialize(f, textsOf(values)[f]) IN
                IF v = Nil THEN defaultValue(f) ELSE v) = valueAgain(f, values[f])
    <2>1. values[f] \in Input[f] \cup {Nil}
      BY ValuesAre
    <2>2. textsOf(values)[f] = serialize(f, values[f])
      BY DEF textsOf
    <2>. QED
      BY <2>1, <2>2, TextReadAgain
  <1>. QED
    BY <1>1 DEF loadedValues, valuesAgain

\* What opening a pipeline makes of its i-th group, wherever the numbers start.
GroupAs(pipeline, flow, loaded, i) ==
  LET new == uuidOf(flow, i, 0) IN
  /\ loaded.parallels.entities[new].name = flow[i].name
  /\ loaded.forks[new] = flowIds(flow, i)
  /\ \A k \in DOMAIN flow[i].tasks :
       LET n == uuidOf(flow, i, k) IN
       /\ loaded.stages.entities[n].name = flow[i].tasks[k]
       /\ loaded.stages.entities[n].parent = new
       /\ loaded.stageForms.entities[n].values
            = loadedValues(pipeline.graphValues[flow[i].tasks[k]])

LEMMA LoadedGroup ==
  ASSUME nextId \in Nat, NEW pipeline, NEW flow, flow = pipeline.stages,
         NEW L \in Nat, Len(flow) = L, DOMAIN flow = 1 .. L,
         \A i \in 1 .. L : DOMAIN flow[i].tasks \subseteq Nat,
         NEW loaded, loaded = fromDatasource(pipeline), NEW i \in 1 .. L
  PROVE  GroupAs(pipeline, flow, loaded, i)
  <1>. DEFINE ids == [j \in DOMAIN flow |-> uuidOf(flow, j, 0)]
              drawn == {uuidOf(flow, p[1], p[2]) : p \in places(flow)}
              new == uuidOf(flow, i, 0)
  <1>1. new - nextId + 1 = i
    <2>1. new = nextId + 0 * L + i - 1
      BY DEF uuidOf
    <2>2. 0 * L = 0
      OBVIOUS
    <2>. HIDE DEF new
    <2>. QED
      BY <2>1, <2>2
  <1>2. new \in ToSet(ids) /\ ids[i] = new
    BY DEF ToSet
  <1>3. /\ loaded.parallels.ids = ids
        /\ loaded.parallels.entities
             = [id \in ToSet(ids) |-> [name |-> flow[id - nextId + 1].name]]
        /\ loaded.forks = [id \in ToSet(ids) |-> flowIds(flow, id - nextId + 1)]
    BY DEF fromDatasource, reset
  <1>4. /\ loaded.stages.entities
             = [id \in drawn |-> [name   |-> flow[placeOf(flow, id)[1]].tasks[placeOf(flow, id)[2]],
                                  parent |-> ids[placeOf(flow, id)[1]]]]
        /\ loaded.stageForms.entities
             = [id \in drawn |-> snapshot(pipeline.graphValues
                  [flow[placeOf(flow, id)[1]].tasks[placeOf(flow, id)[2]]])]
    BY DEF fromDatasource, reset
  <1>. HIDE DEF new
  <1>5. /\ loaded.parallels.entities[new].name = flow[i].name
        /\ loaded.forks[new] = flowIds(flow, i)
    BY <1>1, <1>2, <1>3
  <1>6. ASSUME NEW k \in DOMAIN flow[i].tasks
        PROVE  LET n == uuidOf(flow, i, k) IN
               /\ loaded.stages.entities[n].name = flow[i].tasks[k]
               /\ loaded.stages.entities[n].parent = new
               /\ loaded.stageForms.entities[n].values
                    = loadedValues(pipeline.graphValues[flow[i].tasks[k]])
    <2>. DEFINE n == uuidOf(flow, i, k)
    <2>1. <<i, k>> \in places(flow) /\ placeOf(flow, n) = <<i, k>>
      BY PlaceFound
    <2>2. n \in drawn
      BY <2>1
    <2>3. placeOf(flow, n)[1] = i /\ placeOf(flow, n)[2] = k
      BY <2>1
    <2>. HIDE DEF n, drawn, ids
    <2>4. /\ loaded.stages.entities[n] = [name |-> flow[i].tasks[k], parent |-> ids[i]]
          /\ loaded.stageForms.entities[n]
               = snapshot(pipeline.graphValues[flow[i].tasks[k]])
      BY <1>4, <2>2, <2>3
    <2>5. \A texts : snapshot(texts).values = loadedValues(texts)
      BY DEF snapshot, loadedValues
    <2>6. /\ loaded.stages.entities[n].name = flow[i].tasks[k]
          /\ loaded.stages.entities[n].parent = new
          /\ loaded.stageForms.entities[n].values
               = loadedValues(pipeline.graphValues[flow[i].tasks[k]])
      BY <1>2, <2>4, <2>5
    <2>. QED
      BY <2>6 DEF n
  <1>. QED
    BY <1>5, <1>6 DEF new, GroupAs

LEMMA OpensAgain ==
  ASSUME IInv, Listed
  PROVE  RoundTrip
  <1>. SUFFICES ASSUME selectValid,
                       NEW again, again = fromDatasource(toDatasource)
                PROVE  /\ Len(again.parallels.ids) = Len(parallels.ids)
                       /\ \A i \in DOMAIN parallels.ids :
                            LET old == parallels.ids[i]
                                new == again.parallels.ids[i]
                            IN  /\ again.parallels.entities[new].name = getParallelName(old)
                                /\ Len(again.forks[new]) = Len(forks[old])
                                /\ \A k \in DOMAIN forks[old] :
                                     LET o == forks[old][k]
                                         n == again.forks[new][k]
                                     IN  /\ again.stages.entities[n].name = stages.entities[o].name
                                         /\ again.stages.entities[n].parent = new
                                         /\ again.stageForms.entities[n].values
                                              = valuesAgain(stageForms.entities[o].values)
    BY ZenonT(30) DEF RoundTrip
  <1>1. noDuplicateStageName
    BY DEF selectValid
  <1>2. PICK flow : flow = toDatasource.stages
    OBVIOUS
  <1>3. PICK L \in Nat : DOMAIN parallels.ids = 1 .. L /\ Len(parallels.ids) = L
    BY DEF IInv, TypeOK
  <1>4. /\ DOMAIN flow = 1 .. L
        /\ flow = [i \in 1 .. L |->
                     [name  |-> getParallelName(parallels.ids[i]),
                      tasks |-> [k \in DOMAIN forks[parallels.ids[i]] |->
                                   nameOfStage(forks[parallels.ids[i]][k])]]]
    BY <1>2, <1>3 DEF toDatasource, nameOfStage
  <1>5. Len(flow) = L
    BY <1>4
  <1>6. \A i \in 1 .. L :
          /\ flow[i].name = getParallelName(parallels.ids[i])
          /\ DOMAIN flow[i].tasks = DOMAIN forks[parallels.ids[i]]
          /\ \A k \in DOMAIN forks[parallels.ids[i]] :
               flow[i].tasks[k] = nameOfStage(forks[parallels.ids[i]][k])
    BY <1>4
  <1>7. \A i \in 1 .. L : parallels.ids[i] \in DOMAIN forks /\ forks[parallels.ids[i]] \in Seq(Id)
    BY <1>3 DEF IInv, TypeOK, EveryStageInOneFork, ToSet
  <1>8. \A i \in 1 .. L : DOMAIN flow[i].tasks \subseteq Nat
    BY <1>6, <1>7
  <1>9. nextId \in Nat
    BY DEF IInv, TypeOK, Id
  <1>10. \A i \in 1 .. L : GroupAs(toDatasource, flow, again, i)
    BY <1>2, <1>4, <1>5, <1>8, <1>9, LoadedGroup
  <1>11. again.parallels.ids = [j \in 1 .. L |-> uuidOf(flow, j, 0)]
    BY <1>2, <1>4 DEF fromDatasource, reset
  <1>12. Len(again.parallels.ids) = L
    BY <1>11
  <1>13. ASSUME NEW i \in 1 .. L
         PROVE  LET old == parallels.ids[i]
                    new == again.parallels.ids[i]
                IN  /\ again.parallels.entities[new].name = getParallelName(old)
                    /\ Len(again.forks[new]) = Len(forks[old])
                    /\ \A k \in DOMAIN forks[old] :
                         LET o == forks[old][k]
                             n == again.forks[new][k]
                         IN  /\ again.stages.entities[n].name = stages.entities[o].name
                             /\ again.stages.entities[n].parent = new
                             /\ again.stageForms.entities[n].values
                                  = valuesAgain(stageForms.entities[o].values)
    <2>. DEFINE old == parallels.ids[i]
                new == again.parallels.ids[i]
    <2>1. new = uuidOf(flow, i, 0)
      BY <1>11
    <2>2. /\ again.parallels.entities[new].name = flow[i].name
          /\ again.forks[new] = flowIds(flow, i)
          /\ \A k \in DOMAIN flow[i].tasks :
               /\ again.stages.entities[uuidOf(flow, i, k)].name = flow[i].tasks[k]
               /\ again.stages.entities[uuidOf(flow, i, k)].parent = new
               /\ again.stageForms.entities[uuidOf(flow, i, k)].values
                    = loadedValues(toDatasource.graphValues[flow[i].tasks[k]])
      BY <1>10, <2>1 DEF GroupAs
    <2>. HIDE DEF new
    <2>3. flowIds(flow, i) = [k \in DOMAIN forks[old] |-> uuidOf(flow, i, k)]
      BY <1>6 DEF flowIds
    <2>4. Len(flowIds(flow, i)) = Len(forks[old])
      <3>1. PICK m \in Nat : Len(forks[old]) = m /\ DOMAIN forks[old] = 1 .. m
        BY <1>7
      <3>. QED
        BY <2>3, <3>1
    <2>5. ASSUME NEW k \in DOMAIN forks[old]
          PROVE  LET o == forks[old][k]
                     n == again.forks[new][k]
                 IN  /\ again.stages.entities[n].name = stages.entities[o].name
                     /\ again.stages.entities[n].parent = new
                     /\ again.stageForms.entities[n].values
                          = valuesAgain(stageForms.entities[o].values)
      <3>. DEFINE o == forks[old][k]
      <3>1. again.forks[new][k] = uuidOf(flow, i, k)
        BY <2>2, <2>3
      <3>2. o \in ToSet(stages.ids)
        <4>1. o \in ToSet(forks[old]) /\ old \in DOMAIN forks
          BY <1>7 DEF ToSet
        <4>. QED
          BY <4>1 DEF IInv, EveryStageInOneFork, Listed, inStep
      <3>a. stageForms.entities[o].values \in Values
        <4>1. o \in DOMAIN stageForms.entities
          BY <3>2 DEF IInv, FormsOfStages, Listed, inStep
        <4>. QED
          BY <4>1 DEF IInv, TypeOK
      <3>3. loadedValues(toDatasource.graphValues[nameOfStage(o)])
              = valuesAgain(stageForms.entities[o].values)
        BY <1>1, <3>2, <3>a, ValuesUnderName, TextsReadAgain
      <3>4. k \in DOMAIN flow[i].tasks /\ flow[i].tasks[k] = nameOfStage(o)
        BY <1>6
      <3>. HIDE DEF o
      <3>5. /\ again.stages.entities[again.forks[new][k]].name = stages.entities[o].name
            /\ again.stages.entities[again.forks[new][k]].parent = new
            /\ again.stageForms.entities[again.forks[new][k]].values
                 = valuesAgain(stageForms.entities[o].values)
        BY <2>2, <3>1, <3>3, <3>4 DEF nameOfStage
      <3>. QED
        BY <3>5 DEF o
    <2>6. again.parallels.entities[new].name = getParallelName(old)
          /\ Len(again.forks[new]) = Len(forks[old])
      BY <1>6, <2>2, <2>4
    <2>. QED
      BY <2>5, <2>6 DEF new
  <1>. QED
    BY <1>3, <1>12, <1>13

\* Opening what was saved shows what was there, for every pipeline the editor
\* can be brought to and every template: the same groups, stages and names, and
\* of every value what its serializor keeps, or the default where it keeps null.
THEOREM RoundTripAlways == Spec => []RoundTrip
  <1>1. IInv /\ Listed => RoundTrip
    BY OpensAgain
  <1>. QED
    BY <1>1, InvariantHolds, ListedHolds, PTL

-----------------------------------------------------------------------------
(* The diagram: every step of the reducers is a step of module             *)
(* PipelineDiagram, or none.                                               *)

flowShown == [i \in DOMAIN parallels.ids |-> forks[parallels.ids[i]]]
namesShown == [id \in DOMAIN stages.entities |-> stages.entities[id].name]
placeShown(path) ==
  IF path[1] \in {"after", "of", "parallel"} THEN <<path[1], positionOf(parallels.ids, path[2])>>
  ELSE path

\* The groups are the forks in the order of their parallels.
Drawn ==
  /\ flowShown \in Seq(Seq(Id)) /\ Len(flowShown) = Len(parallels.ids)
  /\ DOMAIN flowShown = 1 .. Len(parallels.ids) /\ Len(parallels.ids) \in Nat
  /\ \A i \in 1 .. Len(parallels.ids) :
       /\ parallels.ids[i] \in DOMAIN forks /\ flowShown[i] = forks[parallels.ids[i]]
       /\ flowShown[i] # <<>>
  /\ UNION {ToSet(flowShown[i]) : i \in DOMAIN flowShown} = DOMAIN stages.entities
  /\ DOMAIN namesShown = DOMAIN stages.entities

LEMMA InvariantDraws == IInv => Drawn
  <1>. SUFFICES ASSUME IInv
                PROVE  Drawn
    OBVIOUS
  <1>1. /\ parallels.ids \in Seq(Id) /\ DOMAIN parallels.ids = 1 .. Len(parallels.ids)
        /\ Len(parallels.ids) \in Nat
        /\ ToSet(parallels.ids) = DOMAIN forks
        /\ \A p \in DOMAIN forks : forks[p] \in Seq(Id) /\ forks[p] # <<>>
    BY DEF IInv, TypeOK, EveryStageInOneFork
  <1>2. \A i \in 1 .. Len(parallels.ids) :
          parallels.ids[i] \in DOMAIN forks /\ flowShown[i] = forks[parallels.ids[i]]
    BY <1>1 DEF flowShown, ToSet
  <1>3. /\ flowShown \in Seq(Seq(Id)) /\ Len(flowShown) = Len(parallels.ids)
        /\ DOMAIN flowShown = 1 .. Len(parallels.ids)
    <2>1. flowShown \in [1 .. Len(parallels.ids) -> Seq(Id)]
      BY <1>1, <1>2 DEF flowShown
    <2>. QED
      BY <1>1, <2>1
  <1>4. ASSUME NEW s
        PROVE  s \in DOMAIN stages.entities <=> \E i \in DOMAIN flowShown : s \in ToSet(flowShown[i])
    <2>1. s \in DOMAIN stages.entities <=> \E p \in DOMAIN forks : s \in ToSet(forks[p])
      BY DEF IInv, EveryStageInOneFork
    <2>2. \A p \in DOMAIN forks : \E i \in DOMAIN flowShown : flowShown[i] = forks[p]
      <3>1. \A p \in DOMAIN forks : \E i \in 1 .. Len(parallels.ids) : parallels.ids[i] = p
        BY <1>1 DEF ToSet
      <3>2. ASSUME NEW p \in DOMAIN forks
            PROVE  \E i \in DOMAIN flowShown : flowShown[i] = forks[p]
        <4>1. PICK i \in 1 .. Len(parallels.ids) : parallels.ids[i] = p
          BY <3>1
        <4>2. flowShown[i] = forks[p] /\ i \in DOMAIN flowShown
          BY <1>2, <1>3, <4>1
        <4>. QED
          BY <4>2
      <3>. QED
        BY <3>2
    <2>3. \A i \in DOMAIN flowShown : \E p \in DOMAIN forks : flowShown[i] = forks[p]
      BY <1>2, <1>3
    <2>. QED
      BY <2>1, <2>2, <2>3
  <1>5. UNION {ToSet(flowShown[i]) : i \in DOMAIN flowShown} = DOMAIN stages.entities
    BY <1>4
  <1>6. DOMAIN namesShown = DOMAIN stages.entities
    BY DEF namesShown
  <1>. QED
    BY <1>1, <1>2, <1>3, <1>5, <1>6 DEF Drawn

\* The operators of the community modules are the same in both modules.
LEMMA DiagramOperators ==
  /\ \A s, i, e : Diagram!InsertAt(s, i, e) = InsertAt(s, i, e)
  /\ \A s, i : Diagram!RemoveAt(s, i) = RemoveAt(s, i)
  /\ \A f, S : Diagram!Restrict(f, S) = Restrict(f, S)
  /\ \A s : Diagram!ToSet(s) = ToSet(s)
  /\ \A groups : Diagram!InFlow(groups) = UNION {ToSet(groups[i]) : i \in DOMAIN groups}
  <1>1. \A s, i, e : Diagram!InsertAt(s, i, e) = InsertAt(s, i, e)
    BY DEF Diagram!InsertAt, InsertAt
  <1>2. \A s, i : Diagram!RemoveAt(s, i) = RemoveAt(s, i)
    BY DEF Diagram!RemoveAt, RemoveAt
  <1>3. \A f, S : Diagram!Restrict(f, S) = Restrict(f, S)
    BY DEF Diagram!Restrict, Restrict
  <1>4. \A s : Diagram!ToSet(s) = ToSet(s)
    BY DEF Diagram!ToSet, ToSet
  <1>5. \A groups : Diagram!InFlow(groups) = UNION {ToSet(groups[i]) : i \in DOMAIN groups}
    BY <1>4 DEF Diagram!InFlow
  <1>. QED
    BY <1>1, <1>2, <1>3, <1>4, <1>5

\* The places that can be clicked.
LEMMA PathKinds ==
  ASSUME NEW path \in paths
  PROVE  \/ path = Unselected
         \/ \E x \in {NoId} \cup ToSet(parallels.ids) : path = <<"after", x>>
         \/ \E x \in ToSet(parallels.ids) : path \in {<<"parallel", x>>, <<"of", x>>}
         \/ \E s \in UNION {ToSet(forks[id]) : id \in ToSet(parallels.ids)} : path = <<"stage", s>>
  <1>. DEFINE U == UNION {ToSet(forks[id]) : id \in ToSet(parallels.ids)}
  <1>1. \A S, T : \A x \in S \X T : \E a \in S, b \in T : x = <<a, b>>
    OBVIOUS
  <1>2. \/ path = Unselected
        \/ path \in {"after"} \X ({NoId} \cup ToSet(parallels.ids))
        \/ path \in {"parallel", "of"} \X ToSet(parallels.ids)
        \/ path \in {"stage"} \X U
    BY DEF paths
  <1>. HIDE DEF U
  <1>3. \/ path = Unselected
        \/ \E x \in {NoId} \cup ToSet(parallels.ids) : path = <<"after", x>>
        \/ \E x \in ToSet(parallels.ids) : path \in {<<"parallel", x>>, <<"of", x>>}
        \/ \E s \in U : path = <<"stage", s>>
    BY <1>1, <1>2
  <1>. QED
    BY <1>3 DEF U

\* An empty list of parallels shows an empty flow.
LEMMA NothingShown ==
  ASSUME parallels.ids = <<>>
  PROVE  flowShown = <<>>
  BY DEF flowShown

LEMMA NoneBelow ==
  ASSUME NEW n, n = 1
  PROVE  1 .. n - 1 = {}
  <1>1. n - 1 = 0
    OBVIOUS
  <1>2. 1 .. 0 = {}
    OBVIOUS
  <1>. QED
    BY <1>1, <1>2

LEMMA InitShown == Init => Diagram!Init
  <1>. SUFFICES ASSUME Init
                PROVE  Diagram!Init
    OBVIOUS
  <1>1. parallels.ids = <<>> /\ stages.entities = <<>> /\ nextId = 1 /\ selected = <<"", 0>>
    BY DEF Init, emptyState, Unselected, NoId
  <1>2. flowShown = <<>>
    BY <1>1, NothingShown
  <1>3. namesShown = <<>>
    <2>1. \A id : id \notin DOMAIN <<>>
      OBVIOUS
    <2>2. \A id : id \notin DOMAIN stages.entities
      BY <1>1, <2>1, Zenon
    <2>. QED
      BY <2>2 DEF namesShown
  <1>4. 1 .. nextId - 1 = {}
    BY <1>1, NoneBelow
  <1>5. placeShown(selected) = <<"", 0>>
    BY <1>1 DEF placeShown
  <1>. QED
    BY <1>2, <1>3, <1>4, <1>5 DEF Diagram!Init, Diagram!Nowhere, flowShown, namesShown, placeShown

\* A saved pipeline is shown.
LEMMA OpenShown ==
  ASSUME IInv, IInv', Open
  PROVE  Diagram!Load
  <1>1. Drawn'
    BY InvariantDraws, PTL
  <1>2. nextId = 1 /\ selected = <<"", 0>> /\ selected' = selected
    BY DEF Open, RESET_PIPELINE, Unselected, NoId
  <1>3. parallels.ids = <<>>
    <2>1. parallels.ids \in Seq(Id) /\ \A i \in 1 .. Len(parallels.ids) : parallels.ids[i] < 1
      <3>1. parallels.ids \in Seq(Id) /\ \A id \in ToSet(parallels.ids) : id < 1
        BY <1>2 DEF IInv, TypeOK, Fresh
      <3>2. \A i \in 1 .. Len(parallels.ids) : parallels.ids[i] \in ToSet(parallels.ids)
        BY <3>1 DEF ToSet
      <3>. QED
        BY <3>1, <3>2
    <2>2. \A i \in 1 .. Len(parallels.ids) : parallels.ids[i] \in Nat /\ parallels.ids[i] >= 1
      BY <2>1 DEF Id
    <2>3. Len(parallels.ids) = 0
      <3>1. Len(parallels.ids) \in Nat
        BY <2>1
      <3>2. Len(parallels.ids) > 0 => 1 \in 1 .. Len(parallels.ids)
        BY <3>1
      <3>. QED
        BY <2>1, <2>2, <3>1, <3>2
    <2>. QED
      BY <2>1, <2>3
  <1>4. flowShown = <<>>
    BY <1>3, NothingShown
  <1>5. placeShown(selected) = <<"", 0>> /\ placeShown(selected)' = <<"", 0>>
    BY <1>2 DEF placeShown
  <1>6. 1 .. nextId - 1 = {}
    BY <1>2, NoneBelow
  <1>7. \A s \in DOMAIN stages'.entities : s \in 1 .. nextId' - 1
    <2>1. \A s \in DOMAIN stages'.entities : s \in Id
      <3>1. (IInv => \A s \in DOMAIN stages.entities : s \in Id)
        BY DEF IInv, EveryStageInOneFork, TypeOK, ToSet
      <3>. QED
        BY <1>1 DEF Drawn, ToSet
    <2>2. nextId' \in Id /\ \A s \in DOMAIN stages'.entities : s < nextId'
      BY DEF IInv, TypeOK, Fresh
    <2>. QED
      BY <2>1, <2>2 DEF Id
  <1>8. \A i \in DOMAIN flowShown' : flowShown'[i] # <<>>
    BY <1>1 DEF Drawn
  <1>9. Diagram!InFlow(flowShown)' = DOMAIN stages'.entities /\ DOMAIN namesShown' = DOMAIN stages'.entities
    BY <1>1, DiagramOperators DEF Drawn
  <1>. QED
    BY <1>4, <1>5, <1>6, <1>7, <1>8, <1>9
       DEF Diagram!Load, Diagram!Nowhere, flowShown, namesShown, placeShown

\* What is clicked is where it is shown.
LEMMA SelectShown ==
  ASSUME IInv, Select
  PROVE  Diagram!Click
  <1>1. Drawn
    BY InvariantDraws
  <1>2. PICK path \in paths : SELECT(path)
    BY DEF Select
  <1>3. selected' = path /\ UNCHANGED <<parallels, forks, stages, nextId>>
    BY <1>2 DEF SELECT
  <1>4. UNCHANGED <<flowShown, namesShown>> /\ 1 .. nextId' - 1 = 1 .. nextId - 1
    BY <1>3 DEF flowShown, namesShown
  <1>5. placeShown(selected)' = placeShown(path)
    BY <1>3 DEF placeShown
  <1>6. /\ parallels.ids \in Seq(Id) /\ IsInjective(parallels.ids)
        /\ NoId \notin ToSet(parallels.ids)
    BY DEF IInv, TypeOK, inStep, NoId, Id, ToSet
  <1>7. /\ \A x \in ToSet(parallels.ids) :
             positionOf(parallels.ids, x) \in DOMAIN flowShown
        /\ positionOf(parallels.ids, NoId) = 0
        /\ \A i \in DOMAIN flowShown : i \in 0 .. Len(flowShown)
        /\ 0 \in 0 .. Len(flowShown)
    BY <1>1, <1>6, PositionOfFinds DEF Drawn
  <1>8. \/ placeShown(path) = <<"", 0>>
        \/ \E i \in 0 .. Len(flowShown) : placeShown(path) = <<"after", i>>
        \/ \E i \in DOMAIN flowShown : placeShown(path) \in {<<"parallel", i>>, <<"of", i>>}
        \/ \E s \in Diagram!InFlow(flowShown) : placeShown(path) = <<"stage", s>>
    <2>1. CASE path = Unselected
      BY <2>1 DEF placeShown, Unselected, NoId
    <2>2. ASSUME NEW x \in {NoId} \cup ToSet(parallels.ids), path = <<"after", x>>
          PROVE  \E i \in 0 .. Len(flowShown) : placeShown(path) = <<"after", i>>
      BY <1>7, <2>2 DEF placeShown
    <2>3. ASSUME NEW x \in ToSet(parallels.ids), path \in {<<"parallel", x>>, <<"of", x>>}
          PROVE  \E i \in DOMAIN flowShown : placeShown(path) \in {<<"parallel", i>>, <<"of", i>>}
      BY <1>7, <2>3 DEF placeShown
    <2>4. ASSUME NEW s \in UNION {ToSet(forks[id]) : id \in ToSet(parallels.ids)},
                 path = <<"stage", s>>
          PROVE  \E t \in Diagram!InFlow(flowShown) : placeShown(path) = <<"stage", t>>
      <3>1. PICK p \in ToSet(parallels.ids) : s \in ToSet(forks[p])
        BY <2>4
      <3>2. s \in DOMAIN stages.entities
        BY <3>1 DEF IInv, EveryStageInOneFork
      <3>3. s \in Diagram!InFlow(flowShown)
        BY <1>1, <3>2, DiagramOperators DEF Drawn
      <3>. QED
        BY <2>4, <3>3 DEF placeShown
    <2>. QED
      BY <2>1, <2>2, <2>3, <2>4, PathKinds
  <1>. QED
    BY <1>4, <1>5, <1>8 DEF Diagram!Click, Diagram!Nowhere, flowShown, namesShown, placeShown

\* A list of parallels without one of them shows the other groups.
LEMMA RemovedShown ==
  ASSUME IInv, NEW i \in 1 .. Len(parallels.ids),
         parallels'.ids = RemoveAt(parallels.ids, i),
         DOMAIN forks' = DOMAIN forks \ {parallels.ids[i]},
         \A p \in DOMAIN forks' : forks'[p] = forks[p]
  PROVE  flowShown' = RemoveAt(flowShown, i)
  <1>. DEFINE ids == parallels.ids
              left == RemoveAt(flowShown, i)
  <1>1. Drawn /\ ids \in Seq(Id) /\ IsInjective(ids)
    BY InvariantDraws DEF IInv, TypeOK, inStep
  <1>2. /\ Len(parallels'.ids) = Len(ids) - 1 /\ DOMAIN parallels'.ids = 1 .. Len(ids) - 1
        /\ \A j \in 1 .. Len(ids) - 1 : parallels'.ids[j] = IF j < i THEN ids[j] ELSE ids[j + 1]
    <2>1. /\ RemoveAt(ids, i) \in Seq(Id) /\ Len(RemoveAt(ids, i)) = Len(ids) - 1
          /\ \A j \in 1 .. Len(ids) - 1 :
               RemoveAt(ids, i)[j] = IF j < i THEN ids[j] ELSE ids[j + 1]
      BY <1>1, RemoveAtProperties
    <2>. QED
      BY <2>1
  <1>3. /\ left \in Seq(Seq(Id)) /\ Len(left) = Len(ids) - 1
        /\ \A j \in 1 .. Len(ids) - 1 : left[j] = IF j < i THEN flowShown[j] ELSE flowShown[j + 1]
    <2>1. flowShown \in Seq(Seq(Id)) /\ i \in 1 .. Len(flowShown) /\ Len(flowShown) = Len(ids)
      BY <1>1 DEF Drawn
    <2>. QED
      BY <2>1, RemoveAtProperties
  <1>. HIDE DEF left
  <1>4. ASSUME NEW j \in 1 .. Len(ids) - 1
        PROVE  forks'[parallels'.ids[j]] = left[j]
    <2>1. \A n \in 1 .. Len(ids) : /\ ids[n] \in DOMAIN forks /\ flowShown[n] = forks[ids[n]]
                                   /\ ids[n] = ids[i] => n = i
      BY <1>1 DEF Drawn, IsInjective
    <2>2. PICK n \in 1 .. Len(ids) : n = IF j < i THEN j ELSE j + 1
      BY <1>1
    <2>3. n # i /\ parallels'.ids[j] = ids[n] /\ left[j] = flowShown[n]
      <3>1. n # i
        BY <2>2
      <3>2. parallels'.ids[j] = ids[n]
        BY <1>2, <2>2
      <3>3. left[j] = flowShown[n]
        BY <1>3, <2>2
      <3>. QED
        BY <3>1, <3>2, <3>3
    <2>. QED
      BY <2>1, <2>3
  <1>5. left = [j \in 1 .. Len(ids) - 1 |-> left[j]]
    BY <1>3
  <1>. QED
    BY <1>2, <1>4, <1>5 DEF flowShown, left

\* What is put in is shown at the cursor: a group of its own in the gap.
LEMMA AddParallelShown ==
  ASSUME IInv, NEW after, selected = <<"after", after>>, ADD_PARALLEL_BY_STAGE(after)
  PROVE  Diagram!Add
  <1>s. PICK s : s = nextId
    OBVIOUS
  <1>p. PICK p : p = positionOf(parallels.ids, after) + 1
    OBVIOUS
  <1>. DEFINE ids == parallels.ids
              new == InsertAt(flowShown, p, <<s>>)
  <1>1. Drawn
    BY InvariantDraws
  <1>2. /\ parallels'.ids = InsertAt(ids, p, s) /\ forks' = put(forks, s, <<s>>)
        /\ stages'.entities = put(stages.entities, s, [name |-> NoName, parent |-> s])
        /\ selected' = <<"stage", s>> /\ nextId' = s + 1
    BY <1>s, <1>p DEF ADD_PARALLEL_BY_STAGE, insertAfter, append
  <1>3. s \in Id /\ ids \in Seq(Id) /\ IsInjective(ids) /\ s \notin DOMAIN forks
    <2>1. s \in Id /\ ids \in Seq(Id) /\ IsInjective(ids)
      BY <1>s DEF IInv, TypeOK, inStep
    <2>2. \A id \in DOMAIN forks : id < s
      BY <1>s DEF IInv, Fresh, EveryStageInOneFork
    <2>. QED
      BY <2>1, <2>2 DEF Id
  <1>4. p \in 1 .. Len(ids) + 1
    BY <1>p, <1>3, PositionOfFinds
  <1>5. placeShown(selected) = <<"after", p - 1>> /\ placeShown(selected)' = <<"stage", s>>
    <2>1. placeShown(selected) = <<"after", positionOf(ids, after)>> /\ p - 1 = positionOf(ids, after)
      BY <1>p, <1>3, PositionOfFinds DEF placeShown
    <2>2. placeShown(selected)' = <<"stage", s>>
      BY <1>2 DEF placeShown
    <2>. QED
      BY <2>1, <2>2
  <1>. HIDE DEF ids
  <1>6. /\ Len(parallels'.ids) = Len(ids) + 1
        /\ DOMAIN parallels'.ids = 1 .. Len(ids) + 1
        /\ \A j \in 1 .. Len(ids) + 1 :
             parallels'.ids[j] = IF j < p THEN ids[j] ELSE IF j = p THEN s ELSE ids[j - 1]
    <2>1. /\ InsertAt(ids, p, s) \in Seq(Id) /\ Len(InsertAt(ids, p, s)) = Len(ids) + 1
          /\ \A j \in 1 .. Len(ids) + 1 :
               InsertAt(ids, p, s)[j] = IF j < p THEN ids[j] ELSE IF j = p THEN s ELSE ids[j - 1]
      <3>1. \A q \in 1 .. Len(ids) + 1 : \A x \in Id :
              /\ InsertAt(ids, q, x) \in Seq(Id) /\ Len(InsertAt(ids, q, x)) = Len(ids) + 1
              /\ \A j \in 1 .. Len(ids) + 1 :
                   InsertAt(ids, q, x)[j] = IF j < q THEN ids[j] ELSE IF j = q THEN x ELSE ids[j - 1]
        <4>1. ids \in Seq(Id)
          BY <1>3
        <4>. QED
          BY <4>1, InsertAtProperties
      <3>. QED
        BY <1>3, <1>4, <3>1
    <2>. QED
      BY <1>2, <2>1
  <1>7. /\ new \in Seq(Seq(Id)) /\ Len(new) = Len(ids) + 1
        /\ \A j \in 1 .. Len(ids) + 1 :
             new[j] = IF j < p THEN flowShown[j] ELSE IF j = p THEN <<s>> ELSE flowShown[j - 1]
    <2>1. /\ flowShown \in Seq(Seq(Id)) /\ <<s>> \in Seq(Id) /\ Len(flowShown) = Len(ids)
      BY <1>1, <1>3 DEF Drawn, ids
    <2>2. p \in 1 .. Len(flowShown) + 1
      BY <1>4, <2>1
    <2>. DEFINE S == Seq(Id)
                g == <<s>>
    <2>3. flowShown \in Seq(S) /\ g \in S
      BY <2>1
    <2>. HIDE DEF S, g
    <2>5. \A q \in 1 .. Len(flowShown) + 1 : \A x \in S :
            /\ InsertAt(flowShown, q, x) \in Seq(S)
            /\ Len(InsertAt(flowShown, q, x)) = Len(flowShown) + 1
            /\ \A j \in 1 .. Len(flowShown) + 1 :
                 InsertAt(flowShown, q, x)[j]
                   = IF j < q THEN flowShown[j] ELSE IF j = q THEN x ELSE flowShown[j - 1]
      BY <2>3, InsertAtProperties
    <2>4. /\ InsertAt(flowShown, p, g) \in Seq(S)
          /\ Len(InsertAt(flowShown, p, g)) = Len(flowShown) + 1
          /\ \A j \in 1 .. Len(flowShown) + 1 :
               InsertAt(flowShown, p, g)[j]
                 = IF j < p THEN flowShown[j] ELSE IF j = p THEN g ELSE flowShown[j - 1]
      BY <2>2, <2>3, <2>5
    <2>. QED
      BY <2>1, <2>4 DEF S, g
  <1>. HIDE DEF new
  <1>8. flowShown' = new
    <2>1. ASSUME NEW j \in 1 .. Len(ids) + 1
          PROVE  forks'[parallels'.ids[j]] = new[j]
      <3>1. \A i \in 1 .. Len(ids) : ids[i] \in DOMAIN forks /\ flowShown[i] = forks[ids[i]]
        BY <1>1 DEF Drawn, ids
      <3>2. forks'[s] = <<s>> /\ \A id \in DOMAIN forks : forks'[id] = forks[id]
        BY <1>2, <1>3 DEF put
      <3>3. j < p => j \in 1 .. Len(ids)
        BY <1>3, <1>4
      <3>4. ~ (j < p) /\ j # p => j - 1 \in 1 .. Len(ids)
        BY <1>3, <1>4
      <3>5. parallels'.ids[j] = IF j < p THEN ids[j] ELSE IF j = p THEN s ELSE ids[j - 1]
        BY <1>6
      <3>6. new[j] = IF j < p THEN flowShown[j] ELSE IF j = p THEN <<s>> ELSE flowShown[j - 1]
        BY <1>7
      <3>7. CASE j < p
        BY <3>1, <3>2, <3>3, <3>5, <3>6, <3>7
      <3>8. CASE j = p
        BY <1>3, <1>4, <3>2, <3>5, <3>6, <3>8
      <3>9. CASE ~ (j < p) /\ j # p
        BY <3>1, <3>2, <3>4, <3>5, <3>6, <3>9
      <3>. QED
        BY <3>7, <3>8, <3>9
    <2>2. DOMAIN new = 1 .. Len(ids) + 1
      BY <1>7
    <2>3. new = [j \in 1 .. Len(ids) + 1 |-> new[j]]
      BY <1>7, <2>2
    <2>. QED
      BY <1>6, <2>1, <2>3 DEF flowShown
  <1>9. namesShown' = [t \in DOMAIN namesShown \cup {s} |-> IF t = s THEN NoName ELSE namesShown[t]]
    BY <1>2 DEF put, namesShown
  <1>10. /\ s \in (1 .. nextId' - 1) \ (1 .. nextId - 1)
         /\ 1 .. nextId' - 1 = (1 .. nextId - 1) \cup {s}
    BY <1>s, <1>2, <1>3 DEF Id
  <1>11. Diagram!AddGroup(s)
    <2>1. placeShown(selected)[1] = "after" /\ placeShown(selected)[2] + 1 = p
      BY <1>3, <1>4, <1>5
    <2>2. flowShown' = Diagram!InsertAt(flowShown, placeShown(selected)[2] + 1, <<s>>)
      BY <1>8, <2>1, DiagramOperators DEF new
    <2>. QED
      BY <2>1, <2>2 DEF Diagram!AddGroup, flowShown, placeShown
  <1>. QED
    BY <1>5, <1>9, <1>10, <1>11 DEF Diagram!Add, namesShown, placeShown

\* Or the last stage of the group.
LEMMA AddStageShown ==
  ASSUME IInv, NEW parallel \in ToSet(parallels.ids), selected = <<"of", parallel>>,
         ADD_STAGE(parallel)
  PROVE  Diagram!Add
  <1>s. PICK s : s = nextId
    OBVIOUS
  <1>. DEFINE ids == parallels.ids
              p == positionOf(ids, parallel)
  <1>1. Drawn
    BY InvariantDraws
  <1>2. /\ parallels' = parallels /\ forks' = put(forks, parallel, Append(forks[parallel], s))
        /\ stages'.entities = put(stages.entities, s, [name |-> NoName, parent |-> parallel])
        /\ selected' = <<"stage", s>> /\ nextId' = s + 1
    BY <1>s DEF ADD_STAGE, append
  <1>3. s \in Id /\ ids \in Seq(Id) /\ IsInjective(ids) /\ parallel \in DOMAIN forks
    BY <1>s DEF IInv, TypeOK, inStep, EveryStageInOneFork
  <1>4. p \in 1 .. Len(ids) /\ ids[p] = parallel
    BY <1>3, PositionOfFinds
  <1>5. placeShown(selected) = <<"of", p>> /\ placeShown(selected)' = <<"stage", s>>
    BY <1>2 DEF placeShown
  <1>. HIDE DEF p
  <1>6. flowShown' = [flowShown EXCEPT ![p] = Append(@, s)]
    <2>1. \A i \in 1 .. Len(ids) : forks'[ids[i]] = IF i = p THEN Append(forks[parallel], s)
                                                      ELSE forks[ids[i]]
      <3>1. \A i \in 1 .. Len(ids) : ids[i] \in DOMAIN forks /\ (ids[i] = parallel => i = p)
        BY <1>1, <1>3, <1>4 DEF Drawn, IsInjective
      <3>. QED
        BY <1>2, <1>3, <1>4, <3>1 DEF put
    <2>2. DOMAIN ids = 1 .. Len(ids)
      BY <1>3
    <2>. QED
      BY <1>2, <1>4, <2>1, <2>2 DEF flowShown
  <1>7. namesShown' = [t \in DOMAIN namesShown \cup {s} |-> IF t = s THEN NoName ELSE namesShown[t]]
    BY <1>2 DEF put, namesShown
  <1>8. /\ s \in (1 .. nextId' - 1) \ (1 .. nextId - 1)
        /\ 1 .. nextId' - 1 = (1 .. nextId - 1) \cup {s}
    BY <1>s, <1>2, <1>3 DEF Id
  <1>9. Diagram!AddToGroup(s)
    BY <1>5, <1>6 DEF Diagram!AddToGroup, flowShown, placeShown
  <1>. QED
    BY <1>5, <1>7, <1>8, <1>9 DEF Diagram!Add, namesShown, placeShown

\* What goes is no longer shown, and its group with it when it was alone.
LEMMA RemoveStageShown ==
  ASSUME IInv, NEW id \in DOMAIN stages.entities, selected = <<"stage", id>>,
         REMOVE_STAGE(id, stages.entities[id].parent)
  PROVE  \E i \in DOMAIN flowShown : \E k \in DOMAIN flowShown[i] : Diagram!RemoveStage(i, k)
  <1>. DEFINE ids == parallels.ids
              parent == stages.entities[id].parent
              rest == without(forks[parent], id)
  <1>i. PICK i : i = positionOf(ids, parent)
    OBVIOUS
  <1>k. PICK k : k = positionOf(forks[parent], id)
    OBVIOUS
  <1>1. Drawn
    BY InvariantDraws
  <1>2. /\ parent \in DOMAIN forks /\ parent \in ToSet(ids) /\ id \in ToSet(forks[parent])
        /\ forks[parent] \in Seq(Id) /\ IsInjective(forks[parent])
        /\ ids \in Seq(Id) /\ IsInjective(ids)
    BY DEF IInv, TypeOK, inStep, EveryStageInOneFork
  <1>3. /\ forks' = IF rest = <<>> THEN Restrict(forks, DOMAIN forks \ {parent})
                    ELSE [forks EXCEPT ![parent] = rest]
        /\ parallels' = IF parent \in DOMAIN forks' THEN parallels ELSE remove(parallels, parent)
        /\ stages'.entities = Restrict(stages.entities, DOMAIN stages.entities \ {id})
        /\ selected' = <<"", 0>> /\ nextId' = nextId
    BY <1>2 DEF REMOVE_STAGE, forksWithout, remove, Unselected, NoId
  <1>4. i \in 1 .. Len(ids) /\ ids[i] = parent
    BY <1>i, <1>2, PositionOfFinds
  <1>5. k \in 1 .. Len(forks[parent]) /\ forks[parent][k] = id
    BY <1>k, <1>2, PositionOfFinds
  <1>6. rest = RemoveAt(forks[parent], k)
    BY <1>k, <1>2 DEF without
  <1>. HIDE DEF rest
  <1>7. i \in DOMAIN flowShown /\ flowShown[i] = forks[parent] /\ k \in DOMAIN flowShown[i]
    BY <1>1, <1>2, <1>4, <1>5 DEF Drawn
  <1>8. rest \in Seq(Id) /\ Len(rest) = Len(forks[parent]) - 1
    BY <1>2, <1>5, <1>6, RemoveAtProperties
  <1>9. rest = <<>> <=> Len(flowShown[i]) = 1
    <2>1. \A q \in Seq(Id) : q = <<>> <=> Len(q) = 0
      OBVIOUS
    <2>2. rest = <<>> <=> Len(rest) = 0
      BY <1>8, <2>1
    <2>3. Len(forks[parent]) \in Nat /\ Len(flowShown[i]) = Len(forks[parent])
      BY <1>2, <1>7
    <2>. QED
      BY <1>8, <2>2, <2>3
  <1>10. \A j \in 1 .. Len(ids) : /\ ids[j] \in DOMAIN forks /\ flowShown[j] = forks[ids[j]]
                                  /\ ids[j] = parent => j = i
    BY <1>1, <1>2, <1>4 DEF Drawn, IsInjective
  <1>11. flowShown' = IF Len(flowShown[i]) = 1 THEN RemoveAt(flowShown, i)
                      ELSE [flowShown EXCEPT ![i] = RemoveAt(@, k)]
    <2>1. CASE rest = <<>>
      <3>1. /\ DOMAIN forks' = DOMAIN forks \ {parent}
            /\ \A p \in DOMAIN forks' : forks'[p] = forks[p]
        BY <1>3, <2>1 DEF Restrict
      <3>2. parallels'.ids = RemoveAt(ids, i)
        BY <1>i, <1>2, <1>3, <3>1 DEF remove, without
      <3>. QED
        BY <1>2, <1>4, <1>9, <1>10, <2>1, <3>1, <3>2, RemovedShown
    <2>2. CASE rest # <<>>
      <3>1. /\ DOMAIN forks' = DOMAIN forks
            /\ \A p \in DOMAIN forks : forks'[p] = IF p = parent THEN rest ELSE forks[p]
        BY <1>3, <2>2
      <3>2. parallels' = parallels
        BY <1>2, <1>3, <3>1
      <3>3. DOMAIN ids = 1 .. Len(ids)
        BY <1>2
      <3>4. \A j \in 1 .. Len(ids) : forks'[ids[j]] = IF j = i THEN RemoveAt(flowShown[i], k)
                                                      ELSE flowShown[j]
        BY <1>4, <1>6, <1>7, <1>10, <3>1
      <3>5. flowShown' = [flowShown EXCEPT ![i] = RemoveAt(@, k)]
        BY <1>4, <3>2, <3>3, <3>4 DEF flowShown
      <3>. QED
        BY <1>9, <2>2, <3>5
    <2>. QED
      BY <2>1, <2>2
  <1>12. namesShown' = Restrict(namesShown, DOMAIN namesShown \ {flowShown[i][k]})
    BY <1>3, <1>5, <1>7 DEF namesShown, Restrict
  <1>13. placeShown(selected) = <<"stage", flowShown[i][k]>> /\ placeShown(selected)' = <<"", 0>>
    BY <1>3, <1>5, <1>7 DEF placeShown
  <1>14. Diagram!RemoveStage(i, k)
    BY <1>3, <1>11, <1>12, <1>13, DiagramOperators
       DEF Diagram!RemoveStage, Diagram!Nowhere, flowShown, namesShown, placeShown
  <1>. QED
    BY <1>7, <1>14

\* A parallel goes with its group.
LEMMA RemoveParallelShown ==
  ASSUME IInv, NEW id \in ToSet(parallels.ids), selected = <<"parallel", id>>,
         REMOVE_PARALLEL(id)
  PROVE  \E i \in DOMAIN flowShown : Diagram!RemoveGroup(i)
  <1>. DEFINE ids == parallels.ids
  <1>i. PICK i : i = positionOf(ids, id)
    OBVIOUS
  <1>1. Drawn
    BY InvariantDraws
  <1>2. /\ ids \in Seq(Id) /\ IsInjective(ids) /\ id \in DOMAIN forks
    BY DEF IInv, TypeOK, inStep, EveryStageInOneFork
  <1>3. /\ forks' = Restrict(forks, DOMAIN forks \ {id})
        /\ parallels'.ids = RemoveAt(ids, i)
        /\ stages'.entities = Restrict(stages.entities, DOMAIN stages.entities \ ToSet(forks[id]))
        /\ selected' = <<"", 0>> /\ nextId' = nextId
    BY <1>i, <1>2 DEF REMOVE_PARALLEL, remove, removeAll, without, Unselected, NoId
  <1>4. i \in 1 .. Len(ids) /\ ids[i] = id
    BY <1>i, <1>2, PositionOfFinds
  <1>5. placeShown(selected) = <<"parallel", i>> /\ placeShown(selected)' = <<"", 0>>
    BY <1>i, <1>3 DEF placeShown
  <1>6. i \in DOMAIN flowShown /\ flowShown[i] = forks[id]
    BY <1>1, <1>4 DEF Drawn
  <1>7. flowShown' = RemoveAt(flowShown, i)
    <2>1. /\ DOMAIN forks' = DOMAIN forks \ {id}
          /\ \A p \in DOMAIN forks' : forks'[p] = forks[p]
      BY <1>3 DEF Restrict
    <2>. QED
      BY <1>2, <1>3, <1>4, <2>1, RemovedShown
  <1>8. namesShown' = Restrict(namesShown, DOMAIN namesShown \ ToSet(flowShown[i]))
    BY <1>3, <1>6 DEF namesShown, Restrict
  <1>9. Diagram!RemoveGroup(i)
    BY <1>3, <1>5, <1>7, <1>8, DiagramOperators
       DEF Diagram!RemoveGroup, Diagram!Nowhere, flowShown, namesShown, placeShown
  <1>. QED
    BY <1>6, <1>9

\* A name is shown on its stage.
LEMMA RenameShown ==
  ASSUME IInv, NEW id \in DOMAIN stages.entities, selected = <<"stage", id>>,
         NEW name \in Name \cup {NoName}, CHANGE_STAGE_NAME(id, name)
  PROVE  \E s \in DOMAIN namesShown : Diagram!Rename(s)
  <1>1. /\ stages'.entities = put(stages.entities, id, [stages.entities[id] EXCEPT !.name = name])
        /\ UNCHANGED <<parallels, forks, selected, nextId>>
    BY DEF CHANGE_STAGE_NAME, update, IInv, TypeOK
  <1>2. stages.entities[id] \in [name : Name \cup {NoName}, parent : Id]
    BY DEF IInv, TypeOK
  <1>3. [stages.entities[id] EXCEPT !.name = name].name = name
    BY <1>2
  <1>4. namesShown' = [namesShown EXCEPT ![id] = name] /\ id \in DOMAIN namesShown
    BY <1>1, <1>3 DEF namesShown, put
  <1>5. flowShown' = flowShown /\ placeShown(selected) = <<"stage", id>>
        /\ placeShown(selected)' = placeShown(selected)
    BY <1>1 DEF flowShown, placeShown
  <1>6. Diagram!Rename(id)
    BY <1>1, <1>4, <1>5 DEF Diagram!Rename, flowShown, namesShown, placeShown
  <1>. QED
    BY <1>4, <1>6

\* Values, options, settings and the names of parallels are not shown.
LEMMA NothingChanges ==
  ASSUME parallels'.ids = parallels.ids, UNCHANGED <<forks, stages, selected, nextId>>
  PROVE  UNCHANGED Diagram!vars
  BY DEF Diagram!vars

\* A path has two components.
LEMMA PathPair ==
  ASSUME IInv
  PROVE  selected = <<selected[1], selected[2]>>
  <1>1. \E what, x : selected = <<what, x>>
    BY PathKinds DEF IInv, SelectedExists, Unselected
  <1>. QED
    BY <1>1

LEMMA NextShown ==
  ASSUME IInv, [Next]_storeVars
  PROVE  [Diagram!Next]_(Diagram!vars)
  <1>1. CASE Open
    BY <1>1, NextPreserves, OpenShown DEF Diagram!Next, Next
  <1>2. CASE Select
    BY <1>2, SelectShown DEF Diagram!Next
  <1>3. CASE PickTask
    <2>1. selected = <<selected[1], selected[2]>>
      BY PathPair
    <2>2. CASE selected[1] = "after" /\ ADD_PARALLEL_BY_STAGE(selected[2])
      <3>1. selected = <<"after", selected[2]>>
        BY <2>1, <2>2
      <3>. QED
        BY <2>2, <3>1, AddParallelShown DEF Diagram!Next
    <2>3. CASE selected[1] = "of" /\ ADD_STAGE(selected[2])
      <3>1. selected = <<"of", selected[2]>> /\ selected[2] \in ToSet(parallels.ids)
        BY <2>1, <2>3, SelectedParallel
      <3>. QED
        BY <2>3, <3>1, AddStageShown DEF Diagram!Next
    <2>. QED
      BY <1>3, <2>2, <2>3 DEF PickTask
  <1>4. CASE RemoveSelected
    <2>1. selected = <<selected[1], selected[2]>>
      BY PathPair
    <2>2. CASE /\ selected[1] = "stage"
               /\ REMOVE_STAGE(selected[2], stages.entities[selected[2]].parent)
      BY <2>1, <2>2, SelectedStage, RemoveStageShown DEF Diagram!Next, flowShown
    <2>3. CASE selected[1] = "parallel" /\ REMOVE_PARALLEL(selected[2])
      BY <2>1, <2>3, SelectedParallel, RemoveParallelShown DEF Diagram!Next, flowShown
    <2>. QED
      BY <1>4, <2>2, <2>3 DEF RemoveSelected
  <1>5. CASE Edit
    <2>1. selected = <<selected[1], selected[2]>>
      BY PathPair
    <2>2. ASSUME selected[1] = "stage", NEW name \in Name \cup {NoName},
                 CHANGE_STAGE_NAME(selected[2], name)
          PROVE  [Diagram!Next]_(Diagram!vars)
      BY <2>1, <2>2, SelectedStage, RenameShown DEF Diagram!Next, namesShown
    <2>3. ASSUME NEW values \in Values, TRY_CHANGE_STAGE_VALUES(selected[2], values)
          PROVE  [Diagram!Next]_(Diagram!vars)
      BY <2>3, NothingChanges DEF TRY_CHANGE_STAGE_VALUES, CHANGE_STAGE_VALUES
    <2>4. ASSUME NEW name \in Name \cup {NoName}, CHANGE_PARALLEL_NAME(selected[2], name)
          PROVE  [Diagram!Next]_(Diagram!vars)
      BY <2>4, NothingChanges DEF CHANGE_PARALLEL_NAME, update, IInv, TypeOK
    <2>5. ASSUME NEW ok \in BOOLEAN, CHANGE_PIPELINE_SETTINGS(ok)
          PROVE  [Diagram!Next]_(Diagram!vars)
      BY <2>5, NothingChanges DEF CHANGE_PIPELINE_SETTINGS
    <2>. QED
      BY <1>5, <2>2, <2>3, <2>4, <2>5 DEF Edit
  <1>6. CASE Receive \/ UNCHANGED storeVars
    BY <1>6, NothingChanges DEF Receive, RECEIVE_STAGE_OPTIONS, storeVars
  <1>. QED
    BY <1>1, <1>2, <1>3, <1>4, <1>5, <1>6 DEF Next

\* For any saved pipelines, names and fields, and however many stages: whatever is
\* added, removed, renamed, selected and loaded, the four slices of the store show
\* one flow of groups, as module PipelineDiagram has it.
THEOREM DiagramAlways == Spec => DiagramSpec
  <1>1. Init => Diagram!Init
    BY InitShown
  <1>2. IInv /\ [Next]_storeVars => [Diagram!Next]_(Diagram!vars)
    BY NextShown
  <1>. QED
    BY <1>1, <1>2, InvariantHolds, PTL DEF Spec, DiagramSpec, Diagram!Spec
=============================================================================
