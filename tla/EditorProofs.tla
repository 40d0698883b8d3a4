---------------------------- MODULE EditorProofs -----------------------------
(***************************************************************************)
(* The debounced forms and the delayed answers of the editor do to the     *)
(* store what its own specification allows, whatever the fields are.       *)
(***************************************************************************)
EXTENDS PipelineEditor, PipelineStoreProofs

OptionsOfFields ==
  \A id \in DOMAIN stageForms.entities : DOMAIN stageForms.entities[id].options = Field

\* What is typed belongs to what is selected, and the hidden fields are not
\* typed in.
NameDraft ==
  typedName # NoDraft =>
    /\ selected[1] \in {"stage", "parallel"}
    /\ \E name \in Name \cup {NoName} : typedName = [path |-> selected, name |-> name]

ValuesDraft ==
  typedValues # NoDraft =>
    /\ selected[1] = "stage"
    /\ \E values \in Values :
         /\ typedValues = [stage |-> selected[2], values |-> values]
         /\ \A f \in Field : hidden(f, stageForms.entities[selected[2]].values)
              => values[f] = stageForms.entities[selected[2]].values[f]

\* Whatever the resolvers look at is announced to their fields.
AllAnnounced == \A f \in Resolved : announced(f)

\* A load that was made for a form fits it: it answers what is pending, and
\* it still answers it for the present values.
Suits(load, form) ==
  /\ pendingFields(form) # {}
  /\ pendingFields(form) \subseteq Resolved
  /\ DOMAIN load.items = pendingFields(form)
  /\ AllAnnounced => load.items = asked(form)

\* One request is under way at most; one for a stage that is there suits it.
Loads ==
  /\ epicsAlive \in BOOLEAN
  /\ ~ epicsAlive => loads = {}
  /\ nextId = 1 => loads = {}
  /\ \A one, other \in loads : one = other
  /\ \A load \in loads : load.stage \in DOMAIN stageForms.entities
       => Suits(load, stageForms.entities[load.stage])

EInv ==
  /\ IInv
  /\ OptionsOfFields
  /\ NameDraft
  /\ ValuesDraft
  /\ Loads
  /\ SelectedIsLoading

-----------------------------------------------------------------------------
LEMMA EditorInitEstablishes == EditorInit => EInv
  <1>. SUFFICES ASSUME EditorInit
                PROVE  EInv
    OBVIOUS
  <1>1. IInv
    BY InitEstablishes DEF EditorInit
  <1>2. OptionsOfFields
    BY DEF EditorInit, Init, emptyState, OptionsOfFields
  <1>3. Loads
    BY DEF EditorInit, Loads
  <1>4. SelectedIsLoading
    BY DEF EditorInit, Init, Unselected, SelectedIsLoading
  <1>. QED
    BY <1>1, <1>2, <1>3, <1>4 DEF EInv, EditorInit, NameDraft, ValuesDraft

LEMMA StageIsThere ==
  IInv /\ selected[1] = "stage"
    => selected[2] \in DOMAIN stageForms.entities /\ selected[2] \in Id /\ nextId # 1
  <1>. SUFFICES ASSUME IInv, selected[1] = "stage"
                PROVE  selected[2] \in DOMAIN stageForms.entities /\ selected[2] \in Id /\ nextId # 1
    OBVIOUS
  <1>1. /\ selected[2] \in DOMAIN stages.entities
        /\ selected[2] \in DOMAIN stageForms.entities
        /\ selected[2] \in Id
    BY SelectedStage
  <1>2. selected[2] < nextId
    BY <1>1 DEF IInv, Fresh
  <1>. QED
    BY <1>1, <1>2 DEF Id

\* The request for a stage that is there, if the epics live.
LEMMA Requested ==
  ASSUME Loads, nextId' # 1, NEW id \in DOMAIN stageForms'.entities, loadOptions(id)
  PROVE  /\ Loads'
         /\ LET pending == pendingFields(stageForms'.entities[id]) IN
            epicsAlive' /\ pending # {} =>
              \E load \in loads' : load.stage = id /\ DOMAIN load.items = pending
  <1>. DEFINE form == stageForms'.entities[id]
              pending == pendingFields(form)
              load == [number |-> newNumber, stage |-> id, items |-> asked(form)]
  <1>1. CASE ~ epicsAlive
    <2>1. UNCHANGED <<loads, epicsAlive>> /\ loads = {}
      BY <1>1, Zenon DEF loadOptions, epicVars, Loads
    <2>2. ~ epicsAlive'
      BY <1>1, <2>1, Zenon
    <2>. QED
      BY <1>1, <2>1, <2>2 DEF Loads
  <1>2. CASE epicsAlive
    <2>1. /\ epicsAlive' = (pending \subseteq Resolved)
          /\ loads' = IF pending = {} \/ ~ epicsAlive' THEN {} ELSE {load}
      BY <1>2, Zenon DEF loadOptions, request
    <2>2. /\ epicsAlive' \in BOOLEAN
          /\ epicsAlive' <=> pending \subseteq Resolved
      BY <2>1, Zenon
    <2>3. CASE pending = {} \/ ~ epicsAlive'
      <3>1. loads' = {}
        BY <2>1, <2>3, Zenon
      <3>. QED
        BY <2>2, <2>3, <3>1 DEF Loads
    <2>4. CASE pending # {} /\ epicsAlive'
      <3>1. loads' = {load}
        BY <2>1, <2>4, Zenon
      <3>2. load.stage = id /\ load.items = asked(form)
        OBVIOUS
      <3>3. DOMAIN load.items = pending
        BY <3>2 DEF asked
      <3>. HIDE DEF load
      <3>4. Suits(load, form)
        BY <2>2, <2>4, <3>2, <3>3 DEF Suits
      <3>5. Loads'
        <4>1. \A one \in loads' : one = load
          BY <3>1
        <4>2. \A one \in loads' : Suits(one, stageForms'.entities[one.stage])
          BY <3>2, <3>4, <4>1
        <4>3. (\A one \in loads : one.stage \in DOMAIN stageForms.entities
                 => Suits(one, stageForms.entities[one.stage]))'
          BY <4>2 DEF Suits
        <4>. QED
          BY <2>2, <2>4, <4>1, <4>3, Zenon DEF Loads
      <3>. QED
        BY <3>1, <3>2, <3>3, <3>5
    <2>. QED
      BY <2>2, <2>3, <2>4
  <1>. QED
    BY <1>1, <1>2, Zenon DEF Loads

-----------------------------------------------------------------------------
(* Steps that leave the forms alone.                                       *)

LEMMA SameForms ==
  ASSUME EInv, IInv', UNCHANGED <<stageForms, nextId, loads, epicsAlive>>
  PROVE  OptionsOfFields' /\ Loads'
  <1>1. OptionsOfFields'
    BY DEF EInv, OptionsOfFields
  <1>2. \A load \in loads' : load.stage \in DOMAIN stageForms'.entities
          => Suits(load, stageForms'.entities[load.stage])
    BY DEF EInv, Loads
  <1>3. (\A load \in loads : load.stage \in DOMAIN stageForms.entities
           => Suits(load, stageForms.entities[load.stage]))'
    BY <1>2 DEF Suits
  <1>4. Loads'
    BY <1>3, Zenon DEF EInv, Loads
  <1>. QED
    BY <1>1, <1>4

LEMMA NothingTyped ==
  /\ typedName = NoDraft => NameDraft
  /\ typedValues = NoDraft => ValuesDraft
  BY DEF NameDraft, ValuesDraft

LEMMA OpenKeeps ==
  ASSUME EInv, EditorOpen
  PROVE  EInv'
  <1>1. IInv /\ Open
    BY DEF EInv, EditorOpen
  <1>2. IInv'
    BY <1>1, OpenPreserves
  <1>3. /\ nextId = 1 /\ selected[1] = "" /\ selected' = selected
    BY DEF EditorOpen, Open, RESET_PIPELINE, Unselected
  <1>4. typedName = NoDraft /\ typedValues = NoDraft /\ loads = {}
    BY <1>3 DEF EInv, NameDraft, ValuesDraft, Loads
  <1>5. UNCHANGED <<typedName, typedValues, loads, epicsAlive>>
    BY DEF EditorOpen, epicVars, draftVars
  <1>6. NameDraft' /\ ValuesDraft'
    BY <1>4, <1>5 DEF NameDraft, ValuesDraft
  <1>7. Loads'
    BY <1>4, <1>5, Zenon DEF EInv, Loads
  <1>8. SelectedIsLoading'
    BY <1>3 DEF SelectedIsLoading
  <1>9. OptionsOfFields'
    <2>1. PICK pipeline \in Pipelines : RESET_PIPELINE(pipeline)
      BY <1>1 DEF Open
    <2>2. PICK loaded : loaded = fromDatasource(pipeline)
      OBVIOUS
    <2>3. stageForms' = loaded.stageForms
      BY <2>1, <2>2 DEF RESET_PIPELINE
    <2>4. \A id \in DOMAIN loaded.stageForms.entities :
            \E values : loaded.stageForms.entities[id] = snapshot(values)
      BY <2>2 DEF fromDatasource, reset
    <2>5. \A values : DOMAIN snapshot(values).options = Field
      BY DEF snapshot
    <2>. QED
      BY <2>3, <2>4, <2>5 DEF OptionsOfFields
  <1>. QED
    BY <1>2, <1>6, <1>7, <1>8, <1>9 DEF EInv

LEMMA SelectKeeps ==
  ASSUME EInv, EditorSelect
  PROVE  EInv'
  <1>1. IInv /\ Select
    BY DEF EInv, EditorSelect
  <1>2. IInv'
    BY <1>1, SelectPreserves
  <1>3. UNCHANGED <<stageForms, stages, parallels, nextId>>
    BY <1>1 DEF Select, SELECT
  <1>4. OptionsOfFields'
    BY <1>3 DEF EInv, OptionsOfFields
  <1>5. NameDraft' /\ ValuesDraft'
    <2>1. CASE selected' = selected
      BY <1>3, <2>1 DEF EditorSelect, draftVars, EInv, NameDraft, ValuesDraft
    <2>2. CASE selected' # selected
      BY <2>2 DEF EditorSelect, closeForm, NameDraft, ValuesDraft
    <2>. QED
      BY <2>1, <2>2
  <1>6. CASE selected'[1] = "stage"
    <2>1. loadOptions(selected'[2])
      BY <1>6 DEF EditorSelect, loadSelected
    <2>a. (selected[1] = "stage")'
      BY <1>6
    <2>b. (selected[2] \in DOMAIN stageForms.entities /\ selected[2] \in Id /\ nextId # 1)'
      BY <1>2, <2>a, StageIsThere, PTL
    <2>2. selected'[2] \in DOMAIN stageForms'.entities /\ nextId' # 1
      BY <2>b
    <2>3. Loads
      BY DEF EInv
    <2>4. /\ Loads'
          /\ LET pending == pendingFields(stageForms'.entities[selected'[2]]) IN
             epicsAlive' /\ pending # {} =>
               \E load \in loads' : load.stage = selected'[2] /\ DOMAIN load.items = pending
      BY <2>1, <2>2, <2>3, Requested
    <2>5. SelectedIsLoading'
      BY <2>4 DEF SelectedIsLoading, pendingFields
    <2>. QED
      BY <1>2, <1>4, <1>5, <2>4, <2>5 DEF EInv
  <1>7. CASE selected'[1] # "stage"
    <2>1. UNCHANGED <<loads, epicsAlive>>
      BY <1>7 DEF EditorSelect, loadSelected, epicVars
    <2>2. Loads'
      BY <1>2, <1>3, <2>1, SameForms
    <2>3. SelectedIsLoading'
      BY <1>7 DEF SelectedIsLoading
    <2>. QED
      BY <1>2, <1>4, <1>5, <2>2, <2>3 DEF EInv
  <1>. QED
    BY <1>6, <1>7

\* Settings, and what is typed.
LEMMA TypingKeeps ==
  ASSUME EInv, EditorSettings \/ TypeName \/ TypeValue
  PROVE  EInv'
  <1>1. UNCHANGED <<stageForms, nextId, loads, epicsAlive, selected>>
    BY DEF EditorSettings, CHANGE_PIPELINE_SETTINGS, TypeName, TypeValue, storeVars, epicVars
  <1>2. IInv'
    <2>1. CASE EditorSettings
      BY <2>1, SettingsPreserve DEF EInv, EditorSettings
    <2>2. CASE UNCHANGED storeVars
      BY <2>2, NextPreserves DEF EInv
    <2>. QED
      BY <2>1, <2>2 DEF TypeName, TypeValue
  <1>3. OptionsOfFields' /\ Loads'
    BY <1>1, <1>2, SameForms
  <1>4. SelectedIsLoading'
    BY <1>1 DEF EInv, SelectedIsLoading, pendingFields
  <1>5. NameDraft'
    <2>1. CASE TypeName
      BY <1>1, <2>1 DEF TypeName, NameDraft
    <2>2. CASE UNCHANGED typedName
      BY <1>1, <2>2 DEF EInv, NameDraft
    <2>. QED
      BY <2>1, <2>2 DEF EditorSettings, TypeValue, draftVars
  <1>6. ValuesDraft'
    <2>1. CASE TypeValue
      <3>0. PICK f \in Field : \E x \in Input[f] \cup {Nil} :
              /\ ~ hidden(f, stageForms.entities[selected[2]].values)
              /\ typedValues' = [stage  |-> selected[2],
                                 values |-> [shownValues EXCEPT ![f] = x]]
        BY <2>1 DEF TypeValue
      <3>1. PICK x \in Input[f] \cup {Nil} :
              /\ ~ hidden(f, stageForms.entities[selected[2]].values)
              /\ typedValues' = [stage  |-> selected[2],
                                 values |-> [shownValues EXCEPT ![f] = x]]
        BY <3>0
      <3>. DEFINE stored == stageForms.entities[selected[2]].values
                  typed == [shownValues EXCEPT ![f] = x]
      <3>2. selected[1] = "stage"
        BY <2>1 DEF TypeValue
      <3>3. stored \in Values
        BY <3>2, StageIsThere DEF EInv, IInv, TypeOK
      <3>4. /\ shownValues \in Values
            /\ \A g \in Field : hidden(g, stored) => shownValues[g] = stored[g]
        <4>1. CASE typedValues = NoDraft
          BY <3>3, <4>1 DEF shownValues
        <4>2. CASE typedValues # NoDraft
          <5>1. PICK values \in Values :
                  /\ typedValues = [stage |-> selected[2], values |-> values]
                  /\ \A g \in Field : hidden(g, stored) => values[g] = stored[g]
            BY <4>2 DEF EInv, ValuesDraft
          <5>2. shownValues = values
            BY <4>2, <5>1 DEF shownValues
          <5>. QED
            BY <5>1, <5>2
        <4>. QED
          BY <4>1, <4>2
      <3>a. /\ shownValues = [g \in Field |-> shownValues[g]]
            /\ \A g \in Field : shownValues[g] \in Input[g] \cup {Nil}
        BY <3>4, ValuesAre
      <3>b. /\ typed = [g \in Field |-> typed[g]]
            /\ \A g \in Field : typed[g] = IF g = f THEN x ELSE shownValues[g]
        BY <3>a
      <3>c. \A g \in Field : typed[g] \in Input[g] \cup {Nil}
        BY <3>1, <3>a, <3>b
      <3>5. typed \in Values
        <4>. HIDE DEF typed
        <4>. QED
          BY <3>b, <3>c, ValuesHold
      <3>6. \A g \in Field : hidden(g, stored) => typed[g] = stored[g]
        BY <3>1, <3>4, <3>b
      <3>7. stageForms'.entities[selected'[2]].values = stored /\ selected' = selected
        BY <1>1
      <3>. HIDE DEF typed, stored
      <3>8. \A g \in Field : hidden(g, stageForms'.entities[selected'[2]].values)
              => typed[g] = stageForms'.entities[selected'[2]].values[g]
        BY <3>6, <3>7
      <3>9. typedValues' = [stage |-> selected'[2], values |-> typed]
        BY <3>1, <3>7 DEF typed
      <3>. QED
        BY <3>2, <3>5, <3>7, <3>8, <3>9 DEF ValuesDraft
    <2>2. CASE UNCHANGED typedValues
      BY <1>1, <2>2 DEF EInv, ValuesDraft
    <2>. QED
      BY <2>1, <2>2 DEF EditorSettings, TypeName, draftVars
  <1>. QED
    BY <1>2, <1>3, <1>4, <1>5, <1>6 DEF EInv

LEMMA FlushNameFacts ==
  ASSUME EInv, FlushName
  PROVE  \E name \in Name \cup {NoName} :
           /\ typedName.name = name /\ typedName.path = selected
           /\ \/ selected[1] = "stage" /\ CHANGE_STAGE_NAME(selected[2], name)
              \/ selected[1] = "parallel" /\ CHANGE_PARALLEL_NAME(selected[2], name)
  <1>1. PICK name \in Name \cup {NoName} : typedName = [path |-> selected, name |-> name]
    BY DEF EInv, NameDraft, FlushName
  <1>2. typedName.path = selected /\ typedName.name = name
    BY <1>1
  <1>. QED
    BY <1>2 DEF FlushName

LEMMA FlushNameKeeps ==
  ASSUME EInv, FlushName
  PROVE  EInv'
  <1>1. PICK name \in Name \cup {NoName} :
          \/ selected[1] = "stage" /\ CHANGE_STAGE_NAME(selected[2], name)
          \/ selected[1] = "parallel" /\ CHANGE_PARALLEL_NAME(selected[2], name)
    BY FlushNameFacts
  <1>2. IInv
    BY DEF EInv
  <1>3. IInv'
    BY <1>1, <1>2, SelectedStage, SelectedParallel, StageNamePreserves, ParallelNamePreserves
  <1>4. UNCHANGED <<stageForms, nextId, loads, epicsAlive, selected, typedValues>>
    BY <1>1 DEF CHANGE_STAGE_NAME, CHANGE_PARALLEL_NAME, FlushName, epicVars
  <1>5. OptionsOfFields' /\ Loads'
    BY <1>3, <1>4, SameForms
  <1>6. SelectedIsLoading'
    BY <1>4 DEF EInv, SelectedIsLoading, pendingFields
  <1>7. NameDraft' /\ ValuesDraft'
    BY <1>4 DEF FlushName, NameDraft, EInv, ValuesDraft
  <1>. QED
    BY <1>3, <1>5, <1>6, <1>7 DEF EInv

-----------------------------------------------------------------------------
(* Steps that put a form there or take it away.                            *)

LEMMA PickKeeps ==
  ASSUME EInv, EditorPickTask
  PROVE  EInv'
  <1>1. IInv /\ PickTask
    BY DEF EInv, EditorPickTask
  <1>2. IInv'
    BY <1>1, NextPreserves DEF Next
  <1>3. /\ stageForms' = append(stageForms, nextId, snapshot(noTexts))
        /\ selected' = <<"stage", nextId>>
    BY <1>1 DEF PickTask, ADD_PARALLEL_BY_STAGE, ADD_STAGE
  <1>4. stageForms'.entities = put(stageForms.entities, nextId, snapshot(noTexts))
    BY <1>3 DEF append
  <1>5. OptionsOfFields'
    <2>1. DOMAIN snapshot(noTexts).options = Field
      BY DEF snapshot
    <2>2. \A x \in DOMAIN stageForms'.entities :
            stageForms'.entities[x] = snapshot(noTexts)
              \/ (x \in DOMAIN stageForms.entities /\ stageForms'.entities[x] = stageForms.entities[x])
      BY <1>4 DEF put
    <2>. QED
      BY <2>1, <2>2 DEF EInv, OptionsOfFields
  <1>6. NameDraft' /\ ValuesDraft'
    BY DEF EditorPickTask, closeForm, NameDraft, ValuesDraft
  <1>7. selected'[1] = "stage"
    BY <1>3
  <1>8. loadOptions(selected'[2])
    BY <1>7 DEF EditorPickTask, loadSelected
  <1>a. (selected[1] = "stage")'
    BY <1>7
  <1>b. (selected[2] \in DOMAIN stageForms.entities /\ selected[2] \in Id /\ nextId # 1)'
    BY <1>2, <1>a, StageIsThere, PTL
  <1>9. selected'[2] \in DOMAIN stageForms'.entities /\ nextId' # 1
    BY <1>b
  <1>10. Loads
    BY DEF EInv
  <1>11. /\ Loads'
         /\ LET pending == pendingFields(stageForms'.entities[selected'[2]]) IN
            epicsAlive' /\ pending # {} =>
              \E load \in loads' : load.stage = selected'[2] /\ DOMAIN load.items = pending
    BY <1>8, <1>9, <1>10, Requested
  <1>12. SelectedIsLoading'
    BY <1>11 DEF SelectedIsLoading, pendingFields
  <1>. QED
    BY <1>2, <1>5, <1>6, <1>11, <1>12 DEF EInv

LEMMA RemoveKeeps ==
  ASSUME EInv, EditorRemove
  PROVE  EInv'
  <1>1. IInv /\ RemoveSelected
    BY DEF EInv, EditorRemove
  <1>2. IInv'
    BY <1>1, NextPreserves DEF Next
  <1>3. /\ DOMAIN stageForms'.entities \subseteq DOMAIN stageForms.entities
        /\ \A x \in DOMAIN stageForms'.entities : stageForms'.entities[x] = stageForms.entities[x]
    BY <1>1 DEF RemoveSelected, REMOVE_STAGE, REMOVE_PARALLEL, remove, removeAll, Restrict
  <1>a. nextId' = nextId /\ selected' = Unselected
    BY <1>1 DEF RemoveSelected, REMOVE_STAGE, REMOVE_PARALLEL
  <1>4. nextId' = nextId /\ selected'[1] = ""
    BY <1>a DEF Unselected
  <1>5. UNCHANGED <<loads, epicsAlive>> /\ NameDraft' /\ ValuesDraft'
    BY DEF EditorRemove, epicVars, closeForm, NameDraft, ValuesDraft
  <1>6. OptionsOfFields'
    BY <1>3 DEF EInv, OptionsOfFields
  <1>7. Loads'
    <2>1. \A load \in loads' : load.stage \in DOMAIN stageForms'.entities
            => Suits(load, stageForms'.entities[load.stage])
      BY <1>3, <1>5 DEF EInv, Loads
    <2>2. (\A load \in loads : load.stage \in DOMAIN stageForms.entities
             => Suits(load, stageForms.entities[load.stage]))'
      BY <2>1 DEF Suits
    <2>. QED
      BY <1>4, <1>5, <2>2, Zenon DEF EInv, Loads
  <1>8. SelectedIsLoading'
    BY <1>4 DEF SelectedIsLoading
  <1>. QED
    BY <1>2, <1>5, <1>6, <1>7, <1>8 DEF EInv

-----------------------------------------------------------------------------
(* Steps that change a form.                                               *)

\* The form of id has become form, which has as many fields.
Becomes(id, form) ==
  /\ id \in DOMAIN stageForms.entities
  /\ stageForms' = update(stageForms, id, form)
  /\ DOMAIN form.options = Field

LEMMA OneFormChanged ==
  ASSUME EInv, NEW id, NEW form, Becomes(id, form)
  PROVE  /\ DOMAIN stageForms'.entities = DOMAIN stageForms.entities
         /\ stageForms'.entities[id] = form
         /\ \A x \in DOMAIN stageForms.entities :
              x # id => stageForms'.entities[x] = stageForms.entities[x]
         /\ OptionsOfFields'
  <1>1. /\ DOMAIN form.options = Field /\ id \in DOMAIN stageForms.entities
        /\ stageForms'.entities = put(stageForms.entities, id, form)
    BY DEF Becomes, update, EInv, IInv, TypeOK
  <1>2. /\ DOMAIN stageForms'.entities = DOMAIN stageForms.entities
        /\ stageForms'.entities[id] = form
        /\ \A x \in DOMAIN stageForms.entities :
             x # id => stageForms'.entities[x] = stageForms.entities[x]
    BY <1>1 DEF put
  <1>. QED
    BY <1>1, <1>2 DEF EInv, OptionsOfFields

LEMMA FlushValuesKeeps ==
  ASSUME EInv, FlushValues
  PROVE  EInv'
  <1>. DEFINE id == typedValues.stage
              form == stageForms.entities[id]
              current == typedValues.values
              changes == {f \in Field : form.values[f] # current[f]}
              affected == allAffected(changes)
              values == [f \in Field |-> IF f \in affected THEN Nil ELSE current[f]]
  <1>1. /\ selected[1] = "stage" /\ id = selected[2] /\ current \in Values
    BY DEF EInv, ValuesDraft, FlushValues
  <1>2. typedName' = typedName /\ typedValues' = NoDraft
    BY DEF FlushValues
  <1>3. CASE UNCHANGED storeVars /\ (UNCHANGED epicVars \/ epicsDie)
    <2>1. IInv'
      BY <1>3, NextPreserves DEF EInv
    <2>2. UNCHANGED <<stageForms, nextId, selected>>
      BY <1>3 DEF storeVars
    <2>3. NameDraft' /\ ValuesDraft'
      BY <1>2, <2>2 DEF EInv, NameDraft, ValuesDraft
    <2>4. CASE UNCHANGED epicVars
      <3>1. UNCHANGED <<loads, epicsAlive>>
        BY <2>4 DEF epicVars
      <3>2. OptionsOfFields' /\ Loads'
        BY <2>1, <2>2, <3>1, SameForms
      <3>3. SelectedIsLoading'
        BY <2>2, <3>1 DEF EInv, SelectedIsLoading, pendingFields
      <3>. QED
        BY <2>1, <2>3, <3>2, <3>3 DEF EInv
    <2>5. CASE epicsDie
      <3>1. loads' = {} /\ epicsAlive' \in BOOLEAN /\ ~ epicsAlive'
        BY <2>5, Zenon DEF epicsDie
      <3>2. OptionsOfFields' /\ Loads' /\ SelectedIsLoading'
        BY <2>2, <3>1 DEF EInv, OptionsOfFields, Loads, SelectedIsLoading
      <3>. QED
        BY <2>1, <2>3, <3>2 DEF EInv
    <2>. QED
      BY <1>3, <2>4, <2>5
  <1>4. CASE TRY_CHANGE_STAGE_VALUES(id, current) /\ loadAffected(id, affected)
    <2>1. IInv'
      BY <1>1, <1>4, TryChangePreserves DEF EInv
    <2>2. PICK errors : CHANGE_STAGE_VALUES(id, values, errors, affected)
      BY <1>4 DEF TRY_CHANGE_STAGE_VALUES
    <2>3. PICK next : next = changeValues(form, values, errors, affected)
      OBVIOUS
    <2>4. Becomes(id, next) /\ UNCHANGED <<selected, nextId>>
      BY <2>2, <2>3 DEF CHANGE_STAGE_VALUES, Becomes, changeValues
    <2>5. /\ DOMAIN stageForms'.entities = DOMAIN stageForms.entities
          /\ stageForms'.entities[id] = next
          /\ \A x \in DOMAIN stageForms.entities :
               x # id => stageForms'.entities[x] = stageForms.entities[x]
          /\ OptionsOfFields'
      BY <2>4, OneFormChanged
    <2>6. NameDraft' /\ ValuesDraft'
      BY <1>2, <2>4 DEF EInv, NameDraft, ValuesDraft
    <2>7. id \in DOMAIN stageForms.entities /\ nextId' # 1
      BY <1>1, <2>4, StageIsThere DEF EInv
    <2>8. CASE affected # {}
      <3>1. loadOptions(id)
        BY <1>4, <2>8 DEF loadAffected
      <3>2. Loads /\ id \in DOMAIN stageForms'.entities
        BY <2>5, <2>7 DEF EInv
      <3>3. /\ Loads'
            /\ LET pending == pendingFields(stageForms'.entities[id]) IN
               epicsAlive' /\ pending # {} =>
                 \E load \in loads' : load.stage = id /\ DOMAIN load.items = pending
        BY <2>7, <3>1, <3>2, Requested
      <3>4. SelectedIsLoading'
        BY <1>1, <2>4, <3>3 DEF SelectedIsLoading, pendingFields
      <3>. QED
        BY <2>1, <2>5, <2>6, <3>3, <3>4 DEF EInv
    <2>9. CASE affected = {}
      <3>1. UNCHANGED <<loads, epicsAlive>>
        BY <1>4, <2>9 DEF loadAffected, epicVars
      <3>2. /\ next.values = values
            /\ \A f \in Field : next.options[f] = form.options[f]
        BY <2>3, <2>9 DEF changeValues
      <3>3. pendingFields(next) = pendingFields(form)
        BY <3>2 DEF pendingFields
      <3>4. ASSUME NEW load \in loads, load.stage = id
            PROVE  Suits(load, next)
        <4>1. Suits(load, form)
          BY <2>7, <3>4 DEF EInv, Loads
        <4>2. ASSUME AllAnnounced
              PROVE  load.items = asked(next)
          <5>1. \A f \in pendingFields(form) : f \in Resolved /\ f \notin affected
            BY <2>9, <4>1 DEF Suits
          <5>. HIDE DEF form
          <5>2. ASSUME NEW f \in pendingFields(form)
                PROVE  resolve(f, form.values) = resolve(f, next.values)
            <6>1. f \in Resolved /\ f \notin allAffected(changes)
              BY <5>1
            <6>2. resolve(f, form.values) = resolve(f, values)
              BY <4>2, <6>1, AnswerStands DEF AllAnnounced
            <6>. QED
              BY <3>2, <6>2
          <5>3. load.items = asked(form)
            BY <4>1, <4>2 DEF Suits
          <5>. QED
            BY <3>3, <5>2, <5>3 DEF asked
        <4>. QED
          BY <3>3, <4>1, <4>2 DEF Suits
      <3>5. \A load \in loads : load.stage \in DOMAIN stageForms'.entities
              => Suits(load, stageForms'.entities[load.stage])
        <4>1. ASSUME NEW load \in loads, load.stage \in DOMAIN stageForms'.entities,
                     load.stage # id
              PROVE  Suits(load, stageForms'.entities[load.stage])
          BY <2>5, <4>1 DEF EInv, Loads
        <4>. QED
          BY <2>5, <3>4, <4>1
      <3>6. (\A load \in loads : load.stage \in DOMAIN stageForms.entities
               => Suits(load, stageForms.entities[load.stage]))'
        BY <3>1, <3>5 DEF Suits
      <3>7. Loads'
        BY <2>7, <3>1, <3>6, Zenon DEF EInv, Loads
      <3>8. SelectedIsLoading'
        <4>1. pendingFields(stageForms'.entities[selected'[2]])
                = pendingFields(stageForms.entities[selected[2]])
          BY <1>1, <2>4, <2>5, <3>3
        <4>. QED
          BY <2>4, <3>1, <4>1 DEF EInv, SelectedIsLoading, pendingFields
      <3>. QED
        BY <2>1, <2>5, <2>6, <3>7, <3>8 DEF EInv
    <2>. QED
      BY <2>8, <2>9
  <1>. QED
    BY <1>3, <1>4 DEF FlushValues

LEMMA ArriveKeeps ==
  ASSUME EInv, OptionsArrive
  PROVE  EInv'
  <1>1. PICK load \in loads :
          \/ /\ load.stage \in DOMAIN stageForms.entities
             /\ \E failed \in SUBSET DOMAIN load.items :
                  RECEIVE_STAGE_OPTIONS(load.stage, answer(load.items, failed))
             /\ loads' = loads \ {load}
             /\ rebuildSettings(load.stage)
             /\ UNCHANGED <<epicsAlive, typedName>>
          \/ /\ load.stage \notin DOMAIN stageForms.entities
             /\ epicsDie
             /\ UNCHANGED <<storeVars, draftVars>>
    BY DEF OptionsArrive, Answered
  <1>2. CASE load.stage \notin DOMAIN stageForms.entities
    <2>1. epicsDie /\ UNCHANGED <<storeVars, draftVars>>
      BY <1>1, <1>2
    <2>2. UNCHANGED <<stageForms, nextId, selected, typedName, typedValues>>
      BY <2>1 DEF storeVars, draftVars
    <2>3. IInv'
      BY <2>1, NextPreserves DEF EInv
    <2>4. loads' = {} /\ epicsAlive' \in BOOLEAN /\ ~ epicsAlive'
      BY <2>1, Zenon DEF epicsDie
    <2>5. OptionsOfFields' /\ Loads' /\ SelectedIsLoading'
      BY <2>2, <2>4 DEF EInv, OptionsOfFields, Loads, SelectedIsLoading
    <2>6. NameDraft' /\ ValuesDraft'
      BY <2>2 DEF EInv, NameDraft, ValuesDraft
    <2>. QED
      BY <2>3, <2>5, <2>6 DEF EInv
  <1>3. CASE load.stage \in DOMAIN stageForms.entities
    <2>. DEFINE id == load.stage
                form == stageForms.entities[id]
    <2>1. PICK failed :
            /\ RECEIVE_STAGE_OPTIONS(id, answer(load.items, failed))
            /\ loads' = loads \ {load}
            /\ rebuildSettings(id)
            /\ UNCHANGED <<epicsAlive, typedName>>
      BY <1>1, <1>3
    <2>. DEFINE items == answer(load.items, failed)
    <2>2. IInv'
      BY <2>1, OptionsPreserve DEF EInv
    <2>3. loads' = {}
      BY <2>1 DEF EInv, Loads
    <2>4. Suits(load, form)
      BY <1>3 DEF EInv, Loads
    <2>5. PICK next : next = receiveOptions(form, items)
      OBVIOUS
    <2>6. DOMAIN form.options = Field /\ DOMAIN form = {"values", "errors", "options"}
      BY <1>3 DEF EInv, OptionsOfFields, IInv, TypeOK
    <2>7. DOMAIN items = pendingFields(form)
      BY <2>4 DEF Suits, answer
    <2>. HIDE DEF form, items
    <2>8. /\ next.values = form.values
          /\ next.options = spread(form.options,
               [f \in DOMAIN items |-> [items |-> items[f], pending |-> FALSE]])
      BY <2>5, <2>6 DEF receiveOptions
    <2>9. DOMAIN next.options = Field
      BY <2>6, <2>7, <2>8 DEF spread, pendingFields
    <2>10. pendingFields(next) = {}
      <3>1. ASSUME NEW f \in Field, f \in DOMAIN items
            PROVE  ~ next.options[f].pending
        BY <2>6, <2>7, <2>8, <3>1 DEF spread
      <3>2. ASSUME NEW f \in Field, f \notin DOMAIN items
            PROVE  next.options[f] = form.options[f]
        BY <2>6, <2>7, <2>8, <3>2 DEF spread
      <3>. QED
        BY <2>7, <3>1, <3>2 DEF pendingFields
    <2>11. Becomes(id, next) /\ UNCHANGED <<selected, nextId>>
      BY <1>3, <2>1, <2>5, <2>9 DEF RECEIVE_STAGE_OPTIONS, Becomes, form, items
    <2>12. /\ DOMAIN stageForms'.entities = DOMAIN stageForms.entities
           /\ stageForms'.entities[id] = next
           /\ \A x \in DOMAIN stageForms.entities :
                x # id => stageForms'.entities[x] = stageForms.entities[x]
           /\ OptionsOfFields'
      BY <2>11, OneFormChanged
    <2>13. Loads'
      BY <2>1, <2>3, Zenon DEF EInv, Loads
    <2>14. SelectedIsLoading'
      <3>1. CASE selected[2] = id
        BY <2>10, <2>11, <2>12, <3>1 DEF SelectedIsLoading, pendingFields
      <3>2. CASE selected[1] = "stage" /\ selected[2] # id
        <4>1. selected[2] \in DOMAIN stageForms.entities
          BY <3>2, StageIsThere DEF EInv
        <4>2. stageForms'.entities[selected'[2]] = stageForms.entities[selected[2]]
          BY <2>11, <2>12, <3>2, <4>1
        <4>3. epicsAlive => pendingFields(stageForms.entities[selected[2]]) = {}
          BY <3>2 DEF EInv, Loads, SelectedIsLoading
        <4>. QED
          BY <2>1, <4>2, <4>3 DEF SelectedIsLoading, pendingFields
      <3>3. CASE selected[1] # "stage"
        BY <2>11, <3>3 DEF SelectedIsLoading
      <3>. QED
        BY <3>1, <3>2, <3>3
    <2>15. NameDraft'
      BY <2>1, <2>11 DEF EInv, NameDraft
    <2>16. ValuesDraft'
      <3>1. CASE typedValues' = NoDraft
        BY <3>1 DEF ValuesDraft
      <3>2. CASE typedValues' = typedValues
        <4>1. selected[1] = "stage" =>
                stageForms'.entities[selected'[2]].values = stageForms.entities[selected[2]].values
          BY <2>8, <2>11, <2>12, StageIsThere DEF EInv, form
        <4>. QED
          BY <2>11, <3>2, <4>1 DEF EInv, ValuesDraft
      <3>. QED
        BY <2>1, <3>1, <3>2 DEF rebuildSettings
    <2>. QED
      BY <2>2, <2>12, <2>13, <2>14, <2>15, <2>16 DEF EInv
  <1>. QED
    BY <1>2, <1>3

LEMMA EditorKeeps == EInv /\ [EditorNext]_editorVars => EInv'
  <1>. SUFFICES ASSUME EInv, [EditorNext]_editorVars
                PROVE  EInv'
    OBVIOUS
  <1>1. CASE UNCHANGED editorVars
    <2>1. UNCHANGED storeVars /\ UNCHANGED <<loads, epicsAlive, typedName, typedValues>>
      BY <1>1 DEF editorVars, storeVars
    <2>2. IInv'
      BY <2>1, NextPreserves DEF EInv
    <2>3. UNCHANGED <<stageForms, nextId, selected>>
      BY <2>1 DEF storeVars
    <2>4. OptionsOfFields' /\ Loads'
      BY <2>1, <2>2, <2>3, SameForms
    <2>5. NameDraft' /\ ValuesDraft' /\ SelectedIsLoading'
      BY <2>1, <2>3 DEF EInv, NameDraft, ValuesDraft, SelectedIsLoading, pendingFields
    <2>. QED
      BY <2>2, <2>4, <2>5 DEF EInv
  <1>. QED
    BY <1>1, OpenKeeps, SelectKeeps, PickKeeps, RemoveKeeps, TypingKeeps, FlushNameKeeps,
       FlushValuesKeeps, ArriveKeeps, Zenon DEF EditorNext

-----------------------------------------------------------------------------
(* The theorems.                                                           *)

\* What the forms, the epics and the server do to the store.
LEMMA StoreStep ==
  ASSUME AllAnnounced, EInv, [EditorNext]_editorVars
  PROVE  [Next]_storeVars
  <1>1. CASE UNCHANGED editorVars
    BY <1>1 DEF editorVars, storeVars
  <1>2. CASE EditorOpen \/ EditorSelect \/ EditorPickTask \/ EditorRemove
    BY <1>2 DEF EditorOpen, EditorSelect, EditorPickTask, EditorRemove, Next
  <1>3. CASE EditorSettings \/ TypeName \/ TypeValue
    BY <1>3 DEF EditorSettings, TypeName, TypeValue, Edit, Next
  <1>4. CASE FlushName
    <2>1. PICK name \in Name \cup {NoName} :
            \/ selected[1] = "stage" /\ CHANGE_STAGE_NAME(selected[2], name)
            \/ selected[1] = "parallel" /\ CHANGE_PARALLEL_NAME(selected[2], name)
      BY <1>4, FlushNameFacts
    <2>. QED
      BY <2>1 DEF Edit, Next
  <1>5. CASE FlushValues
    <2>1. PICK values \in Values :
            /\ typedValues = [stage |-> selected[2], values |-> values]
            /\ \A f \in Field : hidden(f, stageForms.entities[selected[2]].values)
                 => values[f] = stageForms.entities[selected[2]].values[f]
      BY <1>5 DEF EInv, ValuesDraft, FlushValues
    <2>2. typedValues.stage = selected[2] /\ typedValues.values = values /\ selected[1] = "stage"
      BY <1>5, <2>1 DEF EInv, ValuesDraft, FlushValues
    <2>3. TRY_CHANGE_STAGE_VALUES(selected[2], values) \/ UNCHANGED storeVars
      BY <1>5, <2>2 DEF FlushValues
    <2>4. TRY_CHANGE_STAGE_VALUES(selected[2], values) => Edit
      BY <2>1, <2>2 DEF Edit
    <2>. QED
      BY <2>3, <2>4 DEF Next
  <1>6. CASE OptionsArrive
    <2>a. PICK load \in loads : Answered(load)
      BY <1>6 DEF OptionsArrive
    <2>1. PICK failed \in SUBSET DOMAIN load.items :
            \/ /\ load.stage \in DOMAIN stageForms.entities
               /\ RECEIVE_STAGE_OPTIONS(load.stage, answer(load.items, failed))
            \/ UNCHANGED storeVars
      <3>1. {} \in SUBSET DOMAIN load.items
        OBVIOUS
      <3>. QED
        BY <2>a, <3>1 DEF Answered
    <2>2. CASE /\ load.stage \in DOMAIN stageForms.entities
               /\ RECEIVE_STAGE_OPTIONS(load.stage, answer(load.items, failed))
      <3>. DEFINE form == stageForms.entities[load.stage]
      <3>1. Suits(load, form)
        BY <2>2 DEF EInv, Loads
      <3>2. pendingFields(form) # {}
        BY <3>1 DEF Suits
      <3>3. load.items = asked(form) /\ DOMAIN load.items = pendingFields(form)
        BY <3>1 DEF Suits
      <3>4. RECEIVE_STAGE_OPTIONS(load.stage, answer(asked(form), failed))
        BY <2>2, <3>3
      <3>5. failed \in SUBSET pendingFields(form)
        BY <3>3
      <3>6. Receive
        BY <2>2, <3>2, <3>4, <3>5 DEF Receive
      <3>. QED
        BY <3>6 DEF Next
    <2>. QED
      BY <2>1, <2>2
  <1>. QED
    BY <1>1, <1>2, <1>3, <1>4, <1>5, <1>6 DEF EditorNext

LEMMA EditorInvariant == EditorSpec => []EInv
  BY EditorInitEstablishes, EditorKeeps, PTL DEF EditorSpec

\* The debounced edits and the delayed answers only do what the reducers'
\* specification allows: an edit never touches a stage that is gone, and an
\* answer is always the right one for the values the stage has by then, if a
\* change of what a resolver looks at is announced to its field.
THEOREM EditorImplementsStore ==
  ASSUME AllAnnounced
  PROVE  EditorSpec => StoreSpec
  <1>1. EditorInit => Init
    BY DEF EditorInit
  <1>2. EInv /\ [EditorNext]_editorVars => [Next]_storeVars
    BY StoreStep
  <1>. QED
    BY <1>1, <1>2, EditorInvariant, PTL DEF EditorSpec, StoreSpec, Spec

\* While the epics live, the stage that is shown never waits for options that
\* nobody has asked for, however often the selection and the values change.
THEOREM SelectedAlwaysLoading == EditorSpec => []SelectedIsLoading
  <1>1. EInv => SelectedIsLoading
    BY DEF EInv
  <1>. QED
    BY <1>1, EditorInvariant, PTL

\* A typed name leaves the form only into the store or with the form.
THEOREM TypedNameAlwaysKept == EditorSpec => TypedNameKept
  <1>. DEFINE Kept ==
         typedName # NoDraft /\ typedName' = NoDraft /\ selected' = selected =>
           LET entities == IF typedName.path[1] = "stage" THEN stages'.entities
                           ELSE parallels'.entities
           IN  entities[typedName.path[2]].name = typedName.name
  <1>1. EInv /\ [EditorNext]_editorVars => [Kept]_editorVars
    <2>. SUFFICES ASSUME EInv, EditorNext,
                         typedName # NoDraft, typedName' = NoDraft, selected' = selected
                  PROVE  LET entities == IF typedName.path[1] = "stage" THEN stages'.entities
                                         ELSE parallels'.entities
                         IN  entities[typedName.path[2]].name = typedName.name
      OBVIOUS
    <2>1. selected[1] \in {"stage", "parallel"}
      BY DEF EInv, NameDraft
    <2>2. CASE EditorOpen \/ EditorSettings \/ TypeValue \/ FlushValues
      BY <2>2 DEF EditorOpen, EditorSettings, TypeValue, FlushValues, draftVars
    <2>3. CASE EditorSelect
      BY <2>3 DEF EditorSelect, draftVars
    <2>4. CASE EditorPickTask
      <3>1. selected[1] \in {"after", "of"}
        BY <2>4 DEF EditorPickTask, PickTask
      <3>. QED
        BY <2>1, <3>1
    <2>5. CASE EditorRemove
      <3>1. selected' = Unselected
        BY <2>5 DEF EditorRemove, RemoveSelected, REMOVE_STAGE, REMOVE_PARALLEL
      <3>2. Unselected[1] = ""
        BY DEF Unselected
      <3>. QED
        BY <2>1, <3>1, <3>2
    <2>6. CASE TypeName
      BY <2>6 DEF TypeName, NoDraft
    <2>7. CASE OptionsArrive
      BY <2>7 DEF OptionsArrive, Answered, draftVars
    <2>8. CASE FlushName
      <3>1. PICK name \in Name \cup {NoName} :
              /\ typedName.name = name /\ typedName.path = selected
              /\ \/ selected[1] = "stage" /\ CHANGE_STAGE_NAME(selected[2], name)
                 \/ selected[1] = "parallel" /\ CHANGE_PARALLEL_NAME(selected[2], name)
        BY <2>8, FlushNameFacts
      <3>2. CASE selected[1] = "stage" /\ CHANGE_STAGE_NAME(selected[2], name)
        <4>1. selected[2] \in DOMAIN stages.entities
          BY <3>2, SelectedStage DEF EInv
        <4>2. stages.entities[selected[2]] \in [name : Name \cup {NoName}, parent : Id]
          BY <4>1 DEF EInv, IInv, TypeOK
        <4>. DEFINE item == [stages.entities[selected[2]] EXCEPT !.name = name]
        <4>3. item.name = name
          BY <4>2
        <4>4. stages'.entities = put(stages.entities, selected[2], item)
          BY <3>2, <4>1 DEF CHANGE_STAGE_NAME, update, EInv, IInv, TypeOK
        <4>. HIDE DEF item
        <4>5. stages'.entities[selected[2]] = item
          BY <4>4 DEF put
        <4>. QED
          BY <3>1, <3>2, <4>3, <4>5
      <3>3. CASE selected[1] = "parallel" /\ CHANGE_PARALLEL_NAME(selected[2], name)
        <4>1. parallels'.entities = put(parallels.entities, selected[2], [name |-> name])
          BY <3>3 DEF CHANGE_PARALLEL_NAME, update, EInv, IInv, TypeOK
        <4>2. parallels'.entities[selected[2]].name = name
          BY <4>1 DEF put
        <4>. QED
          BY <3>1, <3>3, <4>2
      <3>. QED
        BY <3>1, <3>2, <3>3
    <2>. QED
      BY <2>2, <2>3, <2>4, <2>5, <2>6, <2>7, <2>8 DEF EditorNext
  <1>. QED
    BY <1>1, EditorInvariant, PTL DEF EditorSpec, TypedNameKept

=============================================================================
