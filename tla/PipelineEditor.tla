--------------------------- MODULE PipelineEditor ---------------------------
(***************************************************************************)
(* The visual pipeline editor around its store: the side form, whose edits *)
(* reach the store 200 ms after the last key, and the epic that loads the  *)
(* options of the selected stage and answers when the server does.         *)
(*                                                                         *)
(* An action of the store and the epics it sets off are one step, for      *)
(* dispatch is synchronous.  What takes time is a request for options and  *)
(* the debounce of a form, and in between the user goes on clicking.       *)
(***************************************************************************)
EXTENDS PipelineStore

VARIABLES
  loads,        \* the requests under way, [number, stage, items]: what is asked for
  epicsAlive,   \* FALSE once an epic has thrown: its stream is over for good
  typedName,    \* [path, name] typed and not yet dispatched, or NoDraft
  typedValues   \* [stage, values] typed and not yet dispatched, or NoDraft

epicVars == <<loads, epicsAlive>>
draftVars == <<typedName, typedValues>>
editorVars == <<parallels, forks, stages, stageForms, selected, settingsOk, nextId,
                loads, epicsAlive, typedName, typedValues>>

NoDraft == <<>>

EditorInit ==
  /\ Init
  /\ loads = {}
  /\ epicsAlive = TRUE
  /\ typedName = NoDraft
  /\ typedValues = NoDraft

-----------------------------------------------------------------------------
(* The epic loadOptionsEpic.                                               *)

\* A request that takes the place of another has the other number.
newNumber == IF \E load \in loads : load.number = 0 THEN 1 ELSE 0

\* A request that is no longer wanted is answered all the same.
request_merged(id) ==
  LET form    == stageForms'.entities[id]
      pending == pendingFields(form)
  IN  /\ epicsAlive' = (pending \subseteq Resolved)
      /\ loads' = IF pending = {} \/ ~ epicsAlive' THEN {}
                  ELSE loads \cup {[number |-> newNumber, stage |-> id, items |-> asked(form)]}

\* switchMap: the options of every pending field are asked for in one request,
\* with the values the reducers have just left, and it takes the place of the
\* last one even when nothing is pending.  A field without a resolver throws.
request(id) ==
  LET form    == stageForms'.entities[id]
      pending == pendingFields(form)
  IN  /\ epicsAlive' = (pending \subseteq Resolved)
      /\ loads' = IF pending = {} \/ ~ epicsAlive' THEN {}
                  ELSE {[number |-> newNumber, stage |-> id, items |-> asked(form)]}

loadOptions(id) == IF epicsAlive THEN request(id) ELSE UNCHANGED epicVars

\* The epic that does not listen to what the form changes.
loadAffected_not(id, affected) == UNCHANGED epicVars

\* CHANGE_STAGE_VALUES asks only when a field was affected.
loadAffected(id, affected) ==
  IF affected = {} THEN UNCHANGED epicVars ELSE loadOptions(id)

\* Only a stage is loaded when it is selected: any other path is filtered out
\* and leaves the request under way alone.
loadSelected ==
  IF selected'[1] = "stage" THEN loadOptions(selected'[2]) ELSE UNCHANGED epicVars

\* An error ends the streams of both epics and drops the request under way.
epicsDie == epicsAlive' = FALSE /\ loads' = {}

-----------------------------------------------------------------------------
(* The side form.                                                          *)

\* ngOnDestroy, or another id: the form is closed, and what was typed in the
\* last 200 ms is lost.
closeForm == typedName' = NoDraft /\ typedValues' = NoDraft

\* The stage's form is built anew whenever its entity changes.
rebuildSettings(id) ==
  typedValues' = IF typedValues # NoDraft /\ typedValues.stage = id THEN NoDraft
                 ELSE typedValues

-----------------------------------------------------------------------------
(* The steps of the user.                                                  *)

EditorOpen == Open /\ UNCHANGED <<epicVars, draftVars>>

\* SELECT of the same path leaves the state as it is, and the form open, but
\* the epic sees the action.
EditorSelect ==
  /\ Select
  /\ loadSelected
  /\ IF selected' = selected THEN UNCHANGED draftVars ELSE closeForm

EditorPickTask == PickTask /\ loadSelected /\ closeForm

\* No epic listens to removals: a request for the stage goes on.
EditorRemove == RemoveSelected /\ UNCHANGED epicVars /\ closeForm

EditorSettings ==
  /\ selected = Unselected
  /\ \E ok \in BOOLEAN : CHANGE_PIPELINE_SETTINGS(ok)
  /\ UNCHANGED <<epicVars, draftVars>>

TypeName ==
  /\ selected[1] \in {"stage", "parallel"}
  /\ \E name \in Name \cup {NoName} : typedName' = [path |-> selected, name |-> name]
  /\ UNCHANGED <<storeVars, epicVars, typedValues>>

\* The values the controls of the stage's form show.
shownValues ==
  IF typedValues # NoDraft THEN typedValues.values
  ELSE stageForms.entities[selected[2]].values

\* The form only has controls for the fields that the stored values show.
TypeValue ==
  /\ selected[1] = "stage"
  /\ \E f \in Field : \E x \in Input[f] \cup {Nil} :
       /\ ~ hidden(f, stageForms.entities[selected[2]].values)
       /\ typedValues' = [stage  |-> selected[2],
                          values |-> [shownValues EXCEPT ![f] = x]]
  /\ UNCHANGED <<storeVars, epicVars, typedName>>

-----------------------------------------------------------------------------
(* The steps of the clock and the server.                                  *)

FlushName ==
  /\ typedName # NoDraft
  /\ \/ typedName.path[1] = "stage" /\ CHANGE_STAGE_NAME(typedName.path[2], typedName.name)
     \/ typedName.path[1] = "parallel" /\ CHANGE_PARALLEL_NAME(typedName.path[2], typedName.name)
  /\ typedName' = NoDraft
  /\ UNCHANGED <<epicVars, typedValues>>

\* tryChangeStageValuesEpic: dispatch, change, and a request when a field is
\* affected.  A circle of related fields overflows the stack of the epic; without
\* the epics the values never arrive.
FlushValues ==
  /\ typedValues # NoDraft
  /\ LET id       == typedValues.stage
         original == stageForms.entities[id].values
         changes  == {f \in Field : original[f] # typedValues.values[f]}
     IN  IF ~ epicsAlive THEN UNCHANGED <<storeVars, epicVars>>
         ELSE IF diverges(changes) THEN epicsDie /\ UNCHANGED storeVars
         ELSE /\ TRY_CHANGE_STAGE_VALUES(id, typedValues.values)
              /\ loadAffected(id, allAffected(changes))
  /\ typedValues' = NoDraft
  /\ UNCHANGED typedName

\* The whole side form is built anew.
Answered_closesForm(load) ==
  \/ /\ load.stage \in DOMAIN stageForms.entities
     /\ \E failed \in SUBSET DOMAIN load.items :
          RECEIVE_STAGE_OPTIONS(load.stage, answer(load.items, failed))
     /\ loads' = loads \ {load}
     /\ closeForm
     /\ UNCHANGED epicsAlive
  \/ /\ load.stage \notin DOMAIN stageForms.entities
     /\ epicsDie
     /\ UNCHANGED <<storeVars, draftVars>>

\* The answer; a field whose request failed gets the empty list.  For a stage
\* that is gone the reducer throws a TypeError, and the error ends the epics.
Answered(load) ==
  \/ /\ load.stage \in DOMAIN stageForms.entities
     /\ \E failed \in SUBSET DOMAIN load.items :
          RECEIVE_STAGE_OPTIONS(load.stage, answer(load.items, failed))
     /\ loads' = loads \ {load}
     /\ rebuildSettings(load.stage)
     /\ UNCHANGED <<epicsAlive, typedName>>
  \/ /\ load.stage \notin DOMAIN stageForms.entities
     /\ epicsDie
     /\ UNCHANGED <<storeVars, draftVars>>

OptionsArrive == \E load \in loads : Answered(load)

EditorNext ==
  \/ EditorOpen
  \/ EditorSelect
  \/ EditorPickTask
  \/ EditorRemove
  \/ EditorSettings
  \/ TypeName
  \/ TypeValue
  \/ FlushName
  \/ FlushValues
  \/ OptionsArrive

EditorSpec == EditorInit /\ [][EditorNext]_editorVars

\* A request is answered unless another takes its place, which starts from the
\* beginning: that one is a request of another number.  A debounce never fires
\* under a user who goes on typing, so none is assumed to.
FairEditorSpec ==
  /\ EditorSpec
  /\ \A number \in {0, 1} :
       WF_editorVars(\E load \in loads : load.number = number /\ Answered(load))

-----------------------------------------------------------------------------
(* Properties.                                                             *)

\* What the debounced forms and the delayed answers do to the store is what
\* the reducers' own specification allows: a late edit never touches a stage
\* that is gone, and a late answer is still the right one for the values the
\* stage has by then.
StoreSpec == Spec

\* While the epics live, the stage the side form shows is never left with a
\* field that waits for options nobody has asked for.
SelectedIsLoading ==
  epicsAlive /\ selected[1] = "stage" =>
    LET pending == pendingFields(stageForms.entities[selected[2]]) IN
      pending # {} =>
        \E load \in loads : load.stage = selected[2] /\ DOMAIN load.items = pending

\* A name that was typed vanishes from the form only into the store or with
\* the form; options that arrive meanwhile do not take it away.
TypedNameKept ==
  [][typedName # NoDraft /\ typedName' = NoDraft /\ selected' = selected =>
       LET entities == IF typedName.path[1] = "stage" THEN stages'.entities
                       ELSE parallels'.entities
       IN  entities[typedName.path[2]].name = typedName.name]_editorVars

\* A request takes the place of one that was not answered.
Replaced ==
  \E load \in loads, next \in loads' : load.number # next.number

\* A stage whose form stays open is not loading for ever, unless the user goes
\* on for ever selecting it or changing what its options depend on before they
\* are there.
LoadingEnds ==
  \A id \in 1 .. MaxId :
    LET waiting == /\ epicsAlive
                   /\ selected = <<"stage", id>>
                   /\ pendingFields(stageForms.entities[id]) # {}
    IN  []<><<Replaced>>_editorVars \/ (waiting ~> ~ waiting)
=============================================================================
