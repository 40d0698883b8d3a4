--------------------------- MODULE PipelineStore ----------------------------
(***************************************************************************)
(* The reducers of the visual pipeline editor (store/reducers/*.ts): the   *)
(* parallels in the order of the flow, the stages each parallel forks      *)
(* into, the stages and their forms.  The four slices are reduced one by   *)
(* one from the same action; internalReducer then cascades removals.       *)
(*                                                                         *)
(* The undoable wrapper has stackSize 1 (module UndoableHistory), so the   *)
(* active state is the only state and it is what the variables hold.       *)
(*                                                                         *)
(* Left out: the slices navigator and tasks, which no other slice reads,   *)
(* and the flags edited and nameEdited, which only the labels depend on.   *)
(***************************************************************************)
EXTENDS EntityAdapter, DynamicForm

CONSTANTS
  Name,       \* the names a user can type, NoName not among them
  NoName,     \* the empty string
  Pipelines,  \* the saved pipelines that may be opened
  MaxId,      \* bound: the last uuid that is drawn for a new stage
  MaxTasks    \* bound: how many stages a saved parallel may have

\* A parallel is only ever saved with at least one stage, and every stage with
\* its values.
SavedPipeline(pipeline) ==
  /\ DOMAIN pipeline = {"stages", "graphValues"}
  /\ pipeline.stages \in Seq([name : Name \cup {NoName}, tasks : Seq(Name \cup {NoName})])
  /\ \A i \in DOMAIN pipeline.stages :
       LET tasks == pipeline.stages[i].tasks IN
         /\ Len(tasks) \in 1 .. MaxTasks
         /\ \A k \in DOMAIN tasks : readable(pipeline.graphValues[tasks[k]])

ASSUME PipelineStoreAssumption ==
  /\ NoName \notin Name
  /\ MaxId \in Nat
  /\ MaxTasks \in Nat
  /\ \A pipeline \in Pipelines : SavedPipeline(pipeline)

VARIABLES
  parallels,    \* [ids, entities], entities: name
  forks,        \* parallel |-> the stages it forks into
  stages,       \* [ids, entities], entities: [name, parent]
  stageForms,   \* [ids, entities], entities: a form of DynamicForm
  selected,     \* the path <<prefix, id>> the side form is open for
  settingsOk,   \* ~pipelineForm.errors
  nextId        \* uuid(): ids are drawn in order and never again

graph == <<parallels, forks, stages, stageForms>>
storeVars == <<parallels, forks, stages, stageForms, selected, settingsOk, nextId>>

Id == Nat \ {0}
NoId == 0                     \* the empty id of the path after/
Unselected == <<"", NoId>>

-----------------------------------------------------------------------------
(* What is saved and loaded: the pipelineconfig resource.                  *)

\* The stage that names a parallel that has no name.
firstStage(id) == stages.entities[Head(forks[id])]

getParallelName(id) ==
  IF parallels.entities[id].name # NoName THEN parallels.entities[id].name
  ELSE firstStage(id).name

\* toDatasource, as far as the graph goes.  The texts of the values are kept
\* under the name of the stage, not under its id.
toDatasource ==
  [stages |-> [i \in DOMAIN parallels.ids |->
     LET id == parallels.ids[i] IN
     [name  |-> getParallelName(id),
      tasks |-> [k \in DOMAIN forks[id] |-> stages.entities[forks[id][k]].name]]],
   graphValues |->
     [n \in {stages.entities[id].name : id \in ToSet(stages.ids)} |->
        LET last == SelectLastInSeq(stages.ids, LAMBDA id : stages.entities[id].name = n)
        IN  textsOf(stageForms.entities[stages.ids[last]].values)]]

\* fromDatasource: every parallel (k = 0) and every stage (k > 0) of the i-th
\* group is given a new uuid.
uuidOf(flow, i, k) == nextId + k * Len(flow) + i - 1

flowIds(flow, i) == [k \in DOMAIN flow[i].tasks |-> uuidOf(flow, i, k)]

longest(flow) == Max({0} \cup {Len(flow[i].tasks) : i \in DOMAIN flow})

places(flow) == UNION {{i} \X DOMAIN flow[i].tasks : i \in DOMAIN flow}

placeOf(flow, id) == CHOOSE p \in places(flow) : uuidOf(flow, p[1], p[2]) = id

\* The stages group by group.
flowStages(flow) ==
  LET upTo[n \in 0 .. Len(flow)] ==
        IF n = 0 THEN <<>> ELSE upTo[n - 1] \o flowIds(flow, n)
  IN  upTo[Len(flow)]

fromDatasource(pipeline) ==
  LET flow == pipeline.stages
      parallelIds == [i \in DOMAIN flow |-> uuidOf(flow, i, 0)]
      stageIds == flowStages(flow)
      drawn == {uuidOf(flow, p[1], p[2]) : p \in places(flow)}
      nameOf(id) == flow[placeOf(flow, id)[1]].tasks[placeOf(flow, id)[2]]
      groupOf(id) == id - nextId + 1
  IN  [parallels  |-> reset(parallelIds,
                        [id \in ToSet(parallelIds) |-> [name |-> flow[groupOf(id)].name]]),
       forks      |-> [id \in ToSet(parallelIds) |-> flowIds(flow, groupOf(id))],
       stages     |-> reset(stageIds,
                        [id \in drawn |->
                           [name   |-> nameOf(id),
                            parent |-> parallelIds[placeOf(flow, id)[1]]]]),
       stageForms |-> reset(stageIds,
                        [id \in drawn |->
                           snapshot(pipeline.graphValues[nameOf(id)])])]

-----------------------------------------------------------------------------
(* Whether the pipeline may be saved.                                      *)

DistinctNames(ids, nameOf(_)) ==
  \A a, b \in ToSet(ids) : nameOf(a) = nameOf(b) => a = b

noErrorField == \A id \in DOMAIN stageForms.entities : ~ stageForms.entities[id].errors
allNameFilled == \A id \in DOMAIN stages.entities : stages.entities[id].name # NoName
\* Names are compared inside each parallel only.
noDuplicateStageName_inFork ==
  \A p \in DOMAIN forks :
    DistinctNames(forks[p], LAMBDA id : stages.entities[id].name)

\* A parallel without a name of its own is not compared.
noDuplicateParallelName_named ==
  DistinctNames(SelectSeq(parallels.ids, LAMBDA id : parallels.entities[id].name # NoName),
                getParallelName)

noDuplicateStageName == DistinctNames(stages.ids, LAMBDA id : stages.entities[id].name)
noDuplicateParallelName == DistinctNames(parallels.ids, getParallelName)

selectValid ==
  /\ settingsOk
  /\ noErrorField
  /\ allNameFilled
  /\ noDuplicateStageName
  /\ noDuplicateParallelName

-----------------------------------------------------------------------------
(* The actions.                                                            *)

Init ==
  /\ parallels = emptyState
  /\ forks = <<>>
  /\ stages = emptyState
  /\ stageForms = emptyState
  /\ selected = Unselected
  /\ settingsOk = FALSE           \* the default settings have no name
  /\ nextId = 1

\* The pipeline has arrived from the server.
RESET_PIPELINE(pipeline) ==
  /\ LET loaded == fromDatasource(pipeline) IN
       /\ parallels'  = loaded.parallels
       /\ forks'      = loaded.forks
       /\ stages'     = loaded.stages
       /\ stageForms' = loaded.stageForms
  /\ nextId' = uuidOf(pipeline.stages, 1, 1 + longest(pipeline.stages))
  /\ settingsOk' = TRUE
  /\ UNCHANGED selected

\* The new parallel always goes to the end.
ADD_PARALLEL_BY_STAGE_last(after) ==
  /\ nextId <= MaxId
  /\ nextId' = nextId + 1
  /\ parallels' = append(parallels, nextId, [name |-> NoName])
  /\ forks' = put(forks, nextId, <<nextId>>)
  /\ stages' = append(stages, nextId, [name |-> NoName, parent |-> nextId])
  /\ stageForms' = append(stageForms, nextId, snapshot(noTexts))
  /\ selected' = <<"stage", nextId>>
  /\ UNCHANGED settingsOk

\* A stage is put between two parallels: it is the first stage of a parallel
\* of its own, and the parallel has the id of the stage.
ADD_PARALLEL_BY_STAGE(after) ==
  /\ nextId <= MaxId
  /\ nextId' = nextId + 1
  /\ parallels' = insertAfter(parallels, after, nextId, [name |-> NoName])
  /\ forks' = put(forks, nextId, <<nextId>>)
  /\ stages' = append(stages, nextId, [name |-> NoName, parent |-> nextId])
  /\ stageForms' = append(stageForms, nextId, snapshot(noTexts))
  /\ selected' = <<"stage", nextId>>
  /\ UNCHANGED settingsOk

ADD_STAGE(parallel) ==
  /\ nextId <= MaxId
  /\ nextId' = nextId + 1
  /\ forks' = put(forks, parallel, Append(forks[parallel], nextId))
  /\ stages' = append(stages, nextId, [name |-> NoName, parent |-> parallel])
  /\ stageForms' = append(stageForms, nextId, snapshot(noTexts))
  /\ selected' = <<"stage", nextId>>
  /\ UNCHANGED <<parallels, settingsOk>>

\* forks.ts: a parallel that loses its last stage loses its entry.
forksWithout(id, parent) ==
  IF parent \notin DOMAIN forks THEN forks
  ELSE LET rest == without(forks[parent], id) IN
       IF rest = <<>> THEN Restrict(forks, DOMAIN forks \ {parent})
       ELSE [forks EXCEPT ![parent] = rest]

\* The form outlives its stage.
REMOVE_STAGE_keepsForm(id, parent) ==
  /\ stages' = remove(stages, id)
  /\ UNCHANGED stageForms
  /\ forks' = forksWithout(id, parent)
  /\ parallels' = IF parent \in DOMAIN forks' THEN parallels
                  ELSE remove(parallels, parent)
  /\ selected' = Unselected
  /\ UNCHANGED <<settingsOk, nextId>>

\* Without the cascade of internalReducer.
REMOVE_STAGE_noCascade(id, parent) ==
  /\ stages' = remove(stages, id)
  /\ stageForms' = remove(stageForms, id)
  /\ forks' = forksWithout(id, parent)
  /\ selected' = Unselected
  /\ UNCHANGED <<parallels, settingsOk, nextId>>

\* internalReducer: when the entry is gone the parallel itself is removed.
REMOVE_STAGE(id, parent) ==
  /\ stages' = remove(stages, id)
  /\ stageForms' = remove(stageForms, id)
  /\ forks' = forksWithout(id, parent)
  /\ parallels' = IF parent \in DOMAIN forks' THEN parallels
                  ELSE remove(parallels, parent)
  /\ selected' = Unselected
  /\ UNCHANGED <<settingsOk, nextId>>

\* The path still names the parallel that has gone.
REMOVE_PARALLEL_keepsPath(id) ==
  /\ parallels' = remove(parallels, id)
  /\ stages' = removeAll(stages, forks[id])
  /\ stageForms' = removeAll(stageForms, forks[id])
  /\ forks' = Restrict(forks, DOMAIN forks \ {id})
  /\ UNCHANGED <<selected, settingsOk, nextId>>

\* internalReducer: every stage the parallel forked into is removed after it.
REMOVE_PARALLEL(id) ==
  /\ parallels' = remove(parallels, id)
  /\ stages' = removeAll(stages, forks[id])
  /\ stageForms' = removeAll(stageForms, forks[id])
  /\ forks' = Restrict(forks, DOMAIN forks \ {id})
  /\ selected' = Unselected
  /\ UNCHANGED <<settingsOk, nextId>>

\* The rest of the stage is not spread into the new one.
CHANGE_STAGE_NAME_alone(id, name) ==
  /\ stages' = update(stages, id, [name |-> name, parent |-> NoId])
  /\ UNCHANGED <<parallels, forks, stageForms, selected, settingsOk, nextId>>

\* The reducers do not ask whether the id is known.  The dictionary gets an
\* entry of its own for an unknown one, without the parent of a stage.
CHANGE_STAGE_NAME(id, name) ==
  /\ stages' = update(stages, id,
       IF id \in DOMAIN stages.entities
       THEN [stages.entities[id] EXCEPT !.name = name]
       ELSE [name |-> name, parent |-> NoId])
  /\ UNCHANGED <<parallels, forks, stageForms, selected, settingsOk, nextId>>

CHANGE_PARALLEL_NAME(id, name) ==
  /\ parallels' = update(parallels, id, [name |-> name])
  /\ UNCHANGED <<forks, stages, stageForms, selected, settingsOk, nextId>>

\* adapter.get(...).options: an unknown id is a TypeError, and the reducer
\* that throws leaves the state as it was.
CHANGE_STAGE_VALUES(id, values, errors, affected) ==
  /\ id \in DOMAIN stageForms.entities
  /\ stageForms' = update(stageForms, id,
       changeValues(stageForms.entities[id], values, errors, affected))
  /\ UNCHANGED <<parallels, forks, stages, selected, settingsOk, nextId>>

RECEIVE_STAGE_OPTIONS(id, items) ==
  /\ id \in DOMAIN stageForms.entities
  /\ stageForms' = update(stageForms, id,
       receiveOptions(stageForms.entities[id], items))
  /\ UNCHANGED <<parallels, forks, stages, selected, settingsOk, nextId>>

\* TRY_CHANGE_STAGE_VALUES: no reducer handles it; its epic answers at once with
\* the change.  The values the user started from are those of the store, and the
\* validators of the side form were built for them: they are asked again only
\* when a field is affected.
TRY_CHANGE_STAGE_VALUES(id, current) ==
  LET original == stageForms.entities[id].values
      changes  == {f \in Field : original[f] # current[f]}
      affected == allAffected(changes)
      values   == [f \in Field |-> IF f \in affected THEN Nil ELSE current[f]]
  IN  /\ ~ diverges(changes)
      /\ CHANGE_STAGE_VALUES(id, values,
           IF affected = {} THEN errorsOf(original, current) ELSE errorsOf(values, values),
           affected)

CHANGE_PIPELINE_SETTINGS(ok) ==
  /\ settingsOk' = ok
  /\ UNCHANGED <<parallels, forks, stages, stageForms, selected, nextId>>

SELECT(path) ==
  /\ selected' = path
  /\ UNCHANGED <<parallels, forks, stages, stageForms, settingsOk, nextId>>


-----------------------------------------------------------------------------
(* What the editor dispatches.                                             *)

\* The places of the diagram the user can click: the background, the gaps
\* before, between and behind the groups, the groups, the gap below the
\* stages of a group, and the stages.
paths ==
  {Unselected}
    \cup {"after"} \X ({NoId} \cup ToSet(parallels.ids))
    \cup {"parallel", "of"} \X ToSet(parallels.ids)
    \cup {"stage"} \X UNION {ToSet(forks[id]) : id \in ToSet(parallels.ids)}

Open ==
  /\ nextId = 1 /\ ~ settingsOk /\ selected = Unselected
  /\ \E pipeline \in Pipelines : RESET_PIPELINE(pipeline)

Select == \E path \in paths : SELECT(path)

PickTask ==
  \/ selected[1] = "after" /\ ADD_PARALLEL_BY_STAGE(selected[2])
  \/ selected[1] = "of" /\ ADD_STAGE(selected[2])

RemoveSelected ==
  \/ /\ selected[1] = "stage"
     /\ REMOVE_STAGE(selected[2], stages.entities[selected[2]].parent)
  \/ /\ selected[1] = "parallel"
     /\ REMOVE_PARALLEL(selected[2])

Edit ==
  \/ /\ selected[1] = "stage"
     /\ \E name \in Name \cup {NoName} : CHANGE_STAGE_NAME(selected[2], name)
  \/ /\ selected[1] = "stage"
     /\ \E values \in Values :
          /\ \A f \in Field : hidden(f, stageForms.entities[selected[2]].values)
               => values[f] = stageForms.entities[selected[2]].values[f]
          /\ TRY_CHANGE_STAGE_VALUES(selected[2], values)
  \/ /\ selected[1] = "parallel"
     /\ \E name \in Name \cup {NoName} : CHANGE_PARALLEL_NAME(selected[2], name)
  \/ /\ selected = Unselected
     /\ \E ok \in BOOLEAN : CHANGE_PIPELINE_SETTINGS(ok)

\* The options that arrive are those the current values ask for, or none where
\* a request failed.  How the epic sees to that, as long as every field that is
\* looked at is announced, is the subject of module PipelineEditor.
Receive ==
  \E id \in DOMAIN stageForms.entities :
    LET form == stageForms.entities[id] IN
      /\ pendingFields(form) # {}
      /\ \E failed \in SUBSET pendingFields(form) :
           RECEIVE_STAGE_OPTIONS(id, answer(asked(form), failed))

Next == Open \/ Select \/ PickTask \/ RemoveSelected \/ Edit \/ Receive

Spec == Init /\ [][Next]_storeVars

-----------------------------------------------------------------------------
(* Properties.                                                             *)

\* The shape of the state.
TypeOK ==
  /\ DOMAIN parallels = {"ids", "entities"}
  /\ parallels.ids \in Seq(Id)
  /\ \A id \in DOMAIN parallels.entities :
       parallels.entities[id] \in [name : Name \cup {NoName}]
  /\ DOMAIN stages = {"ids", "entities"}
  /\ \A id \in DOMAIN stages.entities :
       stages.entities[id] \in [name : Name \cup {NoName}, parent : Id]
  /\ DOMAIN stageForms = {"ids", "entities"}
  /\ \A id \in DOMAIN stageForms.entities :
       /\ DOMAIN stageForms.entities[id] = {"values", "errors", "options"}
       /\ stageForms.entities[id].values \in Values
       /\ stageForms.entities[id].errors \in BOOLEAN
  /\ \A id \in DOMAIN forks : forks[id] \in Seq(Id)
  /\ settingsOk \in BOOLEAN
  /\ nextId \in Id

\* Each slice keeps its list and its dictionary in step, and the stages and
\* their forms come and go together: the diagram looks a form up for every
\* stage, and saving looks a stage up for every id.
EntitiesInStep ==
  /\ inStep(parallels)
  /\ inStep(stages)
  /\ inStep(stageForms)
  /\ stageForms.ids = stages.ids

\* The forks are a partition of the stages over the parallels that are shown,
\* without an empty part (the diagram reads the last node of every group),
\* and a stage names as its parent the parallel that forks into it (which is
\* where REMOVE_STAGE will look for it).
EveryStageInOneFork ==
  /\ DOMAIN forks = ToSet(parallels.ids)
  /\ \A p \in DOMAIN forks :
       /\ forks[p] # <<>>
       /\ IsInjective(forks[p])
       /\ \A s \in ToSet(forks[p]) :
            s \in DOMAIN stages.entities /\ stages.entities[s].parent = p
  /\ \A s \in DOMAIN stages.entities :
       LET p == stages.entities[s].parent IN p \in DOMAIN forks /\ s \in ToSet(forks[p])

\* The side form is never open for something that is no longer there.
SelectedExists == selected \in paths

\* When the editor lets the pipeline be saved, no two stages share a name, so
\* each finds its own values in what is saved, under its own name, and every
\* parallel is saved under a name of its own.
SavedUnderOwnName ==
  selectValid =>
    LET saved == toDatasource IN
      /\ \A id \in ToSet(stages.ids) :
           saved.graphValues[stages.entities[id].name]
             = textsOf(stageForms.entities[id].values)
      /\ \A i, j \in DOMAIN saved.stages :
           saved.stages[i].name = saved.stages[j].name => i = j
      /\ \A i \in DOMAIN saved.stages : saved.stages[i].name # NoName
      /\ DOMAIN saved.graphValues
           = UNION {ToSet(saved.stages[i].tasks) : i \in DOMAIN saved.stages}

\* A secret of another namespace is found again by its text alone.
secretAgain(secret) ==
  IF secret = Nil \/ secret.namespace \in {Project, Blank} THEN secret
  ELSE [namespace |-> Blank, name |-> <<secret.namespace, secret.name>>]

\* What a value is after it was saved and opened.  Null becomes the default, but
\* a switch that is null is off, whatever its default.  A repository that is
\* not of the platform loses its binding.
valueAgain(f, v) ==
  CASE Kind[f] = "boolean" -> IF v = True THEN True ELSE False
    [] Kind[f] # "boolean" /\ v = Nil -> defaultValue(f)
    [] Kind[f] = "repository" /\ v # Nil ->
         [repo              |-> v.repo,
          secret            |-> secretAgain(v.secret),
          bindingRepository |-> IF v.kind = "buildin" THEN v.bindingRepository ELSE Blank,
          kind              |-> v.kind]
    [] Kind[f] \in {"string", "json"} /\ v # Nil -> v

valuesAgain(values) == [f \in Field |-> valueAgain(f, values[f])]

\* Opening what was saved shows what was there: the same groups and stages in
\* the same order, with the same names, and the same values but for those that
\* valueAgain tells apart.
RoundTrip ==
  selectValid =>
    LET again == fromDatasource(toDatasource) IN
      /\ Len(again.parallels.ids) = Len(parallels.ids)
      /\ \A i \in DOMAIN parallels.ids :
           LET old == parallels.ids[i]
               new == again.parallels.ids[i]
           IN  /\ again.parallels.entities[new].name = getParallelName(old)
               /\ Len(again.forks[new]) = Len(forks[old])
               /\ \A k \in DOMAIN forks[old] :
                    LET o == forks[old][k]
                        n == again.forks[new][k]
                    IN  /\ again.stages.entities[n].name = stages.entities[o].name
                        /\ again.stages.entities[n].parent = new
                        /\ again.stageForms.entities[n].values
                             = valuesAgain(stageForms.entities[o].values)

\* The options a dropdown offers are those for the present values of the fields
\* they depend on, or none, however long the chain of related fields.  That is
\* said of a field whose optionsResolver looks at nothing but fields that it is
\* related to, at once or along the chain: the options of any other are not
\* loaded again when what they depend on changes.
OptionsFresh ==
  \A id \in DOMAIN stageForms.entities :
    LET form == stageForms.entities[id] IN
      \A f \in Resolved :
        announced(f) /\ ~ form.options[f].pending
          => form.options[f].items \in {NoOptions, resolve(f, form.values)}

\* zh.i18n.ts:62 has the form say that a required field cannot be empty: no
\* pipeline is saved with a required field that is shown and empty.
RequiredFilled ==
  selectValid =>
    \A id \in DOMAIN stageForms.entities :
      LET values == stageForms.entities[id].values IN
        \A f \in Required : ~ hidden(f, values) => ~ empty(values[f])

\* The reducers implement the diagram of module PipelineDiagram.
Diagram ==
  INSTANCE PipelineDiagram WITH
    Names  <- Name \cup {NoName},
    flow   <- [i \in DOMAIN parallels.ids |-> forks[parallels.ids[i]]],
    nameOf <- [id \in DOMAIN stages.entities |-> stages.entities[id].name],
    seen   <- 1 .. nextId - 1,
    cursor <- IF selected[1] \in {"after", "of", "parallel"}
              THEN <<selected[1], positionOf(parallels.ids, selected[2])>>
              ELSE selected

DiagramSpec == Diagram!Spec

=============================================================================
