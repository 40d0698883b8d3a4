-------------------------- MODULE ApplicationForm ---------------------------
(***************************************************************************)
(* The form that creates or updates an application from images             *)
(* (modules/application/components/application-create/by-image and its     *)
(* multi-compute-component).  It begins with one compute component, or     *)
(* with the list of them; from the list a component is added, edited or    *)
(* deleted in a view of its own.  What is sent may come back as an error   *)
(* or as a report of what failed.                                          *)
(*                                                                         *)
(* A component is its name.  Left out: its other fields, the name of the   *)
(* application, and editing the list as YAML.  The name of a component     *)
(* that is stored is read-only; in a list the form here lets it be         *)
(* changed, too.                                                           *)
(***************************************************************************)
EXTENDS Integers, Sequences, SequencesExt

CONSTANTS
  ComponentName,   \* the names a component can have
  NoComponent,     \* the name of a form that is not filled in
  MaxComponents    \* bound: how long a list becomes by sending it again

ASSUME ApplicationFormAssumption ==
  /\ NoComponent \notin ComponentName
  /\ MaxComponents \in Nat

VARIABLES
  isEdit,
  componentList,
  componentListBuffer,
  model,             \* componentName of the model the form shows
  isMulti,
  isManagerComponent,
  isContinueToAdd,
  submitting,
  choosing,          \* the dialog that chooses an image is open
  twice,             \* the component that was sent alone was added once more
  saved,             \* the form has ended
  listed             \* the list when it was last shown (a history variable)

flags == <<isMulti, isManagerComponent, isContinueToAdd>>
lists == <<componentList, componentListBuffer>>
formVars == <<isEdit, lists, model, flags, submitting, choosing, twice, saved, listed>>

\* The user sees the form, or its list, and no dialog over it.
open == ~ saved /\ ~ choosing
inForm == open /\ ~ isManagerComponent
inList == open /\ isManagerComponent

checkFormValid == model # NoComponent
checkDuplicateComponentName == model \in ToSet(componentList)

\* The components but those of the name.
others(name) ==
  LET rest[n \in 0 .. Len(componentList)] ==
        IF n = 0 THEN <<>>
        ELSE IF componentList[n] = name THEN rest[n - 1]
        ELSE Append(rest[n - 1], componentList[n])
  IN  rest[Len(componentList)]

-----------------------------------------------------------------------------
(* The form of one component.                                              *)

\* What was sent alone is in the list as the object that the form changes.
Type(name) ==
  /\ inForm /\ (isEdit => isMulti)
  /\ model' = name
  /\ componentList' = IF isMulti THEN componentList
                      ELSE [i \in DOMAIN componentList |-> name]
  /\ UNCHANGED <<isEdit, componentListBuffer, flags, submitting, choosing, twice, saved>>

addComponentAction ==
  /\ componentList' = Append(componentList, model)
  /\ isManagerComponent' = TRUE
  /\ isMulti' = TRUE
  /\ UNCHANGED <<componentListBuffer, model>>

\* Previewing adds the component, too, but does not look for its name; it may
\* be under way to the server and in the list for that.
previewApp ==
  /\ inForm /\ ~ isMulti
  /\ checkFormValid /\ Len(componentList) < MaxComponents
  /\ addComponentAction
  /\ twice' = (twice \/ checkDuplicateComponentName)
  /\ UNCHANGED <<isEdit, isContinueToAdd, submitting, choosing, saved>>

addComputeComponent ==
  /\ inForm /\ ~ isMulti
  /\ ~ checkDuplicateComponentName
  /\ checkFormValid
  /\ addComponentAction
  /\ choosing' = isContinueToAdd
  /\ UNCHANGED <<isEdit, isContinueToAdd, submitting, twice, saved>>

\* The name is not looked for.
save_unchecked ==
  /\ inForm /\ isMulti /\ ~ submitting
  /\ checkFormValid
  /\ addComponentAction
  /\ choosing' = isContinueToAdd
  /\ UNCHANGED <<isEdit, isContinueToAdd, submitting, twice, saved>>

\* save.  If the user wants to go on, it is addComputeComponent, which asks for
\* the next image.
save ==
  /\ inForm /\ isMulti /\ ~ submitting
  /\ ~ checkDuplicateComponentName
  /\ checkFormValid
  /\ addComponentAction
  /\ choosing' = isContinueToAdd
  /\ UNCHANGED <<isEdit, isContinueToAdd, submitting, twice, saved>>

ContinueToAdd ==
  /\ inForm /\ isMulti
  /\ isContinueToAdd' = ~ isContinueToAdd
  /\ UNCHANGED <<isEdit, lists, model, isMulti, isManagerComponent, submitting, choosing, twice, saved>>

cancelEdit ==
  /\ inForm /\ isMulti
  /\ componentList' = componentListBuffer
  /\ isManagerComponent' = TRUE
  /\ UNCHANGED <<isEdit, componentListBuffer, model, isMulti, isContinueToAdd, submitting, choosing, twice, saved>>

-----------------------------------------------------------------------------
(* The list.                                                               *)

\* The copy is taken after the component has left the list.
editComponent_late(name) ==
  /\ inList /\ name \in ToSet(componentList)
  /\ model' = name
  /\ componentList' = others(name)
  /\ componentListBuffer' = componentList'
  /\ isManagerComponent' = FALSE
  /\ UNCHANGED <<isEdit, isMulti, isContinueToAdd, submitting, choosing, twice, saved>>

\* The component leaves the list for the form; cancelling needs the list as it
\* was.
editComponent(name) ==
  /\ inList /\ name \in ToSet(componentList)
  /\ model' = name
  /\ componentListBuffer' = componentList
  /\ componentList' = others(name)
  /\ isManagerComponent' = FALSE
  /\ UNCHANGED <<isEdit, isMulti, isContinueToAdd, submitting, choosing, twice, saved>>

\* delete of the list looks at the length, deleteComponent takes out every
\* component of the name.
deleteComponent(name) ==
  /\ inList /\ name \in ToSet(componentList)
  /\ Len(componentList) > 1
  /\ componentList' = others(name)
  /\ UNCHANGED <<isEdit, componentListBuffer, model, flags, submitting, choosing, twice, saved>>

openSelectImageDialog ==
  /\ inList
  /\ choosing' = TRUE
  /\ UNCHANGED <<isEdit, lists, model, flags, submitting, twice, saved>>

\* The dialog is closed: with an image, whose name the new component gets, or
\* without.
ImageChosen(name) ==
  /\ choosing /\ ~ saved
  /\ choosing' = FALSE
  /\ \/ /\ isManagerComponent' = FALSE
        /\ componentListBuffer' = componentList
        /\ model' = name
     \/ UNCHANGED <<isManagerComponent, componentListBuffer, model>>
  /\ UNCHANGED <<isEdit, componentList, isMulti, isContinueToAdd, submitting, twice, saved>>

-----------------------------------------------------------------------------
(* Sending.                                                                *)

\* createAction and updateAction: a single component is put into the list, where
\* the one of an update that failed still is.
submit ==
  /\ open /\ ~ submitting
  /\ isMulti => isManagerComponent
  /\ isManagerComponent \/ (checkFormValid /\ Len(componentList) < MaxComponents)
  /\ submitting' = TRUE
  /\ componentList' = IF isMulti THEN componentList ELSE Append(componentList, model)
  /\ twice' = (twice \/ (~ isMulti /\ checkDuplicateComponentName))
  /\ UNCHANGED <<isEdit, componentListBuffer, model, flags, choosing, saved>>

\* The component that was sent alone leaves the list.
pop == componentList' = IF isMulti THEN componentList ELSE Front(componentList)

Succeeds ==
  /\ submitting
  /\ submitting' = FALSE /\ saved' = TRUE
  /\ UNCHANGED <<isEdit, lists, model, flags, choosing, twice>>

\* handleReports: some resources could not be created or updated.
Reports ==
  /\ submitting
  /\ submitting' = FALSE
  /\ pop
  /\ UNCHANGED <<isEdit, componentListBuffer, model, flags, choosing, twice, saved>>

\* The request failed.  Only createAction takes the component out again.
Errors ==
  /\ submitting
  /\ submitting' = FALSE
  /\ IF isEdit THEN UNCHANGED componentList ELSE pop
  /\ UNCHANGED <<isEdit, componentListBuffer, model, flags, choosing, twice, saved>>

-----------------------------------------------------------------------------
\* ngOnInit: a new application with its first image, or the components of one.
FormInit ==
  /\ isEdit \in BOOLEAN
  /\ \E names \in {s \in SeqOf(ComponentName, 2) : s # <<>> /\ IsInjective(s)} :
       /\ isEdit \/ Len(names) = 1
       /\ isMulti = (Len(names) > 1)
       /\ componentList = IF Len(names) > 1 THEN names ELSE <<>>
       /\ model = IF Len(names) > 1 THEN NoComponent ELSE names[1]
  /\ isManagerComponent = isMulti
  /\ componentListBuffer = <<>>
  /\ isContinueToAdd = FALSE /\ submitting = FALSE /\ choosing = FALSE
  /\ twice = FALSE /\ saved = FALSE
  /\ listed = <<>>

FormNext ==
  /\ \/ \E name \in ComponentName \cup {NoComponent} : Type(name)
     \/ previewApp \/ addComputeComponent \/ save \/ ContinueToAdd \/ cancelEdit
     \/ \E name \in ComponentName :
          editComponent(name) \/ deleteComponent(name) \/ ImageChosen(name)
     \/ openSelectImageDialog
     \/ submit \/ Succeeds \/ Reports \/ Errors
  /\ listed' = IF isManagerComponent THEN componentList ELSE listed

FormSpec == FormInit /\ [][FormNext]_formVars

-----------------------------------------------------------------------------
(* Properties.                                                             *)

\* Whatever is added, edited, cancelled and sent in whichever order: no two
\* components of an application have the same name, unless the one that was
\* sent alone was added again.
NamesDistinct ==
  ~ twice => IsInjective(componentList)

\* Back from a component that was added or edited, the list is as it was shown
\* before, with the one that was edited in its place, or it has the new one at its
\* end: no answer that arrives meanwhile, and no going on to the next one, loses a
\* component.
CancelBringsBack ==
  [][isMulti /\ ~ isManagerComponent /\ isManagerComponent' =>
       componentList' \in {listed, Append(componentList, model)}]_formVars
=============================================================================
