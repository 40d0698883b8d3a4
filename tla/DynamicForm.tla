---------------------------- MODULE DynamicForm -----------------------------
(***************************************************************************)
(* The form of a stage, compiled from the arguments of its task template:  *)
(* which fields are hidden, which fields a change resets, and which fields *)
(* have options to load.  store/utils/dynamic-form.ts and datasource.ts.   *)
(*                                                                         *)
(* One task template is modelled; all stages use it.                       *)
(***************************************************************************)
EXTENDS Integers, SequencesExt

CONSTANTS
  Field,      \* the arguments of the task template
  Kind,       \* [Field -> kind of the serializor of its control config]
  Input,      \* [Field -> what its control can hold besides Nil]
  Nil,        \* null
  Blank,      \* the empty string
  True, False,\* what a switch holds
  Project,    \* the namespace of the project
  Related,    \* [Field -> Field \cup {Nil}]: display.related
  Resolved,   \* fields whose control config has an optionsResolver
  Reads,      \* [Field -> the fields its optionsResolver looks up in the state]
  Needs,      \* [Field -> the fields without which it has no options]
  Required,   \* fields with required: true
  Relations,  \* [Field -> its relations in order, [action, of, pairs]]
  Default     \* [Field -> its default, as text]

-----------------------------------------------------------------------------
(* The text that is stored for a value.  The text that JSON.stringify and  *)
(* R.toString make of v is [json |-> v]; the text of a secret is the pair  *)
(* of its parts.                                                           *)

NoSecret == <<Blank, Blank>>

formatSecret(secret) ==
  IF secret = Nil THEN NoSecret ELSE <<secret.namespace, secret.name>>

\* Only the project's own name is found again in front of the hyphen.  No other
\* namespace or name is taken to start with it.
fromCredentialId(id) ==
  IF id = NoSecret THEN Nil
  ELSE IF id[1] = Project THEN [namespace |-> Project, name |-> id[2]]
  ELSE [namespace |-> Blank, name |-> IF id[1] = Blank THEN id[2] ELSE id]

\* Only a repository of the platform is stored with its binding.
serializeRepository(data) ==
  IF data = Nil THEN Nil
  ELSE [url                   |-> data.repo,
        bindingRepositoryName |-> IF data.kind = "buildin" THEN data.bindingRepository ELSE Blank,
        credentialId          |-> formatSecret(data.secret),
        sourceType            |-> IF data.kind = "svn" THEN "SVN" ELSE "GIT",
        kind                  |-> IF data.kind = "buildin" THEN "select" ELSE "input"]

deserializeRepository(text) ==
  IF text = Nil THEN Nil
  ELSE [repo              |-> text.url,
        secret            |-> fromCredentialId(text.credentialId),
        bindingRepository |-> text.bindingRepositoryName,
        kind              |-> IF text.kind = "select" THEN "buildin"
                              ELSE IF text.sourceType = "SVN" THEN "svn" ELSE "git"]

serialize(f, v) ==
  CASE Kind[f] = "string"     -> v
    [] Kind[f] = "boolean"    -> [json |-> IF v = True THEN True ELSE False]
    [] Kind[f] = "json"       -> [json |-> v]
    [] Kind[f] = "repository" -> serializeRepository(v)

\* A switch is on when its text is not empty: 'false' is a text.
deserialize_truthy(f, text) ==
  CASE Kind[f] = "string"     -> text
    [] Kind[f] = "boolean"    -> IF text = Nil THEN False ELSE True
    [] Kind[f] = "json"       -> IF text \in [json : Input[f]] THEN text.json ELSE Nil
    [] Kind[f] = "repository" -> deserializeRepository(text)

\* A missing text is no JSON.  A switch is on or off, whatever is stored.
deserialize(f, text) ==
  CASE Kind[f] = "string"     -> text
    [] Kind[f] = "boolean"    -> IF text = [json |-> True] THEN True ELSE False
    [] Kind[f] = "json"       -> IF text \in [json : Input[f]] THEN text.json ELSE Nil
    [] Kind[f] = "repository" -> deserializeRepository(text)

defaultValue(f) == deserialize(f, Default[f])

CodeRepository(data) ==
  /\ data = [repo |-> data.repo, secret |-> data.secret,
             bindingRepository |-> data.bindingRepository, kind |-> data.kind]
  /\ data.kind \in {"buildin", "git", "svn"}
  /\ data.secret # Nil =>
       /\ data.secret = [namespace |-> data.secret.namespace, name |-> data.secret.name]
       /\ data.secret.name # Blank

ASSUME DynamicFormAssumption ==
  /\ IsFiniteSet(Field)
  /\ Nil \notin Field
  /\ Nil # Blank /\ True # False /\ Blank # Project
  /\ Kind \in [Field -> {"string", "boolean", "json", "repository"}]
  /\ Related \in [Field -> Field \cup {Nil}]
  /\ Resolved \subseteq Field
  /\ Reads \in [Field -> SUBSET Field]
  /\ Needs \in [Field -> SUBSET Field]
  /\ Required \subseteq Field
  /\ \A f \in Field :
       /\ Nil \notin Input[f]
       /\ Kind[f] = "boolean" => Input[f] = {True, False}
       /\ Kind[f] = "repository" => \A data \in Input[f] : CodeRepository(data)
       /\ {deserialize(f, Nil), defaultValue(f)} \subseteq Input[f] \cup {Nil}
       /\ Needs[f] \subseteq Reads[f] \cup ({Related[f]} \ {Nil})
       /\ \A relation \in ToSet(Relations[f]) : \A pair \in relation.pairs :
            pair.name \in Field /\ pair.value \in Input[pair.name]
       /\ \A v \in Input[f] : deserialize(f, serialize(f, v)) \in Input[f]

Values ==
  {values \in [Field -> (UNION {Input[f] : f \in Field}) \cup {Nil}] :
     \A f \in Field : values[f] \in Input[f] \cup {Nil}}

\* What is saved of a form, and what can be loaded.
textsOf(values) == [f \in Field |-> serialize(f, values[f])]
readable(texts) == \A f \in Field : deserialize(f, texts[f]) \in Input[f] \cup {Nil}

\* What Validators.required rejects, and what an optionsResolver does without.
empty(v) == v \in {Nil, Blank}

-----------------------------------------------------------------------------
(* The fields that depend on each other.                                   *)

\* The fields that name f as their related field.  A field related to itself
\* is not among them: its own entry of the dictionary is written last.
affectFields(f) == {g \in Field \ {f} : Related[g] = f}

\* Only the fields that name a changed field themselves.
allAffected_once(changed) == UNION {affectFields(g) : g \in changed}

\* What the recursion of getAllAffected collects from the changed fields: the
\* fields reached in one step or more.
allAffected(changed) ==
  LET reached[n \in 0 .. Cardinality(Field)] ==
        IF n = 0 THEN {} ELSE UNION {affectFields(f) : f \in changed \cup reached[n - 1]}
  IN  Field \cap reached[Cardinality(Field)]

\* The recursion has no memory: from a field on a cycle it never returns.
diverges(changed) ==
  \E f \in changed \cup allAffected(changed) : f \in allAffected({f})

\* The value the relation names is read as the other field would read it.  A
\* string is quoted by R.toString and equals no string then.
whenEqual(pair, values) ==
  deserialize(pair.name, [json |-> pair.value]) = values[pair.name]

\* One pair of a name and a value counts as all of one; no condition, as any of
\* none.
whenExpression(relation, values) ==
  CASE relation.of = "all" -> \A pair \in relation.pairs : whenEqual(pair, values)
    [] relation.of = "any" -> \E pair \in relation.pairs : whenEqual(pair, values)

\* The first relation that shows or hides decides.
hidden(f, values) ==
  LET i == SelectInSeq(Relations[f], LAMBDA relation : relation.action \in {"show", "hidden"})
  IN  i # 0 /\ (Relations[f][i].action = "hidden" <=> whenExpression(Relations[f][i], values))

\* form.errors of a FormGroup whose validators were built while the values
\* were `built` and that now holds `values`.
errorsOf(built, values) ==
  \E f \in Required : ~ hidden(f, built) /\ empty(values[f])

\* snapshot(): the form of a stage that has just been added (no texts) or
\* loaded.  A field whose text is read as null gets its default.
snapshot(texts) ==
  LET values == [f \in Field |-> LET value == deserialize(f, texts[f]) IN
                                 IF value = Nil THEN defaultValue(f) ELSE value]
  IN  [values  |-> values,
       errors  |-> errorsOf(values, values),
       options |-> [f \in Field |-> [items |-> Nil, pending |-> f \in Resolved]]]

\* snapshot(null, task)
noTexts == [f \in Field |-> Nil]

-----------------------------------------------------------------------------
(* The options.                                                            *)

\* CHANGE_STAGE_VALUES: the options of every affected field are to be loaded
\* again, whether the field has a resolver or not.
changeValues(form, values, errors, affected) ==
  [values  |-> values,
   errors  |-> errors,
   options |-> [f \in Field |-> IF f \in affected
                                THEN [items |-> Nil, pending |-> TRUE]
                                ELSE form.options[f]]]

\* {...options, ...loaded}
spread(options, loaded) ==
  [f \in DOMAIN options \cup DOMAIN loaded |->
     IF f \in DOMAIN loaded THEN loaded[f] ELSE options[f]]

\* The fields go on waiting for what they have.
receiveOptions_waits(form, items) ==
  [form EXCEPT !.options =
     spread(@, [f \in DOMAIN items |-> [items |-> items[f], pending |-> TRUE]])]

\* RECEIVE_STAGE_OPTIONS
receiveOptions(form, items) ==
  [form EXCEPT !.options =
     spread(@, [f \in DOMAIN items |-> [items |-> items[f], pending |-> FALSE]])]

pendingFields(form) == {f \in Field : form.options[f].pending}

\* What the optionsResolver of f looks at: the related value it is called with
\* and the fields it looks up in the state.
inspected(f) == Reads[f] \cup ({Related[f]} \ {Nil})

NoOptions == <<>>

\* The options are named by the values they are for; without one that is needed
\* there are none.
resolve(f, values) ==
  IF \E g \in Needs[f] : empty(values[g]) THEN NoOptions
  ELSE [g \in inspected(f) |-> values[g]]

\* What is asked for a form.
asked(form) == [f \in pendingFields(form) |-> resolve(f, form.values)]

\* catchError: a field whose request fails has no options.
answer(items, failed) ==
  [f \in DOMAIN items |-> IF f \in failed THEN NoOptions ELSE items[f]]

\* f is related to g, at once or along a chain: f is in every set of fields that
\* has the fields related to g and those related to its own.
relatedTo(f, g) ==
  \A S \in SUBSET Field :
    affectFields(g) \cup UNION {affectFields(h) : h \in S} \subseteq S => f \in S

\* The fields f looks at are all fields it is related to, so that a change of any
\* of them is to have its options loaded again.
announced(f) == \A g \in inspected(f) : relatedTo(f, g)
=============================================================================
