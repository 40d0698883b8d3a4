------------------------ MODULE PipelineTriggerForm -------------------------
(***************************************************************************)
(* The triggers of a pipeline in the forms that create, copy and update it *)
(* (modules/pipeline/components/create, update and forms/triggers), and    *)
(* the conversions between the form and what is stored                     *)
(* (api/pipeline/utils.ts).  A pipeline has a trigger for code changes and *)
(* one for a time, which is a cron rule or days and times; a pipeline of   *)
(* several branches has the latter only, but shows the form of the former. *)
(*                                                                         *)
(* A rule is there or not, and so are days and times.  The validators of   *)
(* the control for days and times change as the form is used.              *)
(*                                                                         *)
(* What is stored may also have a trigger that these forms do not know, a  *)
(* change of an image (modules/pipeline/utils.ts:11).  The form of a copy  *)
(* is shown before what it copies has been read, and may stay as it is.    *)
(***************************************************************************)
NoRule == ""
Rule == {NoRule, "H/2 * * * *"}

\* outputTriggerDays and inputTriggerDays: whether there is a schedule, and if it
\* has a day and a time.
Schedule == [given : BOOLEAN, days : BOOLEAN, times : BOOLEAN]
noSchedule == [given |-> FALSE, days |-> FALSE, times |-> FALSE]

VARIABLES
  method,     \* "script" or "multi-branch"
  mode,       \* "create" and "update" while the form is open, or "none"
  triggers,   \* what is stored
  code,       \* triggers[0] of the form
  cron,       \* triggers[1]
  checked,    \* cron_object has the cronRuleValidator
  required,   \* the control of cron that is shown was given Validators.required
  copying,    \* what is copied is still being read
  untouched   \* nothing was changed since the form was opened for an update

validators == <<checked, required>>
triggerVars == <<method, mode, triggers, code, cron, validators, copying, untouched>>

-----------------------------------------------------------------------------
(* The conversions.                                                        *)

resource(type, enabled, rule, schedule) ==
  [type |-> type, enabled |-> enabled, rule |-> rule, schedule |-> schedule]

\* fromTrigger, and what toPipelineConfigResource does for several branches.
fromTrigger ==
  IF method = "multi-branch"
  THEN {resource("cron", code.enabled, code.rule, noSchedule)}
  ELSE {r \in {resource("codeChange", code.enabled, code.rule, noSchedule)} : code.rule # NoRule}
       \cup {r \in {resource("cron", cron.enabled,
                             IF cron.sourceType = "input" THEN cron.rule ELSE NoRule,
                             IF cron.sourceType = "select" THEN cron.object ELSE noSchedule)} :
               cron.rule # NoRule \/ cron.object.times}

\* The rule of a code change, which is periodicCheck, is not looked for.
mapPipelineTrigger_rule(type) ==
  LET found == {t \in triggers : t.type = type} IN
  IF found = {} THEN resource(type, FALSE, NoRule, noSchedule)
  ELSE LET t == CHOOSE t \in found : TRUE IN
       IF type = "codeChange" THEN [t EXCEPT !.rule = NoRule] ELSE t

\* mapPipelineTrigger: the stored trigger of a type.
mapPipelineTrigger(type) ==
  LET found == {t \in triggers : t.type = type} IN
  IF found = {} THEN resource(type, FALSE, NoRule, noSchedule) ELSE CHOOSE t \in found : TRUE

\* toPipelineConfigModel.
storedCode ==
  LET t == mapPipelineTrigger(IF method = "multi-branch" THEN "cron" ELSE "codeChange")
  IN  [enabled |-> t.enabled, rule |-> t.rule]

storedCron ==
  LET t == mapPipelineTrigger("cron")
  IN  [enabled |-> t.enabled, rule |-> t.rule, object |-> t.schedule,
       sourceType |-> IF t.schedule.given THEN "select" ELSE "input"]

-----------------------------------------------------------------------------
(* Opening the form.                                                       *)

newCode == [enabled |-> FALSE, rule |-> NoRule]

newCron == [enabled |-> FALSE, rule |-> NoRule, sourceType |-> "select",
            object |-> [given |-> TRUE, days |-> TRUE, times |-> TRUE]]

Create ==
  /\ mode = "none"
  /\ mode' = "create"
  /\ code' = newCode /\ cron' = newCron
  /\ checked' = TRUE /\ required' = FALSE
  /\ copying' = FALSE /\ untouched' = FALSE
  /\ UNCHANGED <<method, triggers>>

\* toPipelineConfigModel throws for several branches without a trigger for a time.
readable == method = "multi-branch" => \E t \in triggers : t.type = "cron"

\* An update changes what is stored.  With several branches the second trigger of
\* the form stays as it was.
Update ==
  /\ mode = "none" /\ readable
  /\ mode' = "update"
  /\ code' = storedCode
  /\ cron' = IF method = "multi-branch" THEN newCron ELSE storedCron
  /\ checked' = TRUE /\ required' = FALSE
  /\ copying' = FALSE /\ untouched' = TRUE
  /\ UNCHANGED <<method, triggers>>

\* A copy is a new form, while what it copies and its template are read.
Copy ==
  /\ mode = "none"
  /\ mode' = "create"
  /\ code' = newCode /\ cron' = newCron
  /\ checked' = TRUE /\ required' = FALSE
  /\ copying' = TRUE /\ untouched' = FALSE
  /\ UNCHANGED <<method, triggers>>

\* The answer is put over what was chosen meanwhile.  The validators stay.
CopyRead ==
  /\ copying /\ readable
  /\ code' = storedCode
  /\ cron' = IF method = "multi-branch" THEN cron ELSE storedCron
  /\ copying' = FALSE
  /\ UNCHANGED <<method, mode, triggers, validators, untouched>>

\* A request fails, or getTemplateStep throws because what is copied is of no
\* template.  The error is dropped, and the form stays.
CopyFails ==
  /\ copying
  /\ copying' = FALSE
  /\ UNCHANGED <<method, mode, triggers, code, cron, validators, untouched>>

-----------------------------------------------------------------------------
(* Using it.  The cron trigger is enabled and its type is changed when     *)
(* nothing is being read any more: the triggers are the third step of the  *)
(* form, and the request is made when it opens.                            *)

SetCode(trigger) ==
  /\ mode # "none"
  /\ code' = trigger
  /\ untouched' = FALSE
  /\ UNCHANGED <<method, mode, triggers, cron, validators, copying>>

EnableCron ==
  /\ mode # "none" /\ method = "script" /\ ~ copying
  /\ cron' = [cron EXCEPT !.enabled = ~ @]
  /\ untouched' = FALSE
  /\ UNCHANGED <<method, mode, triggers, code, validators, copying>>

SetRule(rule) ==
  /\ mode # "none" /\ method = "script" /\ cron.sourceType = "input"
  /\ cron' = [cron EXCEPT !.rule = rule]
  /\ untouched' = FALSE
  /\ UNCHANGED <<method, mode, triggers, code, validators, copying>>

SetSchedule(schedule) ==
  /\ mode # "none" /\ method = "script" /\ cron.sourceType = "select"
  /\ schedule.given
  /\ cron' = [cron EXCEPT !.object = schedule]
  /\ untouched' = FALSE
  /\ UNCHANGED <<method, mode, triggers, code, validators, copying>>

\* inputTypeChange.  The validators of the control that goes are cleared; those of
\* the one that comes are only set if the trigger is enabled by now, and stay
\* when it is disabled.
inputTypeChange ==
  /\ mode # "none" /\ method = "script" /\ ~ copying
  /\ required' = cron.enabled
  /\ IF cron.sourceType = "select"
     THEN cron' = [cron EXCEPT !.sourceType = "input"] /\ checked' = FALSE
     ELSE cron' = [cron EXCEPT !.sourceType = "select"] /\ checked' = (checked \/ cron.enabled)
  /\ untouched' = FALSE
  /\ UNCHANGED <<method, mode, triggers, code, copying>>

\* A day is enough for the validator.
cronValid_days ==
  cron.enabled \/ required =>
    IF cron.sourceType = "input" THEN cron.rule # NoRule
    ELSE cron.object.given /\ (checked => cron.object.days)

\* Validators.required, also by the attribute of the template, which is set while
\* the trigger is enabled, and cronRuleValidator.
cronValid ==
  cron.enabled \/ required =>
    IF cron.sourceType = "input" THEN cron.rule # NoRule
    ELSE cron.object.given /\ (checked => cron.object.days /\ cron.object.times)

codeValid == code.enabled => code.rule # NoRule

\* The request is sent and answered.
SubmitTriggers ==
  /\ mode # "none"
  /\ codeValid /\ (method = "script" => cronValid)
  /\ triggers' = fromTrigger
  /\ mode' = "none" /\ copying' = FALSE
  /\ UNCHANGED <<method, code, cron, validators, untouched>>

-----------------------------------------------------------------------------
\* What someone else may have stored.
imageChange == resource("imageChange", TRUE, NoRule, noSchedule)

TriggerInit ==
  /\ method \in {"script", "multi-branch"}
  /\ mode = "none"
  /\ triggers \in SUBSET {imageChange}
  /\ code = newCode /\ cron = newCron
  /\ checked = TRUE /\ required = FALSE
  /\ copying = FALSE /\ untouched = FALSE

TriggerNext ==
  \/ Create \/ Update \/ Copy \/ CopyRead \/ CopyFails
  \/ \E enabled \in BOOLEAN, rule \in Rule : SetCode([enabled |-> enabled, rule |-> rule])
  \/ EnableCron \/ inputTypeChange
  \/ \E rule \in Rule : SetRule(rule)
  \/ \E schedule \in Schedule : SetSchedule(schedule)
  \/ SubmitTriggers

TriggerSpec == TriggerInit /\ [][TriggerNext]_triggerVars

-----------------------------------------------------------------------------
(* Properties.                                                             *)

\* The triggers the forms know.  One that is disabled and has neither a rule nor a
\* time is nothing.
meant(ts) ==
  {t \in ts : /\ t.type \in {"codeChange", "cron"}
              /\ t.enabled \/ t.rule # NoRule \/ t.schedule.times}

\* The conversions of what is stored into the form and back agree: an update that
\* changes nothing keeps every trigger for a change of the code or a time.  A
\* trigger of another type has no control, and fromTrigger drops it.
UpdateKeepsTriggers ==
  [][untouched => meant(triggers') = meant(triggers)]_triggerVars

\* What is enabled when the form is sent is stored, and with something to go by:
\* a rule, or days and times (en.i18n.ts:1075, "Select one day at least!").
\* Except that the validator for the latter is lost when the user goes to the
\* rule and back while the trigger is disabled.
EnabledIsStored ==
  [][mode # "none" /\ mode' = "none" =>
       /\ code.enabled => \E t \in triggers' : t.enabled /\ t.rule = code.rule
       /\ cron.enabled /\ method = "script" =>
            \/ cron.sourceType = "select" /\ ~ checked
            \/ \E t \in triggers' :
                 /\ t.type = "cron" /\ t.enabled
                 /\ t.rule # NoRule \/ (t.schedule.days /\ t.schedule.times)]_triggerVars
=============================================================================
