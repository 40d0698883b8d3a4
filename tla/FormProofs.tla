----------------------------- MODULE FormProofs ------------------------------
(***************************************************************************)
(* What the forms of a pipeline store: the conversions between form and    *)
(* storage agree, and what the validators are there for is never stored,   *)
(* however long the user goes forth and back.  The form of an application  *)
(* never has two components of one name, for any number of components.     *)
(***************************************************************************)
EXTENDS PipelineTriggerForm, PipelineSourceForm, ApplicationForm,
        InductionLemmas

(* The source.                                                             *)

\* What a source that was stored looks like.
SourceStored ==
  /\ storedSource \in [sourceType : {"", "SVN", "GIT"},
                       member : {"none", "svn", "git", "codeRepository"},
                       ref : BranchName, script : Script]
  /\ storedSource.sourceType = "SVN" <=> storedSource.member = "svn"
  /\ storedSource.sourceType = "" <=> storedSource.member = "none"
  /\ storedSource.member = "none" => storedSource.ref = NoBranchName
  /\ storedSource.member # "none" => storedSource.script = ""

SourceShape ==
  /\ kindOfPipeline \in {"script", "multi-branch"}
  /\ action \in {"none", "create", "update"}
  /\ stepIndex \in {1, 2, 3}
  /\ source \in {"repo", "script"}
  /\ repo \in Kind \cup {"none"}
  /\ branch \in BranchName /\ script \in Script
  /\ branchRequired \in BOOLEAN /\ branchValid \in BOOLEAN
  /\ fromSvn \in BOOLEAN /\ unchanged \in BOOLEAN
  /\ SourceStored

\* The branch is required except for svn, and a repository that is not svn is only
\* valid with one, unless the validators were still those of svn.
BranchChecked ==
  /\ branchRequired = (repo # "svn")
  /\ repo # "svn" /\ branchValid => branch # NoBranchName \/ fromSvn
  /\ kindOfPipeline = "multi-branch" =>
       repo # "svn" /\ ~ fromSvn /\ storedSource.member # "svn"

\* The last step is only reached with a valid source.
LastStepValid == action = "create" /\ stepIndex = 3 => sourceValid

\* An update that changes nothing has in its form what is stored.
FormIsStored ==
  unchanged =>
    /\ action # "create"
    /\ action = "update" =>
         /\ repo = toRepoModel /\ script = storedSource.script /\ branch = storedBranch
         /\ storedSource # noSource

SourceInv == SourceShape /\ BranchChecked /\ LastStepValid /\ FormIsStored

LEMMA SourceInitEstablishes == SourceInit => SourceInv
  <1>. SUFFICES ASSUME SourceInit
                PROVE  SourceInv
    OBVIOUS
  <1>1. SourceStored
    BY DEF SourceInit, SourceStored, noSource, NoBranchName, BranchName, Script
  <1>2. SourceShape
    BY <1>1 DEF SourceInit, SourceShape, BranchName, Script
  <1>3. BranchChecked
    BY DEF SourceInit, BranchChecked, NoBranchName, noSource
  <1>4. LastStepValid /\ FormIsStored
    <2>1. stepIndex = 1 /\ unchanged = FALSE
      BY DEF SourceInit
    <2>. QED
      BY <2>1 DEF LastStepValid, FormIsStored
  <1>. QED
    BY <1>2, <1>3, <1>4 DEF SourceInv

\* What the form makes of its controls, if it can be sent.
LEMMA ResourceShape ==
  ASSUME SourceInv, SubmitSource
  PROVE  /\ SourceStored'
         /\ storedSource'.member = "svn" => repo = "svn"
         /\ storedSource'.member \in {"git", "codeRepository"} =>
              script = "" /\ source = "repo" /\ repo # "svn" /\ branchValid
         /\ storedSource'.ref = IF script # "" THEN NoBranchName ELSE branch
  <1>1. sourceValid
    BY DEF SubmitSource, SourceInv, LastStepValid
  <1>2. storedSource' = toRepoResource
    BY DEF SubmitSource
  <1>3. CASE script # ""
    <2>1. storedSource' = [sourceType |-> "", member |-> "none", ref |-> NoBranchName,
                           script |-> script]
      BY <1>2, <1>3 DEF toRepoResource, noSource
    <2>2. script \in Script
      BY DEF SourceInv, SourceShape
    <2>. QED
      BY <1>3, <2>1, <2>2 DEF SourceStored, BranchName, NoBranchName
  <1>4. CASE script = ""
    <2>1. source = "repo" /\ repo # "none" /\ branchValid
      BY <1>1, <1>4 DEF sourceValid, SourceInv, SourceShape
    <2>2. repo \in Kind /\ branch \in BranchName
      BY <2>1 DEF SourceInv, SourceShape
    <2>3. storedSource' = [sourceType |-> IF repo = "svn" THEN "SVN" ELSE "GIT",
                           member |-> IF repo = "buildin" THEN "codeRepository" ELSE repo,
                           ref |-> branch, script |-> ""]
      BY <1>2, <1>4 DEF toRepoResource
    <2>. QED
      BY <1>4, <2>1, <2>2, <2>3 DEF SourceStored, Kind, Script
  <1>. QED
    BY <1>3, <1>4

LEMMA ModelShape ==
  ASSUME SourceStored
  PROVE  /\ toRepoModel \in Kind \cup {"none"} /\ storedBranch \in BranchName
         /\ toRepoModel = "svn" <=> storedSource.member = "svn"
         /\ toRepoModel = "buildin" <=> storedSource.member = "codeRepository"
         /\ toRepoModel = "git" <=> storedSource.member = "git"
  BY DEF SourceStored, toRepoModel, storedBranch, Kind, BranchName, NoBranchName

\* What is stored, and what the form makes of it, only depends on it.
LEMMA StoredSame ==
  ASSUME SourceStored, storedSource' = storedSource
  PROVE  SourceStored' /\ toRepoModel' = toRepoModel /\ storedBranch' = storedBranch
  BY DEF SourceStored, toRepoModel, storedBranch

\* One case per action, and in each one what it can disturb.
LEMMA SourceNextPreserves == SourceInv /\ [SourceNext]_sourceVars => SourceInv'
  <1>. SUFFICES ASSUME SourceInv, [SourceNext]_sourceVars
                PROVE  SourceInv'
    OBVIOUS
  <1>. USE DEF SourceInv
  <1>1. CASE CreatePipeline
    <2>1. SourceStored'
      BY <1>1, StoredSame DEF CreatePipeline, SourceShape
    <2>2. SourceShape'
      BY <1>1, <2>1 DEF CreatePipeline, SourceShape, NoBranchName, BranchName, Script
    <2>3. BranchChecked'
      BY <1>1 DEF CreatePipeline, BranchChecked, SourceShape, NoBranchName, BranchName, Script
    <2>4. LastStepValid' /\ FormIsStored'
      <3>1. stepIndex' = 1 /\ unchanged' = FALSE
        BY <1>1 DEF CreatePipeline
      <3>. QED
        BY <3>1 DEF LastStepValid, FormIsStored
    <2>. QED
      BY <2>2, <2>3, <2>4
  <1>2. ASSUME NEW what \in {"create", "update"}, OpenPipeline(what)
        PROVE  SourceInv'
    <2>1. /\ toRepoModel \in Kind \cup {"none"} /\ storedBranch \in BranchName
          /\ toRepoModel = "svn" <=> storedSource.member = "svn"
      BY ModelShape DEF SourceShape
    <2>2. SourceStored' /\ storedSource' = storedSource /\ storedSource.script \in Script
      BY <1>2 DEF OpenPipeline, SourceShape, SourceStored
    <2>3. SourceShape'
      BY <1>2, <2>1, <2>2 DEF OpenPipeline, SourceShape
    <2>4. BranchChecked'
      BY <1>2, <2>1, <2>2 DEF OpenPipeline, BranchChecked, SourceShape
    <2>5. LastStepValid'
      BY <1>2 DEF OpenPipeline, LastStepValid
    <2>6. FormIsStored'
      BY <1>2, <2>2 DEF OpenPipeline, FormIsStored, toRepoModel, storedBranch
    <2>. QED
      BY <2>3, <2>4, <2>5, <2>6
  <1>3. ASSUME NEW s \in {"repo", "script"}, ChooseSource(s)
        PROVE  SourceInv'
    <2>1. SourceStored'
      BY <1>3, StoredSame DEF ChooseSource, SourceShape
    <2>2. SourceShape'
      BY <1>3, <2>1 DEF ChooseSource, SourceShape, control
    <2>3. BranchChecked'
      BY <1>3 DEF ChooseSource, BranchChecked, SourceShape, control
    <2>4. LastStepValid' /\ FormIsStored'
      BY <1>3 DEF ChooseSource, LastStepValid, FormIsStored, control
    <2>. QED
      BY <2>2, <2>3, <2>4
  <1>4. ASSUME NEW kind \in Kind, ChooseRepo(kind)
        PROVE  SourceInv'
    <2>1. /\ action' = action /\ stepIndex' = stepIndex
          /\ unchanged' = FALSE /\ repo' = kind /\ kindOfPipeline' = kindOfPipeline
          /\ storedSource' = storedSource
          /\ source' = source /\ script' = script
          /\ fromSvn' = (repo = "svn" /\ kind = "buildin")
      BY <1>4 DEF ChooseRepo, atSource
    <2>. fromSvn' \in BOOLEAN /\ unchanged' \in BOOLEAN /\ kind \in Kind
      BY <1>4, <2>1
    <2>2. LastStepValid' /\ FormIsStored'
      BY <1>4, <2>1 DEF ChooseRepo, atSource, LastStepValid, FormIsStored
    <2>3. SourceStored'
      BY <2>1 DEF SourceShape, SourceStored
    <2>4. CASE kindOfPipeline = "script"
      <3>1. /\ branch' = IF kind = "buildin" THEN NoBranchName ELSE "master"
            /\ branchValid' = (branch' # NoBranchName \/ ~ branchRequired)
            /\ branchRequired' = (kind # "svn")
        BY <1>4, <2>4 DEF ChooseRepo, branchReset
      <3>. branch' \in BranchName /\ branchValid' \in BOOLEAN /\ branchRequired' \in BOOLEAN
        BY <3>1 DEF BranchName, NoBranchName
      <3>2. SourceShape'
        BY <2>1, <2>3 DEF SourceShape
      <3>3. BranchChecked'
        BY <2>1, <2>4, <3>1 DEF SourceShape, BranchChecked, NoBranchName, Kind
      <3>. QED
        BY <2>2, <3>2, <3>3
    <2>5. CASE kindOfPipeline = "multi-branch"
      <3>1. kind # "svn" /\ UNCHANGED <<branch, branchRequired, branchValid>>
        BY <1>4, <2>5 DEF ChooseRepo, control
      <3>2. SourceShape'
        BY <2>1, <2>3, <3>1 DEF SourceShape
      <3>3. BranchChecked'
        BY <2>1, <2>5, <3>1 DEF BranchChecked
      <3>. QED
        BY <2>2, <3>2, <3>3
    <2>. QED
      BY <2>4, <2>5 DEF SourceShape
  <1>5. ASSUME NEW name \in BranchName, ChooseBranch(name)
        PROVE  SourceInv'
    <2>1. SourceStored'
      BY <1>5, StoredSame DEF ChooseBranch, SourceShape
    <2>2. SourceShape'
      BY <1>5, <2>1 DEF ChooseBranch, SourceShape, atSource
    <2>3. BranchChecked'
      BY <1>5 DEF ChooseBranch, BranchChecked, SourceShape, atSource
    <2>4. LastStepValid' /\ FormIsStored'
      BY <1>5 DEF ChooseBranch, LastStepValid, FormIsStored, atSource
    <2>. QED
      BY <2>2, <2>3, <2>4
  <1>6. ASSUME NEW text \in Script, TypeScript(text)
        PROVE  SourceInv'
    <2>1. SourceStored'
      BY <1>6, StoredSame DEF TypeScript, SourceShape
    <2>2. SourceShape'
      BY <1>6, <2>1 DEF TypeScript, SourceShape, atSource, control
    <2>3. BranchChecked'
      BY <1>6 DEF TypeScript, BranchChecked, SourceShape, atSource, control
    <2>4. LastStepValid' /\ FormIsStored'
      BY <1>6 DEF TypeScript, LastStepValid, FormIsStored, atSource, control
    <2>. QED
      BY <2>2, <2>3, <2>4
  <1>7. CASE Step
    <2>1. UNCHANGED <<kindOfPipeline, action, source, repo, branch, branchRequired,
                      branchValid, script, storedSource, fromSvn, unchanged>>
      BY <1>7 DEF Step, control, ghosts
    <2>2. stepIndex' \in {1, 2, 3} /\ (stepIndex' = 3 => sourceValid)
      BY <1>7 DEF Step, SourceShape
    <2>3. LastStepValid'
      BY <2>1, <2>2 DEF LastStepValid, sourceValid
    <2>4. SourceShape'
      BY <2>1, <2>2 DEF SourceShape, SourceStored
    <2>5. BranchChecked' /\ FormIsStored'
      BY <2>1 DEF BranchChecked, FormIsStored, toRepoModel, storedBranch
    <2>. QED
      BY <2>3, <2>4, <2>5
  <1>8. CASE SubmitSource
    <2>1. /\ action' = "none"
          /\ UNCHANGED <<kindOfPipeline, stepIndex, source, repo, branch, branchRequired,
                         branchValid, script, fromSvn, unchanged>>
      BY <1>8 DEF SubmitSource, control, ghosts
    <2>2. SourceStored' /\ (storedSource'.member = "svn" => repo = "svn")
      BY <1>8, ResourceShape
    <2>3. SourceShape'
      BY <2>1, <2>2 DEF SourceShape
    <2>4. BranchChecked' /\ LastStepValid' /\ FormIsStored'
      BY <2>1, <2>2 DEF BranchChecked, LastStepValid, FormIsStored
    <2>. QED
      BY <2>3, <2>4
  <1>9. CASE UNCHANGED sourceVars
    BY <1>9, ZenonT(30) DEF sourceVars, control, ghosts, SourceShape, SourceStored, BranchChecked,
                LastStepValid, FormIsStored, sourceValid, toRepoModel, storedBranch
  <1>. QED
    BY <1>1, <1>2, <1>3, <1>4, <1>5, <1>6, <1>7, <1>8, <1>9 DEF SourceNext

\* Only sending the form stores something.
LEMMA OnlySubmitStores ==
  ASSUME [SourceNext]_sourceVars
  PROVE  storedSource' = storedSource \/ SubmitSource
  BY DEF SourceNext, sourceVars, CreatePipeline, OpenPipeline, ChooseSource, ChooseRepo,
         ChooseBranch, TypeScript, Step

\* However long the user goes forth and back: no pipeline is stored with a
\* repository of git and without a branch, unless the repository was svn just before
\* (forms/repository/repository-form.component.ts).
THEOREM BranchGivenAlways == SourceSpec => BranchGiven
  <1>1. ASSUME SourceInv, [SourceNext]_sourceVars, storedSource' # storedSource,
               storedSource'.member \in {"git", "codeRepository"}
        PROVE  storedSource'.ref # NoBranchName \/ fromSvn
    <2>1. SubmitSource
      BY <1>1, OnlySubmitStores
    <2>2. /\ script = "" /\ repo # "svn" /\ branchValid
          /\ storedSource'.ref = branch
      BY <1>1, <2>1, ResourceShape
    <2>. QED
      BY <1>1, <2>2 DEF SourceInv, BranchChecked
  <1>. QED
    BY <1>1, SourceInitEstablishes, SourceNextPreserves, PTL DEF SourceSpec, BranchGiven

\* The conversions agree: an update that changes nothing keeps the source, but for
\* the branch of svn (api/pipeline/utils.ts).
THEOREM UpdateKeepsSourceAlways == SourceSpec => UpdateKeepsSource
  <1>1. ASSUME SourceInv, [SourceNext]_sourceVars, unchanged
        PROVE  \/ storedSource' = storedSource
               \/ /\ storedSource.member = "svn"
                  /\ storedSource' = [storedSource EXCEPT !.ref = NoBranchName]
    <2>. SUFFICES ASSUME SubmitSource
                  PROVE  \/ storedSource' = storedSource
                         \/ /\ storedSource.member = "svn"
                            /\ storedSource' = [storedSource EXCEPT !.ref = NoBranchName]
      BY <1>1, OnlySubmitStores
    <2>1. /\ repo = toRepoModel /\ script = storedSource.script /\ branch = storedBranch
          /\ storedSource # noSource
      BY <1>1 DEF SubmitSource, SourceInv, FormIsStored
    <2>2. SourceStored
      BY <1>1 DEF SourceInv, SourceShape
    <2>3. /\ toRepoModel = "svn" <=> storedSource.member = "svn"
          /\ toRepoModel = "buildin" <=> storedSource.member = "codeRepository"
          /\ toRepoModel = "git" <=> storedSource.member = "git"
      BY <2>2, ModelShape
    <2>4. storedSource' = toRepoResource
      BY DEF SubmitSource
    <2>5. storedSource = [sourceType |-> storedSource.sourceType,
                          member |-> storedSource.member,
                          ref |-> storedSource.ref, script |-> storedSource.script]
      BY <2>2 DEF SourceStored
    <2>6. CASE script # ""
      <3>1. /\ storedSource.sourceType = "" /\ storedSource.member = "none"
            /\ storedSource.ref = NoBranchName
        BY <2>1, <2>2, <2>6 DEF SourceStored
      <3>2. storedSource' = [sourceType |-> "", member |-> "none", ref |-> NoBranchName,
                             script |-> script]
        BY <2>4, <2>6 DEF toRepoResource, noSource
      <3>. QED
        BY <2>1, <2>5, <3>1, <3>2
    <2>7. CASE script = ""
      <3>1. storedSource' = [sourceType |-> IF repo = "svn" THEN "SVN" ELSE "GIT",
                             member |-> IF repo = "buildin" THEN "codeRepository" ELSE repo,
                             ref |-> branch, script |-> ""]
        BY <2>4, <2>7 DEF toRepoResource
      <3>2. storedSource.member # "none"
        <4>1. ASSUME storedSource.member = "none" PROVE FALSE
          BY <2>1, <2>2, <2>5, <2>7, <4>1 DEF SourceStored, noSource
        <4>. QED
          BY <4>1
      <3>3. CASE storedSource.member = "svn"
        <4>1. branch = NoBranchName /\ storedSource.sourceType = "SVN"
          BY <2>1, <2>2, <3>3 DEF storedBranch, SourceStored
        <4>2. storedSource' = [sourceType |-> "SVN", member |-> "svn", ref |-> NoBranchName,
                               script |-> ""]
          BY <2>1, <2>3, <3>1, <3>3, <4>1
        <4>3. storedSource.script = ""
          BY <2>1, <2>7
        <4>4. [storedSource EXCEPT !.ref = NoBranchName] =
                [sourceType |-> storedSource.sourceType, member |-> storedSource.member,
                 ref |-> NoBranchName, script |-> storedSource.script]
          BY <2>5
        <4>. QED
          BY <3>3, <4>1, <4>2, <4>3, <4>4
      <3>4. CASE storedSource.member \in {"git", "codeRepository"}
        <4>1. branch = storedSource.ref /\ storedSource.sourceType = "GIT"
          BY <2>1, <2>2, <3>4 DEF storedBranch, SourceStored
        <4>. QED
          BY <2>1, <2>3, <2>5, <2>7, <3>1, <3>4, <4>1
      <3>. QED
        BY <2>2, <3>2, <3>3, <3>4 DEF SourceStored
    <2>. QED
      BY <2>6, <2>7
  <1>. QED
    BY <1>1, SourceInitEstablishes, SourceNextPreserves, PTL DEF SourceSpec, UpdateKeepsSource
-----------------------------------------------------------------------------
(* The triggers.                                                           *)

TriggerType == {"codeChange", "cron", "imageChange"}

\* What the triggers that were stored look like: one of a type at most, with a rule
\* or a schedule but not both.
TriggersStored ==
  /\ triggers \subseteq [type : TriggerType, enabled : BOOLEAN,
                         rule : Rule, schedule : Schedule]
  /\ \A t, u \in triggers : t.type = u.type => t = u
  /\ \A t \in triggers :
       /\ t.type = "codeChange" =>
            method = "script" /\ t.rule # NoRule /\ t.schedule = noSchedule
       /\ t.type = "cron" /\ method = "multi-branch" => t.schedule = noSchedule
       /\ t.schedule.given => t.rule = NoRule
       /\ ~ t.schedule.given => t.schedule = noSchedule

TriggerShape ==
  /\ method \in {"script", "multi-branch"} /\ mode \in {"none", "create", "update"}
  /\ code \in [enabled : BOOLEAN, rule : Rule]
  /\ cron \in [enabled : BOOLEAN, rule : Rule, object : Schedule,
               sourceType : {"input", "select"}]
  /\ ~ cron.object.given => cron.object = noSchedule
  /\ copying \in BOOLEAN /\ untouched \in BOOLEAN
  /\ TriggersStored

\* An update that changes nothing has in its form what is stored, and is checked.
FormHasTriggers ==
  untouched =>
    /\ mode # "create"
    /\ mode = "update" =>
         /\ code = storedCode /\ checked
         /\ method = "script" => cron = storedCron
         /\ readable

TriggerInv == TriggerShape /\ FormHasTriggers

LEMMA NoScheduleShape == noSchedule \in Schedule
  BY DEF noSchedule, Schedule

LEMMA TriggerInitEstablishes == TriggerInit => TriggerInv
  <1>. SUFFICES ASSUME TriggerInit
                PROVE  TriggerInv
    OBVIOUS
  <1>1. code \in [enabled : BOOLEAN, rule : Rule]
    BY DEF TriggerInit, newCode, Rule
  <1>2. /\ cron \in [enabled : BOOLEAN, rule : Rule, object : Schedule,
                     sourceType : {"input", "select"}]
        /\ cron.object.given
    BY DEF TriggerInit, newCron, Rule, Schedule
  <1>3. TriggersStored
    <2>1. triggers \subseteq {imageChange}
      BY DEF TriggerInit
    <2>2. /\ imageChange \in [type : TriggerType, enabled : BOOLEAN, rule : Rule,
                             schedule : Schedule]
          /\ imageChange.type = "imageChange" /\ imageChange.schedule = noSchedule
      BY NoScheduleShape DEF imageChange, resource, TriggerType, Rule
    <2>3. ~ noSchedule.given
      BY DEF noSchedule
    <2>. QED
      BY <2>1, <2>2, <2>3 DEF TriggersStored
  <1>. QED
    BY <1>1, <1>2, <1>3 DEF TriggerInit, TriggerInv, TriggerShape, FormHasTriggers

\* What is found of a type is the trigger of that type.
LEMMA FoundTrigger ==
  ASSUME TriggersStored, NEW type \in {"codeChange", "cron"}
  PROVE  /\ \A t \in triggers : t.type = type => mapPipelineTrigger(type) = t
         /\ \/ mapPipelineTrigger(type) \in triggers
            \/ mapPipelineTrigger(type) = resource(type, FALSE, NoRule, noSchedule)
         /\ mapPipelineTrigger(type).type = type
         /\ mapPipelineTrigger(type) \in [type : TriggerType, enabled : BOOLEAN,
                                          rule : Rule, schedule : Schedule]
         /\ ~ mapPipelineTrigger(type).schedule.given =>
              mapPipelineTrigger(type).schedule = noSchedule
  <1>. DEFINE found == {t \in triggers : t.type = type}
  <1>1. CASE found = {}
    <2>1. mapPipelineTrigger(type) = resource(type, FALSE, NoRule, noSchedule)
      BY <1>1 DEF mapPipelineTrigger
    <2>2. resource(type, FALSE, NoRule, noSchedule) \in
            [type : TriggerType, enabled : BOOLEAN, rule : Rule,
             schedule : Schedule]
      BY NoScheduleShape DEF resource, Rule, TriggerType
    <2>3. /\ resource(type, FALSE, NoRule, noSchedule).schedule = noSchedule
          /\ resource(type, FALSE, NoRule, noSchedule).type = type
      BY DEF resource
    <2>. QED
      BY <1>1, <2>1, <2>2, <2>3
  <1>2. CASE found # {}
    <2>1. mapPipelineTrigger(type) = CHOOSE t \in found : TRUE
      BY <1>2 DEF mapPipelineTrigger
    <2>2. mapPipelineTrigger(type) \in triggers /\ mapPipelineTrigger(type).type = type
      BY <1>2, <2>1
    <2>. QED
      BY <1>2, <2>2 DEF TriggersStored
  <1>. QED
    BY <1>1, <1>2

LEMMA StoredFormShape ==
  ASSUME TriggersStored
  PROVE  /\ storedCode \in [enabled : BOOLEAN, rule : Rule]
         /\ storedCron \in [enabled : BOOLEAN, rule : Rule, object : Schedule,
                            sourceType : {"input", "select"}]
         /\ ~ storedCron.object.given => storedCron.object = noSchedule
  <1>1. storedCode \in [enabled : BOOLEAN, rule : Rule]
    BY FoundTrigger DEF storedCode
  <1>. DEFINE t == mapPipelineTrigger("cron")
  <1>2. /\ t \in [type : TriggerType, enabled : BOOLEAN, rule : Rule,
                  schedule : Schedule]
        /\ ~ t.schedule.given => t.schedule = noSchedule
    BY FoundTrigger
  <1>3. storedCron = [enabled |-> t.enabled, rule |-> t.rule, object |-> t.schedule,
                      sourceType |-> IF t.schedule.given THEN "select" ELSE "input"]
    BY DEF storedCron
  <1>. HIDE DEF t
  <1>. QED
    BY <1>1, <1>2, <1>3

\* What the form makes of its controls.
LEMMA FromTriggerShape ==
  ASSUME TriggerInv, SubmitTriggers
  PROVE  TriggersStored'
  <1>. DEFINE change == resource("codeChange", code.enabled, code.rule, noSchedule)
              rule == IF cron.sourceType = "input" THEN cron.rule ELSE NoRule
              schedule == IF cron.sourceType = "select" THEN cron.object ELSE noSchedule
              time == resource("cron", cron.enabled, rule, schedule)
              branches == resource("cron", code.enabled, code.rule, noSchedule)
              Stored == [type : TriggerType, enabled : BOOLEAN, rule : Rule,
                         schedule : Schedule]
  <1>1. triggers' = fromTrigger /\ method' = method
    BY DEF SubmitTriggers
  <1>2. /\ code.enabled \in BOOLEAN /\ code.rule \in Rule
        /\ cron.enabled \in BOOLEAN /\ rule \in Rule /\ schedule \in Schedule
        /\ ~ schedule.given => schedule = noSchedule
        /\ schedule.given => rule = NoRule
    BY NoScheduleShape DEF TriggerInv, TriggerShape, Rule, noSchedule
  <1>3. /\ change \in Stored /\ time \in Stored /\ branches \in Stored
        /\ change.type = "codeChange" /\ change.rule = code.rule
        /\ change.schedule = noSchedule
        /\ time.type = "cron" /\ time.rule = rule /\ time.schedule = schedule
        /\ branches.type = "cron" /\ branches.schedule = noSchedule
    BY <1>2, NoScheduleShape DEF resource, TriggerType
  <1>4. ~ noSchedule.given
    BY DEF noSchedule
  <1>5. CASE method = "multi-branch"
    <2>1. triggers' = {branches}
      BY <1>1, <1>5 DEF fromTrigger
    <2>. HIDE DEF change, time, branches, Stored, rule, schedule
    <2>. QED
      BY <1>1, <1>3, <1>4, <1>5, <2>1 DEF TriggersStored, Stored
  <1>6. CASE method = "script"
    <2>1. \A t \in triggers' : (t = change /\ code.rule # NoRule) \/ t = time
      BY <1>1, <1>6 DEF fromTrigger
    <2>. HIDE DEF change, time, branches, Stored, rule, schedule
    <2>2. triggers' \subseteq Stored /\ \A t, u \in triggers' : t.type = u.type => t = u
      BY <1>3, <2>1
    <2>3. \A t \in triggers' :
            /\ t.type = "codeChange" => t.rule # NoRule /\ t.schedule = noSchedule
            /\ t.schedule.given => t.rule = NoRule
            /\ ~ t.schedule.given => t.schedule = noSchedule
      BY <1>2, <1>3, <1>4, <2>1
    <2>. QED
      BY <1>1, <1>6, <2>2, <2>3 DEF TriggersStored, Stored
  <1>. QED
    BY <1>5, <1>6 DEF TriggerInv, TriggerShape

\* One case per action.
LEMMA TriggerNextPreserves == TriggerInv /\ [TriggerNext]_triggerVars => TriggerInv'
  <1>. SUFFICES ASSUME TriggerInv, [TriggerNext]_triggerVars
                PROVE  TriggerInv'
    OBVIOUS
  <1>. DEFINE Cron == [enabled : BOOLEAN, rule : Rule, object : Schedule,
                       sourceType : {"input", "select"}]
  <1>1. /\ copying \in BOOLEAN /\ cron \in Cron /\ code \in [enabled : BOOLEAN, rule : Rule]
        /\ (~ cron.object.given => cron.object = noSchedule)
        /\ method \in {"script", "multi-branch"} /\ mode \in {"none", "create", "update"}
        /\ TriggersStored
    BY DEF TriggerInv, TriggerShape
  <1>2. ASSUME UNCHANGED <<method, triggers>>
        PROVE  TriggersStored' /\ storedCode' = storedCode /\ storedCron' = storedCron
    BY <1>1, <1>2 DEF TriggersStored, storedCode, storedCron, mapPipelineTrigger
  <1>3. /\ newCode \in [enabled : BOOLEAN, rule : Rule]
        /\ newCron \in Cron /\ newCron.object.given
    BY DEF newCode, newCron, Rule, Schedule
  <1>4. CASE Create \/ Copy
    <2>1. /\ UNCHANGED <<method, triggers>> /\ untouched' = FALSE /\ mode' = "create"
          /\ code' = newCode /\ cron' = newCron /\ copying' \in BOOLEAN
      BY <1>4 DEF Create, Copy
    <2>. QED
      BY <1>1, <1>2, <1>3, <2>1 DEF TriggerInv, TriggerShape, FormHasTriggers
  <1>5. CASE Update
    <2>1. /\ UNCHANGED <<method, triggers>> /\ untouched' = TRUE /\ copying' = FALSE
          /\ mode' = "update" /\ checked' = TRUE /\ readable
          /\ code' = storedCode
          /\ cron' = IF method = "multi-branch" THEN newCron ELSE storedCron
      BY <1>5 DEF Update
    <2>2. /\ code' \in [enabled : BOOLEAN, rule : Rule] /\ cron' \in Cron
          /\ ~ cron'.object.given => cron'.object = noSchedule
      BY <1>1, <1>3, <2>1, StoredFormShape
    <2>3. TriggerShape'
      BY <1>1, <1>2, <2>1, <2>2 DEF TriggerShape
    <2>4. FormHasTriggers'
      BY <1>1, <1>2, <2>1 DEF FormHasTriggers, readable
    <2>. QED
      BY <2>3, <2>4 DEF TriggerInv
  <1>14. CASE CopyRead
    <2>1. /\ UNCHANGED <<method, triggers, mode, checked, untouched>> /\ copying' = FALSE
          /\ code' = storedCode
          /\ cron' = IF method = "multi-branch" THEN cron ELSE storedCron
      BY <1>14 DEF CopyRead, validators
    <2>2. /\ code' \in [enabled : BOOLEAN, rule : Rule] /\ cron' \in Cron
          /\ ~ cron'.object.given => cron'.object = noSchedule
      BY <1>1, <2>1, StoredFormShape
    <2>3. TriggerShape'
      BY <1>1, <1>2, <2>1, <2>2 DEF TriggerInv, TriggerShape
    <2>4. FormHasTriggers'
      BY <1>1, <1>2, <2>1 DEF TriggerInv, FormHasTriggers, readable
    <2>. QED
      BY <2>3, <2>4 DEF TriggerInv
  <1>15. CASE CopyFails
    BY <1>1, <1>2, <1>15
       DEF CopyFails, validators, TriggerInv, TriggerShape, FormHasTriggers, readable
  <1>6. ASSUME UNCHANGED <<method, mode, triggers>>, untouched' = FALSE, copying' \in BOOLEAN,
               code' \in [enabled : BOOLEAN, rule : Rule], cron' \in Cron,
               ~ cron'.object.given => cron'.object = noSchedule
        PROVE  TriggerInv'
    BY <1>1, <1>2, <1>6 DEF TriggerInv, TriggerShape, FormHasTriggers
  <1>7. CASE \E enabled \in BOOLEAN, rule \in Rule :
               SetCode([enabled |-> enabled, rule |-> rule])
    <2>1. PICK trigger \in [enabled : BOOLEAN, rule : Rule] : SetCode(trigger)
      BY <1>7
    <2>2. /\ UNCHANGED <<method, mode, triggers, cron>> /\ untouched' = FALSE /\ copying' = copying
          /\ code' \in [enabled : BOOLEAN, rule : Rule]
      BY <2>1 DEF SetCode
    <2>. QED
      BY <1>1, <1>6, <2>2
  <1>8. CASE EnableCron
    BY <1>1, <1>6, <1>8 DEF EnableCron
  <1>9. CASE \E rule \in Rule : SetRule(rule)
    BY <1>1, <1>6, <1>9 DEF SetRule
  <1>10. CASE \E schedule \in Schedule : SetSchedule(schedule)
    BY <1>1, <1>6, <1>10 DEF SetSchedule
  <1>11. CASE inputTypeChange
    BY <1>1, <1>6, <1>11 DEF inputTypeChange
  <1>12. CASE SubmitTriggers
    <2>1. /\ UNCHANGED <<method, code, cron, untouched>> /\ mode' = "none" /\ copying' = FALSE
      BY <1>12 DEF SubmitTriggers
    <2>2. TriggersStored'
      BY <1>12, FromTriggerShape
    <2>. QED
      BY <2>1, <2>2 DEF TriggerInv, TriggerShape, FormHasTriggers
  <1>13. CASE UNCHANGED triggerVars
    BY <1>1, <1>2, <1>13
       DEF triggerVars, validators, TriggerInv, TriggerShape, FormHasTriggers, readable
  <1>. QED
    BY <1>4, <1>5, <1>7, <1>8, <1>9, <1>10, <1>11, <1>12, <1>13, <1>14, <1>15 DEF TriggerNext

\* Only sending the form stores something and closes it.
LEMMA OnlySubmitCloses ==
  ASSUME TriggerInv, [TriggerNext]_triggerVars,
         triggers' # triggers \/ (mode # "none" /\ mode' = "none")
  PROVE  SubmitTriggers
  BY DEF TriggerNext, triggerVars, Create, Update, Copy, CopyRead, CopyFails, SetCode,
         EnableCron, SetRule, SetSchedule, inputTypeChange

\* For any number of changes of the form: what is enabled when it is sent is stored,
\* with a rule or with days and times, unless the validator for these was lost
\* (forms/triggers/cron-trigger-form.component.ts, api/pipeline/utils.ts).
THEOREM EnabledIsStoredAlways == TriggerSpec => EnabledIsStored
  <1>1. ASSUME TriggerInv, [TriggerNext]_triggerVars, mode # "none", mode' = "none"
        PROVE  /\ code.enabled => \E t \in triggers' : t.enabled /\ t.rule = code.rule
               /\ cron.enabled /\ method = "script" =>
                    \/ cron.sourceType = "select" /\ ~ checked
                    \/ \E t \in triggers' :
                         /\ t.type = "cron" /\ t.enabled
                         /\ t.rule # NoRule \/ (t.schedule.days /\ t.schedule.times)
    <2>1. SubmitTriggers
      BY <1>1, OnlySubmitCloses
    <2>2. triggers' = fromTrigger /\ codeValid /\ (method = "script" => cronValid)
      BY <2>1 DEF SubmitTriggers
    <2>3. /\ method \in {"script", "multi-branch"}
          /\ cron.sourceType \in {"input", "select"}
      BY <1>1 DEF TriggerInv, TriggerShape
    <2>4. ASSUME code.enabled
          PROVE  \E t \in triggers' : t.enabled /\ t.rule = code.rule
      <3>1. code.rule # NoRule
        BY <2>2, <2>4 DEF codeValid
      <3>2. CASE method = "multi-branch"
        <4>1. resource("cron", code.enabled, code.rule, noSchedule) \in triggers'
          BY <2>2, <3>2 DEF fromTrigger
        <4>. QED
          BY <2>4, <4>1 DEF resource
      <3>3. CASE method = "script"
        <4>1. resource("codeChange", code.enabled, code.rule, noSchedule) \in triggers'
          BY <2>2, <3>1, <3>3 DEF fromTrigger
        <4>. QED
          BY <2>4, <4>1 DEF resource
      <3>. QED
        BY <2>3, <3>2, <3>3
    <2>5. ASSUME cron.enabled, method = "script", ~ (cron.sourceType = "select" /\ ~ checked)
          PROVE  \E t \in triggers' :
                   /\ t.type = "cron" /\ t.enabled
                   /\ t.rule # NoRule \/ (t.schedule.days /\ t.schedule.times)
      <3>1. IF cron.sourceType = "input" THEN cron.rule # NoRule
            ELSE cron.object.days /\ cron.object.times
        BY <2>2, <2>3, <2>5 DEF cronValid
      <3>. DEFINE t == resource("cron", cron.enabled,
                                IF cron.sourceType = "input" THEN cron.rule ELSE NoRule,
                                IF cron.sourceType = "select" THEN cron.object
                                ELSE noSchedule)
      <3>2. t \in triggers'
        BY <2>2, <2>3, <2>5, <3>1 DEF fromTrigger
      <3>3. /\ t.type = "cron" /\ t.enabled
            /\ t.rule # NoRule \/ (t.schedule.days /\ t.schedule.times)
        BY <2>3, <2>5, <3>1 DEF resource
      <3>. QED
        BY <3>2, <3>3
    <2>. QED
      BY <2>4, <2>5
  <1>. QED
    BY <1>1, TriggerInitEstablishes, TriggerNextPreserves, PTL
       DEF TriggerSpec, EnabledIsStored

\* The conversions agree: an update that changes nothing keeps every trigger for a
\* change of the code or a time (api/pipeline/utils.ts).
THEOREM UpdateKeepsTriggersAlways == TriggerSpec => UpdateKeepsTriggers
  <1>1. ASSUME TriggerInv, [TriggerNext]_triggerVars, untouched
        PROVE  meant(triggers') = meant(triggers)
    <2>. SUFFICES ASSUME SubmitTriggers
                  PROVE  meant(triggers') = meant(triggers)
      BY <1>1, OnlySubmitCloses
    <2>. DEFINE Stored == [type : TriggerType, enabled : BOOLEAN, rule : Rule,
                           schedule : Schedule]
    <2>1. /\ mode = "update" /\ code = storedCode /\ checked
          /\ method = "script" => cron = storedCron
          /\ readable
          /\ method \in {"script", "multi-branch"} /\ TriggersStored
      BY <1>1 DEF SubmitTriggers, TriggerInv, TriggerShape, FormHasTriggers
    <2>2. triggers' = fromTrigger /\ (method = "script" => cronValid)
      BY DEF SubmitTriggers
    <2>3. \A t \in Stored : t = resource(t.type, t.enabled, t.rule, t.schedule)
      BY DEF resource
    <2>4. triggers \subseteq Stored
      BY <2>1 DEF TriggersStored
    <2>5. CASE method = "multi-branch"
      <3>1. PICK t \in triggers : t.type = "cron"
        BY <2>1, <2>5 DEF readable
      <3>2. /\ t.type = "cron" /\ t.schedule = noSchedule
            /\ \A u \in triggers : u.type \in {"codeChange", "cron"} => u = t
        BY <2>1, <2>4, <2>5, <3>1 DEF TriggersStored
      <3>3. mapPipelineTrigger("cron") = t
        BY <2>1, <3>2, FoundTrigger
      <3>4. code.enabled = t.enabled /\ code.rule = t.rule
        BY <2>1, <2>5, <3>3 DEF storedCode
      <3>5. triggers' = {resource("cron", code.enabled, code.rule, noSchedule)}
        BY <2>2, <2>5 DEF fromTrigger
      <3>6. triggers' = {t}
        BY <2>3, <2>4, <3>2, <3>4, <3>5
      <3>7. ASSUME NEW u
            PROVE  u \in meant(triggers') <=> u \in meant(triggers)
        BY <3>1, <3>2, <3>6 DEF meant
      <3>. QED
        BY <3>7 DEF meant
    <2>6. CASE method = "script"
      <3>. DEFINE c == mapPipelineTrigger("codeChange")
                  k == mapPipelineTrigger("cron")
      <3>1. /\ c \in Stored /\ c.type = "codeChange" /\ c.schedule = noSchedule
            /\ c \notin triggers => c.rule = NoRule
        BY <2>1, <2>3, FoundTrigger DEF TriggersStored, resource
      <3>2. /\ k \in Stored /\ k.type = "cron"
            /\ ~ k.schedule.given => k.schedule = noSchedule
            /\ k.schedule.given => k.rule = NoRule
            /\ k \notin triggers => k.rule = NoRule /\ k.schedule = noSchedule
        BY <2>1, <2>3, FoundTrigger DEF TriggersStored, resource
      <3>3. \A t \in triggers : t.type \in {"codeChange", "cron"} => t = c \/ t = k
        BY <2>1, <2>4, FoundTrigger
      <3>4. code = [enabled |-> c.enabled, rule |-> c.rule]
        BY <2>1, <2>6 DEF storedCode
      <3>5. cron = [enabled |-> k.enabled, rule |-> k.rule, object |-> k.schedule,
                    sourceType |-> IF k.schedule.given THEN "select" ELSE "input"]
        BY <2>1, <2>6 DEF storedCron
      <3>. HIDE DEF c, k
      <3>6. resource("codeChange", code.enabled, code.rule, noSchedule) = c
        BY <2>3, <3>1, <3>4
      <3>7. resource("cron", cron.enabled,
                     IF cron.sourceType = "input" THEN cron.rule ELSE NoRule,
                     IF cron.sourceType = "select" THEN cron.object ELSE noSchedule) = k
        BY <2>3, <3>2, <3>5
      <3>8. triggers' = {r \in {c} : c.rule # NoRule}
                          \cup {r \in {k} : k.rule # NoRule \/ k.schedule.times}
        <4>1. triggers' = {r \in {c} : code.rule # NoRule}
                            \cup {r \in {k} : cron.rule # NoRule \/ cron.object.times}
          BY <2>2, <2>6, <3>6, <3>7 DEF fromTrigger
        <4>. QED
          BY <3>4, <3>5, <4>1
      <3>9. k.enabled => k.rule # NoRule \/ k.schedule.times
        BY <2>1, <2>2, <2>6, <3>5 DEF cronValid
      <3>10. c \in triggers => c.rule # NoRule
        BY <2>1, <3>1 DEF TriggersStored
      <3>11. k \notin triggers => ~ k.schedule.times
        BY <3>2 DEF noSchedule
      <3>12. ASSUME NEW t
             PROVE  t \in meant(triggers') <=> t \in meant(triggers)
        <4>1. t \in meant(triggers') <=>
                \/ t = c /\ c.rule # NoRule
                \/ t = k /\ (k.rule # NoRule \/ k.schedule.times)
          BY <3>1, <3>2, <3>8 DEF meant
        <4>2. t \in meant(triggers) <=>
                \/ t = c /\ c \in triggers
                \/ t = k /\ k \in triggers /\ (k.rule # NoRule \/ k.schedule.times)
          BY <3>1, <3>2, <3>3, <3>9, <3>10 DEF meant
        <4>. QED
          BY <3>1, <3>2, <3>10, <3>11, <4>1, <4>2
      <3>. QED
        BY <3>12 DEF meant
    <2>. QED
      BY <2>1, <2>5, <2>6
  <1>. QED
    BY <1>1, TriggerInitEstablishes, TriggerNextPreserves, PTL
       DEF TriggerSpec, UpdateKeepsTriggers

-----------------------------------------------------------------------------
(* The components of an application.                                       *)

Name == ComponentName \cup {NoComponent}
Components == Seq(Name)

FormShape ==
  /\ isEdit \in BOOLEAN /\ isMulti \in BOOLEAN /\ isManagerComponent \in BOOLEAN
  /\ isContinueToAdd \in BOOLEAN /\ submitting \in BOOLEAN /\ choosing \in BOOLEAN
  /\ twice \in BOOLEAN /\ saved \in BOOLEAN
  /\ componentList \in Components /\ componentListBuffer \in Components
  /\ model \in Name

\* Images are chosen over the list; there is a list only of several components,
\* and it is not empty.
ListShown ==
  /\ choosing => isManagerComponent
  /\ isManagerComponent => isMulti
  /\ isManagerComponent /\ ~ twice => componentList # <<>>

\* What is in the list before there are several is the component of the form.
ModelAlone == ~ isMulti => \A i \in DOMAIN componentList : componentList[i] = model

\* While the form is shown, cancelling finds the list as it was.
CopyIsList ==
  isMulti /\ ~ isManagerComponent =>
    /\ componentListBuffer = listed
    /\ ~ twice => componentListBuffer # <<>> /\ IsInjective(componentListBuffer)

ApplicationInv == FormShape /\ ListShown /\ NamesDistinct /\ ModelAlone /\ CopyIsList

\* What is left of the list when a name goes: the others, in their order.
LEMMA OthersLeft ==
  ASSUME componentList \in Components, NEW name
  PROVE  /\ others(name) \in Components
         /\ ToSet(others(name)) = ToSet(componentList) \ {name}
         /\ IsInjective(componentList) => IsInjective(others(name))
  <1>. DEFINE s == componentList
              L == Len(s)
              step == [p \in Components \X Nat |->
                         IF p[2] \in 1 .. L /\ s[p[2]] # name THEN Append(p[1], s[p[2]]) ELSE p[1]]
              F(f) == [n \in 0 .. L |->
                         IF n = 0 THEN <<>>
                         ELSE IF s[n] = name THEN f[n - 1] ELSE Append(f[n - 1], s[n])]
              c == CHOOSE f : f = F(f)
  <1>1. L \in Nat /\ DOMAIN s = 1 .. L /\ <<>> \in Components /\ \A n \in 1 .. L : s[n] \in Name
    BY DEF Components
  <1>2. \A t \in Components, n \in 1 .. L : Append(t, s[n]) \in Components
    BY <1>1 DEF Components
  <1>3. step \in [Components \X Nat -> Components]
    <2>. HIDE DEF s, L
    <2>. QED
      BY <1>2
  <1>4. PICK g : Recursive(g, L, Components, <<>>, step)
    <2>. HIDE DEF step, L
    <2>. QED
      BY <1>1, <1>3, RecursionExists
  <1>5. g \in [0 .. L -> Components] /\ g[0] = <<>> /\ \A n \in 1 .. L : g[n] = step[<<g[n - 1], n>>]
    BY <1>4 DEF Recursive
  <1>6. ASSUME NEW n \in 1 .. L
        PROVE  g[n] = IF s[n] = name THEN g[n - 1] ELSE Append(g[n - 1], s[n])
    <2>1. <<g[n - 1], n>> \in Components \X Nat
      BY <1>1, <1>5
    <2>. HIDE DEF s, L
    <2>2. step[<<g[n - 1], n>>] = IF s[n] = name THEN g[n - 1] ELSE Append(g[n - 1], s[n])
      BY <2>1
    <2>. QED
      BY <1>5, <2>2
  <1>7. g = F(g)
    <2>1. \A n \in 0 .. L : g[n] = IF n = 0 THEN <<>>
                                   ELSE IF s[n] = name THEN g[n - 1] ELSE Append(g[n - 1], s[n])
      <3>. HIDE DEF s, L
      <3>1. \A n \in 0 .. L : n = 0 \/ n \in 1 .. L
        BY <1>1
      <3>. QED
        BY <1>5, <1>6, <3>1
    <2>. QED
      BY <1>5, <2>1
  <1>8. c = F(c)
    <2>. HIDE DEF F
    <2>. QED
      BY <1>7
  <1>9. others(name) = c[L]
    BY DEF others
  <1>10. /\ c[0] = <<>>
         /\ \A n \in 1 .. L : c[n] = IF s[n] = name THEN c[n - 1] ELSE Append(c[n - 1], s[n])
    <2>. HIDE DEF c, s, L
    <2>1. 0 \in 0 .. L /\ \A n \in 1 .. L : n \in 0 .. L /\ n # 0
      BY <1>1
    <2>. QED
      BY <1>8, <2>1
  <1>. HIDE DEF c, s, L, step, F
  <1>. DEFINE Taken(n) == {s[j] : j \in 1 .. n} \ {name}
              Rest(n) == /\ c[n] \in Components
                         /\ ToSet(c[n]) = Taken(n)
                         /\ IsInjective(s) => IsInjective(c[n])
              T == {n \in Nat : n <= L => Rest(n)}
  <1>11. 0 \in T
    <2>1. Rest(0)
      BY <1>1, <1>10 DEF ToSet, IsInjective
    <2>. QED
      BY <2>1
  <1>12. ASSUME NEW n \in T
         PROVE  n + 1 \in T
    <2>1. n \in Nat /\ (n <= L => Rest(n))
      OBVIOUS
    <2>2. CASE n + 1 <= L
      <3>1. PICK m \in 1 .. L : m = n + 1 /\ m - 1 = n
        BY <1>1, <2>1, <2>2
      <3>2. Rest(n)
        BY <1>1, <2>1, <2>2
      <3>3. \A j : j \in 1 .. m <=> j \in 1 .. n \/ j = m
        BY <2>1, <3>1
      <3>4. {s[j] : j \in 1 .. m} = {s[j] : j \in 1 .. n} \cup {s[m]}
        BY <3>3
      <3>5. CASE s[m] = name
        <4>1. c[m] = c[n]
          BY <1>10, <3>1, <3>5
        <4>2. Taken(m) = Taken(n)
          BY <3>4, <3>5
        <4>. QED
          BY <2>1, <3>1, <3>2, <4>1, <4>2
      <3>6. CASE s[m] # name
        <4>. DEFINE t == c[n]
                    d == Append(t, s[m])
        <4>1. c[m] = d
          BY <1>10, <3>1, <3>6
        <4>2. Taken(m) = Taken(n) \cup {s[m]}
          BY <3>4, <3>6
        <4>3. t \in Components /\ s[m] \in Name
          BY <1>1, <3>2
        <4>4. d \in Components /\ ToSet(d) = ToSet(t) \cup {s[m]}
          <5>. HIDE DEF t
          <5>1. /\ d \in Components /\ Len(t) \in Nat /\ Len(d) = Len(t) + 1
                /\ DOMAIN t = 1 .. Len(t) /\ DOMAIN d = 1 .. Len(t) + 1
                /\ \A j \in 1 .. Len(t) : d[j] = t[j]
                /\ d[Len(t) + 1] = s[m]
            BY <4>3 DEF Components
          <5>2. \A j : j \in DOMAIN d <=> j \in DOMAIN t \/ j = Len(t) + 1
            BY <5>1
          <5>. HIDE DEF d
          <5>. QED
            BY <5>1, <5>2 DEF ToSet
        <4>5. ASSUME IsInjective(s)
              PROVE  IsInjective(d)
          <5>1. s[m] \notin ToSet(t)
            <6>1. \A j \in 1 .. n : j \in DOMAIN s /\ m \in DOMAIN s /\ j # m
              BY <1>1, <2>1, <3>1
            <6>2. s[m] \notin {s[j] : j \in 1 .. n}
              BY <4>5, <6>1 DEF IsInjective
            <6>. QED
              BY <3>2, <6>2
          <5>2. IsInjective(t)
            BY <3>2, <4>5
          <5>. HIDE DEF t
          <5>3. /\ Len(t) \in Nat
                /\ DOMAIN t = 1 .. Len(t) /\ DOMAIN d = 1 .. Len(t) + 1
                /\ \A j \in 1 .. Len(t) : d[j] = t[j]
                /\ d[Len(t) + 1] = s[m]
            BY <4>3 DEF Components
          <5>4. \A j \in 1 .. Len(t) : t[j] # s[m]
            BY <5>1, <5>3 DEF ToSet
          <5>. HIDE DEF d
          <5>. QED
            BY <5>2, <5>3, <5>4 DEF IsInjective
        <4>6. Rest(m)
          BY <3>2, <4>1, <4>2, <4>4, <4>5
        <4>. HIDE DEF Rest
        <4>. QED
          BY <2>1, <3>1, <4>6
      <3>. QED
        BY <3>5, <3>6
    <2>. QED
      BY <1>1, <2>1, <2>2
  <1>13. T = Nat
    <2>. HIDE DEF T
    <2>1. T \in SUBSET Nat
      BY DEF T
    <2>. QED
      BY <1>11, <1>12, <2>1, SetInduction
  <1>14. Rest(L)
    <2>. HIDE DEF Rest
    <2>1. L \in T
      BY <1>1, <1>13
    <2>. QED
      BY <1>1, <2>1
  <1>15. IsInjective(componentList) <=> IsInjective(s)
    BY DEF s
  <1>16. Taken(L) = ToSet(componentList) \ {name}
    BY <1>1 DEF ToSet, s
  <1>. QED
    BY <1>9, <1>14, <1>15, <1>16

\* A new name at the end of the list, and the list without its end.
LEMMA AppendedComponent ==
  ASSUME NEW list \in Components, NEW name \in Name
  PROVE  /\ Append(list, name) \in Components
         /\ Append(list, name) # <<>>
         /\ name \notin ToSet(list) /\ IsInjective(list) => IsInjective(Append(list, name))
  <1>. DEFINE d == Append(list, name)
  <1>1. /\ d \in Components /\ d # <<>> /\ Len(list) \in Nat
        /\ DOMAIN list = 1 .. Len(list) /\ DOMAIN d = 1 .. Len(list) + 1
        /\ \A j \in 1 .. Len(list) : d[j] = list[j]
        /\ d[Len(list) + 1] = name
    BY DEF Components
  <1>2. name \notin ToSet(list) => \A j \in 1 .. Len(list) : list[j] # name
    BY <1>1 DEF ToSet
  <1>. HIDE DEF d
  <1>3. name \notin ToSet(list) /\ IsInjective(list) => IsInjective(d)
    BY <1>1, <1>2 DEF IsInjective
  <1>. QED
    BY <1>1, <1>3 DEF d

LEMMA PoppedComponent ==
  ASSUME NEW list \in Components
  PROVE  /\ Front(list) \in Components
         /\ IsInjective(list) => IsInjective(Front(list))
         /\ \A j \in DOMAIN Front(list) : j \in DOMAIN list /\ Front(list)[j] = list[j]
  <1>1. /\ list \in Seq(Name) /\ Len(list) \in Nat /\ DOMAIN list = 1 .. Len(list)
        /\ Front(list) = SubSeq(list, 1, Len(list) - 1)
    BY DEF Components, Front
  <1>2. /\ Front(list) \in Seq(Name)
        /\ \A j \in DOMAIN Front(list) : j \in DOMAIN list /\ Front(list)[j] = list[j]
    BY <1>1
  <1>. QED
    BY <1>2 DEF Components, IsInjective

LEMMA FormInitEstablishes == FormInit => ApplicationInv
  <1>. SUFFICES ASSUME FormInit
                PROVE  ApplicationInv
    OBVIOUS
  <1>1. PICK names \in SeqOf(ComponentName, 2) :
          /\ names # <<>> /\ IsInjective(names)
          /\ isMulti = (Len(names) > 1)
          /\ componentList = IF Len(names) > 1 THEN names ELSE <<>>
          /\ model = IF Len(names) > 1 THEN NoComponent ELSE names[1]
    BY DEF FormInit
  <1>2. names \in Components
    <2>1. PICK m \in 0 .. 2 : names \in [1 .. m -> ComponentName]
      BY <1>1 DEF SeqOf
    <2>. QED
      BY <2>1 DEF Components, Name
  <1>3. ~ (Len(names) > 1) => names[1] \in Name
    BY <1>1, <1>2 DEF Components
  <1>4. <<>> \in Components /\ IsInjective(<<>>)
    BY DEF Components, IsInjective
  <1>5. FormShape
    <2>1. componentList \in Components /\ componentListBuffer \in Components
      BY <1>1, <1>2, <1>4 DEF FormInit
    <2>2. model \in Name
      BY <1>1, <1>3 DEF Name
    <2>3. isMulti \in BOOLEAN /\ isManagerComponent \in BOOLEAN
      <3>. DEFINE many == Len(names) > 1
      <3>1. isMulti = many /\ isManagerComponent = isMulti
        BY <1>1 DEF FormInit
      <3>2. many \in BOOLEAN
        BY <1>2 DEF Components
      <3>. HIDE DEF many
      <3>. QED
        BY <3>1, <3>2
    <2>. QED
      BY <2>1, <2>2, <2>3 DEF FormInit, FormShape
  <1>6. ListShown
    BY <1>1 DEF FormInit, ListShown
  <1>7. NamesDistinct
    BY <1>1, <1>4 DEF NamesDistinct
  <1>8. CopyIsList
    BY DEF FormInit, CopyIsList
  <1>9. ModelAlone
    <2>1. ~ isMulti => componentList = <<>>
      BY <1>1
    <2>2. DOMAIN <<>> = {}
      OBVIOUS
    <2>. QED
      BY <2>1, <2>2 DEF ModelAlone
  <1>. QED
    BY <1>5, <1>6, <1>7, <1>8, <1>9 DEF ApplicationInv

\* The list is shown, with a component of a name that was not in it.
LEMMA AddKeeps ==
  ASSUME ApplicationInv, addComponentAction, checkFormValid,
         choosing' \in BOOLEAN, twice' \in BOOLEAN,
         twice' \/ (~ twice /\ ~ checkDuplicateComponentName),
         UNCHANGED <<isEdit, isContinueToAdd, submitting, saved>>
  PROVE  ApplicationInv'
  <1>1. componentList \in Components /\ model \in Name
    BY DEF ApplicationInv, FormShape
  <1>2. /\ componentList' = Append(componentList, model)
        /\ isManagerComponent' /\ isMulti' /\ isManagerComponent' = TRUE /\ isMulti' = TRUE
        /\ UNCHANGED <<componentListBuffer, model>>
    BY DEF addComponentAction
  <1>3. /\ componentList' \in Components /\ componentList' # <<>>
        /\ ~ checkDuplicateComponentName /\ IsInjective(componentList) => IsInjective(componentList')
    BY <1>1, <1>2, AppendedComponent DEF checkDuplicateComponentName
  <1>4. FormShape'
    BY <1>2, <1>3 DEF ApplicationInv, FormShape
  <1>5. ListShown' /\ ModelAlone' /\ CopyIsList'
    BY <1>2, <1>3 DEF ListShown, ModelAlone, CopyIsList
  <1>6. NamesDistinct'
    BY <1>3 DEF ApplicationInv, NamesDistinct
  <1>. QED
    BY <1>4, <1>5, <1>6 DEF ApplicationInv

\* The form is shown, with a copy of the list as it was.
LEMMA CopyKeeps ==
  ASSUME ApplicationInv, isManagerComponent,
         ~ isManagerComponent', isManagerComponent' \in BOOLEAN,
         componentListBuffer' = componentList, listed' = componentList,
         componentList' \in Components,
         IsInjective(componentList) => IsInjective(componentList'),
         model' \in Name, choosing' = FALSE,
         UNCHANGED <<isEdit, isMulti, isContinueToAdd, submitting, twice, saved>>
  PROVE  ApplicationInv'
  <1>1. FormShape'
    BY DEF ApplicationInv, FormShape
  <1>2. ListShown'
    BY DEF ListShown
  <1>3. NamesDistinct'
    BY DEF ApplicationInv, NamesDistinct
  <1>4. ModelAlone' /\ CopyIsList'
    BY DEF ApplicationInv, NamesDistinct, ListShown, ModelAlone, CopyIsList
  <1>. QED
    BY <1>1, <1>2, <1>3, <1>4 DEF ApplicationInv

LEMMA DeletePreserves ==
  ASSUME ApplicationInv, NEW name \in ComponentName, deleteComponent(name)
  PROVE  ApplicationInv'
  <1>1. /\ componentList \in Components /\ Len(componentList) > 1
        /\ componentList' = others(name)
        /\ UNCHANGED <<isEdit, componentListBuffer, model, isMulti, isManagerComponent,
                       isContinueToAdd, submitting, choosing, twice, saved>>
        /\ isManagerComponent
    BY DEF ApplicationInv, FormShape, deleteComponent, inList, flags
  <1>2. /\ componentList' \in Components
        /\ ToSet(componentList') = ToSet(componentList) \ {name}
        /\ IsInjective(componentList) => IsInjective(componentList')
    BY <1>1, OthersLeft
  <1>3. FormShape'
    BY <1>1, <1>2 DEF ApplicationInv, FormShape
  <1>4. ~ twice => componentList' # <<>>
    <2>. SUFFICES ASSUME ~ twice
                  PROVE  componentList' # <<>>
      OBVIOUS
    <2>1. IsInjective(componentList)
      BY DEF ApplicationInv, NamesDistinct
    <2>2. /\ 1 \in DOMAIN componentList /\ 2 \in DOMAIN componentList
      BY <1>1 DEF Components
    <2>3. componentList[1] # componentList[2]
      BY <2>1, <2>2 DEF IsInjective
    <2>4. ToSet(componentList) \ {name} # {}
      BY <2>2, <2>3 DEF ToSet
    <2>5. ToSet(<<>>) = {}
      BY DEF ToSet
    <2>. QED
      BY <1>2, <2>4, <2>5
  <1>5. ListShown'
    BY <1>1, <1>4 DEF ApplicationInv, ListShown
  <1>6. NamesDistinct' /\ ModelAlone' /\ CopyIsList'
    BY <1>1, <1>2 DEF ApplicationInv, ListShown, NamesDistinct, ModelAlone, CopyIsList
  <1>. QED
    BY <1>3, <1>5, <1>6 DEF ApplicationInv

\* One component alone is put behind the list, or taken off it again.
LEMMA AlonePreserves ==
  ASSUME ApplicationInv, ~ isMulti, componentList' \in Components,
         twice' \in BOOLEAN, submitting' \in BOOLEAN,
         ~ twice' => ~ twice /\ IsInjective(componentList'),
         \A i \in DOMAIN componentList' : componentList'[i] = model',
         model' \in Name,
         UNCHANGED <<isEdit, componentListBuffer, flags, choosing, saved>>
  PROVE  ApplicationInv'
  <1>1. FormShape'
    BY DEF ApplicationInv, FormShape, flags
  <1>2. ListShown'
    BY DEF ApplicationInv, ListShown, flags
  <1>3. NamesDistinct' /\ ModelAlone' /\ CopyIsList'
    BY DEF NamesDistinct, ModelAlone, CopyIsList, flags
  <1>. QED
    BY <1>1, <1>2, <1>3 DEF ApplicationInv

\* Nothing of the list changes.
LEMMA ListStays ==
  ASSUME ApplicationInv, UNCHANGED <<lists, isMulti, isManagerComponent, isEdit, twice>>,
         model' \in Name, isMulti \/ model' = model, isManagerComponent \/ listed' = listed,
         isContinueToAdd' \in BOOLEAN, submitting' \in BOOLEAN,
         choosing' \in BOOLEAN, choosing' => isManagerComponent, saved' \in BOOLEAN
  PROVE  ApplicationInv'
  <1>1. FormShape'
    BY DEF ApplicationInv, FormShape, lists
  <1>2. ListShown'
    BY DEF ApplicationInv, ListShown, lists
  <1>3. NamesDistinct' /\ ModelAlone' /\ CopyIsList'
    BY DEF ApplicationInv, NamesDistinct, ModelAlone, CopyIsList, lists
  <1>. QED
    BY <1>1, <1>2, <1>3 DEF ApplicationInv

\* The one component that was sent alone changes its name with the form.
LEMMA TypePreserves ==
  ASSUME ApplicationInv, NEW name \in Name, Type(name),
         isManagerComponent \/ listed' = listed
  PROVE  ApplicationInv'
  <1>1. /\ FormShape /\ ListShown /\ NamesDistinct /\ ModelAlone
        /\ model' = name /\ ~ choosing /\ ~ isManagerComponent
        /\ UNCHANGED <<isEdit, componentListBuffer, isMulti, isManagerComponent,
                       isContinueToAdd, submitting, choosing, twice, saved>>
    BY DEF ApplicationInv, Type, flags, inForm, open
  <1>2. CASE isMulti
    <2>1. componentList' = componentList
      BY <1>2 DEF Type
    <2>. QED
      BY <1>1, <1>2, <2>1, ListStays DEF FormShape, lists
  <1>3. CASE ~ isMulti
    <2>1. componentList' = [i \in DOMAIN componentList |-> name]
      BY <1>3 DEF Type
    <2>2. componentList' \in Components
      BY <1>1, <2>1 DEF FormShape, Components
    <2>3. ~ twice' => IsInjective(componentList')
      BY <1>1, <1>3, <2>1 DEF NamesDistinct, ModelAlone, IsInjective
    <2>. QED
      BY <1>1, <1>3, <2>1, <2>2, <2>3, AlonePreserves DEF FormShape, flags
  <1>. QED
    BY <1>2, <1>3

LEMMA SendingPreserves ==
  ASSUME ApplicationInv, submit \/ Reports \/ Errors,
         isManagerComponent \/ listed' = listed
  PROVE  ApplicationInv'
  <1>0. /\ componentList \in Components /\ FormShape /\ (isManagerComponent => isMulti)
        /\ ListShown /\ NamesDistinct /\ ModelAlone /\ model \in Name
    BY DEF ApplicationInv, FormShape, ListShown
  <1>1. CASE isMulti \/ (Errors /\ isEdit)
    <2>1. UNCHANGED <<lists, isMulti, isManagerComponent, isEdit, model, isContinueToAdd, choosing, saved>>
      BY <1>1 DEF submit, Reports, Errors, pop, lists, flags
    <2>2. submitting' \in BOOLEAN
      BY DEF submit, Reports, Errors
    <2>3. twice' = twice
      BY <1>0, <1>1 DEF submit, Reports, Errors, FormShape
    <2>. QED
      BY <1>0, <2>1, <2>2, <2>3, ListStays DEF FormShape, ListShown
  <1>2. CASE ~ isMulti /\ submit
    <2>2. componentList' = Append(componentList, model) /\ submitting' = TRUE
      BY <1>2 DEF submit
    <2>3. /\ UNCHANGED <<isEdit, componentListBuffer, model, flags, choosing, saved>>
      BY <1>2 DEF submit
    <2>4. twice' = (twice \/ checkDuplicateComponentName)
      <3>1. twice' = (twice \/ (~ isMulti /\ checkDuplicateComponentName))
        BY <1>2 DEF submit
      <3>. QED
        BY <1>2, <3>1, Zenon
    <2>5. twice' \in BOOLEAN /\ (~ twice' => ~ twice /\ ~ checkDuplicateComponentName)
      BY <2>4, Zenon
    <2>6. /\ componentList' \in Components
          /\ ~ checkDuplicateComponentName /\ IsInjective(componentList) => IsInjective(componentList')
      BY <1>0, <2>2, AppendedComponent DEF checkDuplicateComponentName
    <2>7. ~ twice' => ~ twice /\ IsInjective(componentList')
      BY <1>0, <2>5, <2>6 DEF NamesDistinct
    <2>8. \A i \in DOMAIN componentList' : componentList'[i] = model'
      BY <1>0, <1>2, <2>2, <2>3 DEF Components, ModelAlone
    <2>. QED
      BY <1>0, <1>2, <2>2, <2>3, <2>5, <2>6, <2>7, <2>8, AlonePreserves
  <1>3. CASE ~ isMulti /\ (Reports \/ (Errors /\ ~ isEdit))
    <2>1. /\ componentList' = Front(componentList) /\ submitting' = FALSE
          /\ UNCHANGED <<isEdit, componentListBuffer, model, flags, choosing, twice, saved>>
      BY <1>3 DEF Reports, Errors, pop
    <2>2. /\ componentList' \in Components
          /\ IsInjective(componentList) => IsInjective(componentList')
          /\ \A i \in DOMAIN componentList' : componentList'[i] = model'
      BY <1>0, <1>3, <2>1, PoppedComponent DEF ModelAlone
    <2>3. ~ twice' => ~ twice /\ IsInjective(componentList')
      BY <1>0, <2>1, <2>2 DEF NamesDistinct
    <2>. QED
      BY <1>0, <1>3, <2>1, <2>2, <2>3, AlonePreserves DEF FormShape
  <1>. QED
    BY <1>1, <1>2, <1>3

LEMMA FormNextPreserves == ApplicationInv /\ [FormNext]_formVars => ApplicationInv'
  <1>. SUFFICES ASSUME ApplicationInv, [FormNext]_formVars
                PROVE  ApplicationInv'
    OBVIOUS
  <1>0. /\ FormShape /\ ListShown
        /\ isManagerComponent \/ listed' = listed
        /\ isManagerComponent /\ ~ isManagerComponent' => listed' = componentList
    BY DEF ApplicationInv, FormNext, formVars, flags
  <1>1. ASSUME NEW name \in Name, Type(name)
        PROVE  ApplicationInv'
    BY <1>0, <1>1, TypePreserves
  <1>2. CASE previewApp
    <2>1. twice' = (twice \/ checkDuplicateComponentName)
      BY <1>2 DEF previewApp
    <2>2. twice' \in BOOLEAN /\ (twice' \/ (~ twice /\ ~ checkDuplicateComponentName))
      BY <2>1, Zenon
    <2>. QED
      BY <1>0, <1>2, <2>2, AddKeeps DEF previewApp, FormShape
  <1>3. CASE addComputeComponent \/ save
    <2>1. twice' = twice /\ twice \in BOOLEAN /\ choosing' \in BOOLEAN
      BY <1>0, <1>3 DEF addComputeComponent, save, FormShape
    <2>2. CASE twice
      BY <1>3, <2>1, <2>2, AddKeeps DEF addComputeComponent, save
    <2>3. CASE ~ twice
      BY <1>3, <2>1, <2>3, AddKeeps DEF addComputeComponent, save
    <2>. QED
      BY <2>2, <2>3
  <1>4. CASE ContinueToAdd \/ openSelectImageDialog \/ Succeeds
    <2>1. UNCHANGED <<lists, isMulti, isManagerComponent, isEdit, model, twice>>
      BY <1>4 DEF ContinueToAdd, openSelectImageDialog, Succeeds, flags
    <2>2. isContinueToAdd' \in BOOLEAN /\ submitting' \in BOOLEAN /\ saved' \in BOOLEAN
      BY <1>0, <1>4 DEF ContinueToAdd, openSelectImageDialog, Succeeds, flags, FormShape
    <2>3. choosing' \in BOOLEAN /\ (choosing' => isManagerComponent)
      <3>1. CASE openSelectImageDialog
        BY <3>1 DEF openSelectImageDialog, inList
      <3>2. CASE ContinueToAdd \/ Succeeds
        <4>1. choosing' = choosing
          BY <3>2 DEF ContinueToAdd, Succeeds
        <4>. QED
          BY <1>0, <4>1 DEF FormShape, ListShown
      <3>. QED
        BY <1>4, <3>1, <3>2
    <2>. QED
      BY <1>0, <2>1, <2>2, <2>3, ListStays DEF FormShape
  <1>5. CASE cancelEdit
    <2>1. /\ componentList' = componentListBuffer /\ isManagerComponent' = TRUE
          /\ isMulti /\ ~ isManagerComponent
          /\ UNCHANGED <<isEdit, componentListBuffer, model, isMulti, isContinueToAdd,
                         submitting, choosing, twice, saved>>
      BY <1>5 DEF cancelEdit, inForm
    <2>2. ~ twice => componentListBuffer # <<>> /\ IsInjective(componentListBuffer)
      BY <2>1 DEF ApplicationInv, CopyIsList
    <2>3. FormShape'
      BY <1>0, <2>1 DEF FormShape
    <2>4. ListShown' /\ NamesDistinct' /\ ModelAlone' /\ CopyIsList'
      BY <2>1, <2>2 DEF ListShown, NamesDistinct, ModelAlone, CopyIsList
    <2>. QED
      BY <2>3, <2>4 DEF ApplicationInv
  <1>6. ASSUME NEW name \in ComponentName, editComponent(name)
        PROVE  ApplicationInv'
    <2>1. componentList' = others(name) /\ componentList \in Components
      BY <1>0, <1>6 DEF editComponent, FormShape
    <2>2. /\ componentList' \in Components
          /\ IsInjective(componentList) => IsInjective(componentList')
      BY <2>1, OthersLeft
    <2>3. /\ isManagerComponent /\ ~ isManagerComponent' /\ isManagerComponent' \in BOOLEAN
          /\ componentListBuffer' = componentList /\ model' \in Name
          /\ UNCHANGED <<isEdit, isMulti, isContinueToAdd, submitting, twice, saved>>
      BY <1>6 DEF editComponent, inList, Name
    <2>4. choosing' = FALSE
      BY <1>0, <1>6 DEF editComponent, inList, open, FormShape
    <2>. QED
      BY <1>0, <2>2, <2>3, <2>4, CopyKeeps
  <1>7. ASSUME NEW name \in ComponentName, deleteComponent(name)
        PROVE  ApplicationInv'
    BY <1>7, DeletePreserves
  <1>8. ASSUME NEW name \in ComponentName, ImageChosen(name)
        PROVE  ApplicationInv'
    <2>1. /\ choosing' = FALSE /\ isManagerComponent /\ componentList \in Components
          /\ UNCHANGED <<isEdit, componentList, isMulti, isContinueToAdd, submitting, twice, saved>>
      BY <1>0, <1>8 DEF ImageChosen, FormShape, ListShown
    <2>2. CASE isManagerComponent' = FALSE /\ componentListBuffer' = componentList /\ model' = name
      BY <1>0, <2>1, <2>2, CopyKeeps DEF Name
    <2>3. CASE UNCHANGED <<isManagerComponent, componentListBuffer, model>>
      BY <1>0, <2>1, <2>3, ListStays DEF FormShape, lists
    <2>. QED
      BY <1>8, <2>2, <2>3 DEF ImageChosen
  <1>9. CASE submit \/ Reports \/ Errors
    BY <1>0, <1>9, SendingPreserves
  <1>10. CASE UNCHANGED formVars
    BY <1>0, <1>10, ListStays DEF formVars, flags, lists, FormShape, ListShown
  <1>11. ComponentName \cup {NoComponent} = Name
    BY DEF Name
  <1>. QED
    BY <1>1, <1>2, <1>3, <1>4, <1>5, <1>6, <1>7, <1>8, <1>9, <1>10, <1>11, Zenon DEF FormNext

LEMMA ApplicationInvariant == FormSpec => []ApplicationInv
  BY FormInitEstablishes, FormNextPreserves, PTL DEF FormSpec

\* For any components and any number of them: whatever is added, edited,
\* cancelled, previewed and sent, no two have the same name, unless the one
\* that was sent alone was added again.
THEOREM NamesDistinctAlways == FormSpec => []NamesDistinct
  <1>1. ApplicationInv => NamesDistinct
    BY DEF ApplicationInv
  <1>. QED
    BY <1>1, ApplicationInvariant, PTL

\* For any components and any number of them: back from the form the list is as it
\* was shown before, or has the component of the form at its end (by-image.component.ts,
\* editComponent, cancelEdit, save).
THEOREM CancelBringsBackAlways == FormSpec => CancelBringsBack
  <1>1. ASSUME ApplicationInv, [FormNext]_formVars,
               isMulti, ~ isManagerComponent, isManagerComponent'
        PROVE  componentList' \in {listed, Append(componentList, model)}
    <2>1. FormNext
      BY <1>1 DEF formVars, flags
    <2>2. previewApp \/ addComputeComponent \/ save \/ cancelEdit
      BY <1>1, <2>1 DEF FormNext, Type, ContinueToAdd, editComponent, deleteComponent,
           ImageChosen, openSelectImageDialog, submit, Succeeds, Reports, Errors, flags
    <2>3. CASE previewApp \/ addComputeComponent \/ save
      BY <2>3 DEF previewApp, addComputeComponent, save, addComponentAction
    <2>4. CASE cancelEdit
      <3>1. componentListBuffer = listed
        BY <1>1 DEF ApplicationInv, CopyIsList
      <3>. QED
        BY <2>4, <3>1 DEF cancelEdit
    <2>. QED
      BY <2>2, <2>3, <2>4
  <1>2. ApplicationInv /\ [FormNext]_formVars =>
          [isMulti /\ ~ isManagerComponent /\ isManagerComponent' =>
             componentList' \in {listed, Append(componentList, model)}]_formVars
    BY <1>1
  <1>. QED
    BY <1>2, ApplicationInvariant, PTL DEF FormSpec, CancelBringsBack
=============================================================================
