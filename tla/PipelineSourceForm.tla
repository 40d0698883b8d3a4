------------------------- MODULE PipelineSourceForm -------------------------
(***************************************************************************)
(* Where a pipeline has its Jenkinsfile from, in the forms that create,    *)
(* copy and update it (modules/pipeline/components/create, update and      *)
(* forms/repository), and the conversions between the form and what is     *)
(* stored (api/pipeline/utils.ts): a repository with a branch, or a script *)
(* that is typed in.  A pipeline of several branches has a pattern for the *)
(* branch.  Pipelines from a template have neither.                        *)
(*                                                                         *)
(* A repository is its kind, a script is there or not.                     *)
(***************************************************************************)
EXTENDS Naturals

Kind == {"git", "buildin", "svn"}
NoBranchName == ""
BranchName == {NoBranchName, "master", "topic"}
Script == {"", "pipeline"}

VARIABLES
  kindOfPipeline,   \* method of the code: "script" or "multi-branch"
  action,           \* "create" and "update" while the form is open, or "none"
  stepIndex,        \* of the form that creates: 1, 2 and 3
  source,           \* "repo" or "script"
  repo,             \* the kind of the repository, or "none"
  branch,
  branchRequired,   \* the control of the branch has Validators.required
  branchValid,      \* its status, from when the value was set
  script,
  storedSource,     \* what is stored
  fromSvn,          \* the repository was just changed from svn to one of a binding
  unchanged         \* nothing was changed since the form was opened for an update

control == <<branch, branchRequired, branchValid>>
ghosts == <<fromSvn, unchanged>>
sourceVars ==
  <<kindOfPipeline, action, stepIndex, source, repo, control, script, storedSource, ghosts>>

-----------------------------------------------------------------------------
(* The conversions.                                                        *)

\* spec.source, with the member that is there, and the script.
noSource == [sourceType |-> "", member |-> "none", ref |-> NoBranchName, script |-> ""]

\* toRepoResource, and toPipelineConfigResource: a script comes before anything
\* else, even if the user has turned to a repository after typing it.
toRepoResource ==
  IF script # "" THEN [noSource EXCEPT !.script = script]
  ELSE [sourceType |-> IF repo = "svn" THEN "SVN" ELSE "GIT",
        member |-> IF repo = "buildin" THEN "codeRepository" ELSE repo,
        ref |-> branch, script |-> ""]

\* The type is not enough to tell the repository of a binding from one with a URL.
toRepoModel_type ==
  CASE storedSource.sourceType = "SVN" -> "svn"
    [] storedSource.sourceType = "GIT" -> "git"
    [] OTHER -> "none"

\* toRepoModel
toRepoModel ==
  CASE storedSource.sourceType = "SVN" -> "svn"
    [] storedSource.member = "codeRepository" -> "buildin"
    [] storedSource.member = "git" -> "git"
    [] OTHER -> "none"

\* toPipelineConfigModel looks for the branch in git and in codeRepository only.
storedBranch ==
  IF storedSource.member \in {"git", "codeRepository"} THEN storedSource.ref ELSE NoBranchName

-----------------------------------------------------------------------------
(* Opening the form.                                                       *)

CreatePipeline ==
  /\ action = "none"
  /\ action' = "create" /\ stepIndex' = 1
  /\ source' = "repo" /\ repo' = "none" /\ script' = ""
  /\ branch' = "master" /\ branchRequired' = TRUE /\ branchValid' = TRUE
  /\ fromSvn' = FALSE /\ unchanged' = FALSE
  /\ UNCHANGED <<kindOfPipeline, storedSource>>

\* The form is patched with what is stored, the branch after the repository.  Only
\* a branch of svn need not be there.  What a copy reads is taken to be there before
\* anything is changed; where it cannot be read, as for want of a template, the
\* form stays as CreatePipeline leaves it.
OpenPipeline(what) ==
  /\ action = "none" /\ storedSource # noSource
  /\ action' = what /\ stepIndex' = 1
  /\ repo' = toRepoModel
  /\ source' = IF toRepoModel = "none" THEN "script" ELSE "repo"
  /\ script' = storedSource.script
  /\ branch' = storedBranch
  /\ branchRequired' = (toRepoModel # "svn")
  /\ branchValid' = (toRepoModel = "svn" \/ storedBranch # NoBranchName)
  /\ fromSvn' = FALSE /\ unchanged' = (what = "update")
  /\ UNCHANGED <<kindOfPipeline, storedSource>>

-----------------------------------------------------------------------------
(* Using it.                                                               *)

atSource(s) == source = s /\ (action = "update" \/ (action = "create" /\ stepIndex = 2))

ChooseSource(s) ==
  /\ action = "create" /\ stepIndex = 1 /\ kindOfPipeline = "script"
  /\ source' = s
  /\ unchanged' = FALSE
  /\ UNCHANGED <<kindOfPipeline, action, stepIndex, repo, control, script, storedSource, fromSvn>>

\* What a change of the repository does to its branch, with validators that are
\* only set when the form is made.
branchReset_once(kind) ==
  /\ branch' = IF kind = "buildin" THEN NoBranchName ELSE "master"
  /\ branchValid' = (branch' # NoBranchName \/ ~ branchRequired)
  /\ UNCHANGED branchRequired

\* valueChanges of the repository: the branch is set, which validates it, and
\* then the validators are.
branchReset(kind) ==
  /\ branch' = IF kind = "buildin" THEN NoBranchName ELSE "master"
  /\ branchValid' = (branch' # NoBranchName \/ ~ branchRequired)
  /\ branchRequired' = (kind # "svn")

\* The dialog is closed with a repository.
ChooseRepo(kind) ==
  /\ atSource("repo")
  /\ repo' = kind
  /\ IF kindOfPipeline = "script" THEN branchReset(kind)
     ELSE kind # "svn" /\ UNCHANGED control
  /\ fromSvn' = (repo = "svn" /\ kind = "buildin")
  /\ unchanged' = FALSE
  /\ UNCHANGED <<kindOfPipeline, action, stepIndex, source, script, storedSource>>

ChooseBranch(name) ==
  /\ atSource("repo") /\ repo # "svn"
  /\ branch' = name
  /\ branchValid' = (name # NoBranchName \/ ~ branchRequired)
  /\ fromSvn' = FALSE
  /\ unchanged' = FALSE
  /\ UNCHANGED <<kindOfPipeline, action, stepIndex, source, repo, branchRequired, script, storedSource>>

TypeScript(text) ==
  /\ atSource("script")
  /\ script' = text
  /\ unchanged' = FALSE
  /\ UNCHANGED <<kindOfPipeline, action, stepIndex, source, repo, control, storedSource, fromSvn>>

sourceValid == IF source = "repo" THEN repo # "none" /\ branchValid ELSE script # ""

\* step: back, or on if the form of this step is valid.
Step ==
  /\ action = "create"
  /\ \/ stepIndex > 1 /\ stepIndex' = stepIndex - 1
     \/ stepIndex = 1 /\ stepIndex' = 2
     \/ stepIndex = 2 /\ sourceValid /\ stepIndex' = 3
  /\ UNCHANGED <<kindOfPipeline, action, source, repo, control, script, storedSource, ghosts>>

\* The request is sent and answered.  The update leaves out the control of the
\* source that is not used, and its form is valid as a whole.
SubmitSource ==
  /\ \/ action = "create" /\ stepIndex = 3
     \/ action = "update" /\ sourceValid
  /\ storedSource' = toRepoResource
  /\ action' = "none"
  /\ UNCHANGED <<kindOfPipeline, stepIndex, source, repo, control, script, ghosts>>

-----------------------------------------------------------------------------
SourceInit ==
  /\ kindOfPipeline \in {"script", "multi-branch"}
  /\ action = "none" /\ stepIndex = 1
  /\ source = "repo" /\ repo = "none" /\ script = ""
  /\ branch = "master" /\ branchRequired = TRUE /\ branchValid = TRUE
  /\ storedSource = noSource
  /\ fromSvn = FALSE /\ unchanged = FALSE

SourceNext ==
  \/ CreatePipeline \/ OpenPipeline("create") \/ OpenPipeline("update")
  \/ \E s \in {"repo", "script"} : ChooseSource(s)
  \/ \E kind \in Kind : ChooseRepo(kind)
  \/ \E name \in BranchName : ChooseBranch(name)
  \/ \E text \in Script : TypeScript(text)
  \/ Step \/ SubmitSource

SourceSpec == SourceInit /\ [][SourceNext]_sourceVars

-----------------------------------------------------------------------------
(* Properties.                                                             *)

\* The conversions of what is stored into the form and back agree: an update that
\* changes nothing keeps the source, though not the branch of svn, which is lost.
UpdateKeepsSource ==
  [][unchanged =>
       \/ storedSource' = storedSource
       \/ storedSource.member = "svn" /\ storedSource' = [storedSource EXCEPT !.ref = NoBranchName]]_sourceVars

\* However the user goes forth and back between repositories, sources and steps:
\* no pipeline is stored with a repository but without a branch, except when the
\* repository was svn until then, for which a branch was not required.
BranchGiven ==
  [][storedSource' # storedSource /\ storedSource'.member \in {"git", "codeRepository"} =>
       storedSource'.ref # NoBranchName \/ fromSvn]_sourceVars
=============================================================================
