----------------------------- MODULE MCParts --------------------------------
(***************************************************************************)
(* The smaller parts, which share no state, for one run: those of the      *)
(* frontend, and the cache of cluster configurations.  `part` names the    *)
(* one that steps, the others stay in one of their initial states.  As no  *)
(* action of one reads a variable of another, their interleavings would    *)
(* add nothing.                                                            *)
(***************************************************************************)
EXTENDS UndoableHistory, RunLog, PipelineHistories, PolledDetail,
        ApplicationForm, PipelineTriggerForm, PipelineSourceForm,
        ClusterConfigCache

VARIABLE part

allVars == <<part, undoVars, logVars, historyVars, detailVars, formVars,
             triggerVars, sourceVars, cacheVars>>

\* The state of a part that does not run.
UndoOff == stack[1] = CHOOSE s \in State : TRUE
LogOff == written = 0 /\ inProgress /\ viewer = "step"
HistoriesOff == stored = {}
DetailOff == page = "run" /\ ends = {} /\ templated
FormOff == ~ isEdit /\ model = CHOOSE name \in ComponentName : TRUE
TriggersOff == method = "script" /\ triggers = {}
SourceOff == kindOfPipeline = "script"
CacheOff == \A a \in Asker : asking[a].name = CHOOSE n \in Cluster : TRUE

Init ==
  /\ part \in {"undo", "log", "histories", "detail", "form", "triggers", "source",
              "cache"}
  /\ UndoInit /\ (part = "undo" \/ UndoOff)
  /\ LogInit /\ (part = "log" \/ LogOff)
  /\ HistoriesInit /\ (part = "histories" \/ HistoriesOff)
  /\ DetailInit /\ (part = "detail" \/ DetailOff)
  /\ FormInit /\ (part = "form" \/ FormOff)
  /\ TriggerInit /\ (part = "triggers" \/ TriggersOff)
  /\ SourceInit /\ (part = "source" \/ SourceOff)
  /\ CacheInit /\ (part = "cache" \/ CacheOff)

Next ==
  /\ UNCHANGED part
  /\ \/ /\ part = "undo" /\ UndoNext
        /\ UNCHANGED <<logVars, historyVars, detailVars, formVars, triggerVars, sourceVars, cacheVars>>
     \/ /\ part = "log" /\ LogNext
        /\ UNCHANGED <<undoVars, historyVars, detailVars, formVars, triggerVars, sourceVars, cacheVars>>
     \/ /\ part = "histories" /\ HistoriesNext
        /\ UNCHANGED <<undoVars, logVars, detailVars, formVars, triggerVars, sourceVars, cacheVars>>
     \/ /\ part = "detail" /\ DetailNext
        /\ UNCHANGED <<undoVars, logVars, historyVars, formVars, triggerVars, sourceVars, cacheVars>>
     \/ /\ part = "form" /\ FormNext
        /\ UNCHANGED <<undoVars, logVars, historyVars, detailVars, triggerVars, sourceVars, cacheVars>>
     \/ /\ part = "triggers" /\ TriggerNext
        /\ UNCHANGED <<undoVars, logVars, historyVars, detailVars, formVars, sourceVars, cacheVars>>
     \/ /\ part = "source" /\ SourceNext
        /\ UNCHANGED <<undoVars, logVars, historyVars, detailVars, formVars, triggerVars,
                       cacheVars>>
     \/ /\ part = "cache" /\ CacheNext
        /\ UNCHANGED <<undoVars, logVars, historyVars, detailVars, formVars, triggerVars,
                       sourceVars>>

\* Requests of a viewer end and its timers fire.  Nobody has to click, and a run
\* need not end.
LogFairness ==
  /\ WF_logVars(part = "log" /\ (Serve \/ Fail))
  /\ WF_logVars(part = "log" /\ Arrive)
  /\ WF_logVars(part = "log" /\ Pull)

\* So it is with the list of runs.  The user does not always choose something
\* else before the list is there.
HistoriesFairness ==
  /\ WF_historyVars(part = "histories" /\ PullList)
  /\ WF_historyVars(part = "histories" /\ (ListRuns \/ ListFails))
  /\ SF_historyVars(part = "histories" /\ Show)

\* The interval ticks.  Now and then a request is answered before the next tick
\* or the user drops it; one that is always slower is never answered.
DetailFairness ==
  /\ WF_detailVars(part = "detail" /\ Tick)
  /\ SF_detailVars(part = "detail" /\ ServeFirst)
  /\ SF_detailVars(part = "detail" /\ FirstArrives)
  /\ SF_detailVars(part = "detail" /\ ServeSecond)
  /\ SF_detailVars(part = "detail" /\ SecondArrives)
  /\ WF_detailVars(part = "detail" /\ (PermissionsArrive \/ PermissionsFail))

\* The goroutine of the vacuum runs.
CacheFairness == WF_cacheVars(part = "cache" /\ (WakeUp \/ expiredKeys \/ clearItems))

Spec ==
  /\ Init /\ [][Next]_allVars
  /\ LogFairness /\ HistoriesFairness /\ DetailFairness /\ CacheFairness
=============================================================================
