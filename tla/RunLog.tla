------------------------------- MODULE RunLog -------------------------------
(***************************************************************************)
(* How the log of a pipeline run is followed: the dialogs with the log of  *)
(* a run or of a scan, the full log on the page of a run, the log of one   *)
(* step, and the diagram of the stages (modules/pipeline/components/logs,  *)
(* scan-logs, history-detail-log and history-step).  Each asks for what    *)
(* comes after what it has, and asks again while there is more.            *)
(***************************************************************************)
EXTENDS AsyncData, Integers, Sequences

CONSTANTS
  MaxLog,      \* bound: the pieces a run writes
  Patience,    \* 5 in the code: errors before a viewer gives up
  MaxErrors,   \* bound: requests that fail
  MaxInputs    \* bound: how often a step waits for an input

Viewer == {"dialog", "page", "step", "diagram"}

ASSUME RunLogAssumption ==
  /\ {MaxLog, Patience, MaxErrors, MaxInputs} \subseteq Nat
  /\ NoRequest \notin [start : 0 .. MaxLog, upto : -1 .. MaxLog, more : BOOLEAN]

VARIABLES
  written,   \* how many pieces the run has written
  inProgress,   \* whether it still runs
  viewer,    \* which of the four this is
  visible,   \* the directive exists; of a step: it was last asked to unfold
  active,    \* PipelineHistoryStepComponent.active
  text,      \* what is shown
  next,      \* where the next piece starts
  more,      \* whether there is more; of the diagram: LogsComponent.running
  errorCount,
  inputs,    \* how often an input was given
  async      \* the directive

run == <<written, inProgress>>
shown == <<text, next, more, errorCount>>
logVars == <<run, viewer, visible, active, shown, inputs, async>>

asked(start) == [start |-> start, upto |-> -1, more |-> FALSE]
waiting == async.request # NoRequest /\ async.request.upto = -1
answered == async.request # NoRequest /\ async.request.upto # -1

-----------------------------------------------------------------------------
(* The server.                                                             *)

RunWrites ==
  /\ inProgress /\ written < MaxLog
  /\ written' = written + 1
  /\ UNCHANGED <<inProgress, viewer, visible, active, shown, inputs, async>>

RunEnds ==
  /\ inProgress
  /\ inProgress' = FALSE
  /\ UNCHANGED <<written, viewer, visible, active, shown, inputs, async>>

\* The log from start on, as far as it is written.
Serve ==
  /\ waiting
  /\ async' = [async EXCEPT !.request =
                          [start |-> @.start, upto |-> written, more |-> inProgress]]
  /\ UNCHANGED <<run, viewer, visible, active, shown, inputs>>

-----------------------------------------------------------------------------
(* The handlers.                                                           *)

\* fetchLogs of the page starts again when the log was complete, or given up.
again == viewer = "page" /\ ~ more
nextStart == IF again THEN 0 ELSE next

\* The handler is called, which makes d of the directive.  A step that is folded
\* asks for nothing: of(null).
fetch(d) ==
  /\ next' = nextStart
  /\ text' = IF again THEN <<>> ELSE text
  /\ async' = IF viewer = "step" /\ ~ visible' THEN resulted(d, FALSE, more) ELSE d

\* The directive hears of the answer before nextStart is set.
Arrive_late ==
  /\ answered
  /\ LET answer == async.request
         pieces == IF viewer = "diagram" THEN <<>>
                   ELSE [i \in 1 .. answer.upto - answer.start |-> answer.start + i]
     IN /\ text' = text \o pieces
        /\ next' = IF viewer = "diagram" THEN next ELSE answer.upto
        /\ more' = answer.more
        /\ async' = IF pulls(more, more') THEN refetched(async, asked(next))
                    ELSE resulted(async, FALSE, more')
  /\ UNCHANGED <<run, viewer, visible, active, errorCount, inputs>>

\* tap: the answer is appended, and detectChanges hands the new pullIn to the
\* directive before the answer gets there.  If that refetches, switchMap drops
\* the answer.
Arrive ==
  /\ answered
  /\ LET answer == async.request
         pieces == IF viewer = "diagram" THEN <<>>
                   ELSE [i \in 1 .. answer.upto - answer.start |-> answer.start + i]
     IN /\ text' = text \o pieces
        /\ next' = IF viewer = "diagram" THEN next ELSE answer.upto
        /\ more' = answer.more
        /\ async' = IF pulls(more, more') THEN refetched(async, asked(next'))
                    ELSE resulted(async, FALSE, more')
  /\ UNCHANGED <<run, viewer, visible, active, errorCount, inputs>>

\* catchError.  The diagram gives up at once.
Fail ==
  /\ waiting /\ errorCount < MaxErrors
  /\ more' = (more /\ errorCount <= Patience /\ viewer # "diagram")
  /\ errorCount' = errorCount + 1
  /\ async' = resulted(async, TRUE, more')
  /\ UNCHANGED <<run, viewer, visible, active, text, next, inputs>>

Pull ==
  /\ async.timer
  /\ visible' = visible
  /\ fetch(fired(async, asked(nextStart)))
  /\ UNCHANGED <<run, viewer, active, more, errorCount, inputs>>

-----------------------------------------------------------------------------
(* The user.                                                               *)

\* The button of the page shows the stages instead of the full log, or the log
\* again: ngIf destroys the directive and makes a new one.
ShowLog ==
  /\ viewer = "page" /\ visible' = ~ visible
  /\ IF visible THEN async' = idle /\ UNCHANGED <<text, next>>
     ELSE fetch(refetched(idle, asked(nextStart)))
  /\ UNCHANGED <<run, viewer, active, more, errorCount, inputs>>

\* stepLogs.  A step without actions never becomes active.
StepLogs ==
  /\ viewer = "step" /\ visible' = ~ active
  /\ active' \in {active, ~ active}
  /\ IF visible' = visible THEN UNCHANGED <<async, text, next>>
     ELSE fetch(refetched(async, asked(nextStart)))
  /\ UNCHANGED <<run, viewer, more, errorCount, inputs>>

\* triggerPipelineHistoryInput: the step goes on, and refresh$ refetches.
Input ==
  /\ viewer = "step" /\ inputs < MaxInputs
  /\ inputs' = inputs + 1
  /\ visible' = visible
  /\ fetch(refetched(async, asked(nextStart)))
  /\ UNCHANGED <<run, viewer, active, more, errorCount>>

-----------------------------------------------------------------------------
\* The viewer is opened and ngOnInit has refetched; a step is folded.
LogInit ==
  /\ written \in 0 .. MaxLog /\ inProgress \in BOOLEAN
  /\ viewer \in Viewer
  /\ visible = (viewer # "step") /\ active = FALSE
  /\ text = <<>> /\ next = 0 /\ errorCount = 0 /\ inputs = 0
  /\ more = (viewer # "step")
  /\ async = IF visible THEN refetched(idle, asked(0)) ELSE idle

LogNext ==
  \/ RunWrites \/ RunEnds \/ Serve
  \/ Arrive \/ Fail \/ Pull
  \/ ShowLog \/ StepLogs \/ Input

LogSpec == LogInit /\ [][LogNext]_logVars

-----------------------------------------------------------------------------
(* Properties.                                                             *)

\* However requests are dropped, repeated or fail and the log is hidden and
\* shown: its pieces are in order, and none is missing or there twice.
LogInOrder ==
  /\ viewer # "diagram" => next = Len(text)
  /\ \A i \in DOMAIN text : text[i] = i

\* A viewer that stays open shows the end of the run, unless a request failed
\* when it knew of no more: too many had failed before, or it had just started.
LogFollowsRun ==
  (~ inProgress /\ visible) ~>
    \/ ~ visible
    \/ IF viewer = "diagram" THEN ~ more ELSE Len(text) = written
    \/ async.error /\ ~ more
=============================================================================
