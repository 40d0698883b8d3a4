---------------------------- MODULE PolledDetail ----------------------------
(***************************************************************************)
(* The pages of a pipeline and of a run (features/pipelines/detail and     *)
(* history-detail).  Both poll: switchMap makes an interval of every value *)
(* of pullInterval$, and a second switchMap makes two requests of every    *)
(* tick, dropping those of the tick before.  An answer sets the interval   *)
(* anew, or ends it when there is nothing to wait for: the pipeline is     *)
(* ready, the run has finished.  A run is over then; a pipeline can be     *)
(* updated by somebody else, which the page does not notice.  What is      *)
(* shown waits for the permissions (combineLatest in dataFetcher), the     *)
(* polling does not.                                                       *)
(***************************************************************************)
EXTENDS Integers

CONSTANTS
  MaxVersion,   \* bound: how often what the page shows changes
  MaxFailures   \* bound: requests that fail

ASSUME PolledDetailAssumption == MaxVersion \in Nat /\ MaxFailures \in Nat

NotShown == -1

VARIABLES
  page,       \* "pipeline" or "run"
  version,    \* what is on the server
  ends,       \* the versions that are ready, or finished
  templated,  \* the pipeline has a template
  interval,   \* pullInterval$ is not 0
  first,      \* the answer to the first request: getPipelineConfig, getPipelineHistory
  second,     \* and to the second: the template, the test report
  latest,     \* the version that was polled last
  permitted,  \* permissions$ has answered
  detail,     \* the version that is shown
  running,    \* PipelineHistoryDetailComponent.running; of a pipeline: not ready
  failures,
  failed,     \* the stream has ended with an error
  cut         \* it was made anew when the interval had ended: nothing will come

server == <<page, version, ends, templated>>
requests == <<first, second>>
view == <<latest, permitted, detail, running>>
detailVars == <<server, interval, requests, view, failures, failed, cut>>

\* A request: what was answered, and whether it is there.
none == [sent |-> FALSE, served |-> FALSE, version |-> NotShown, here |-> FALSE]
sent == [none EXCEPT !.sent = TRUE]
serve(request) == [request EXCEPT !.served = TRUE, !.version = version]
dropped == first' = none /\ second' = none

\* The answer ends the polling.
final(request) == request.version \in ends

-----------------------------------------------------------------------------
\* Somebody updates the pipeline, the run goes on.
Change ==
  /\ version < MaxVersion
  /\ page = "pipeline" \/ version \notin ends
  /\ version' = version + 1
  /\ ends' \in {ends, ends \cup {version + 1}}
  /\ UNCHANGED <<page, templated, interval, requests, view, failures, failed, cut>>

ServeFirst ==
  /\ first.sent /\ ~ first.served
  /\ first' = serve(first)
  /\ UNCHANGED <<server, interval, second, view, failures, failed, cut>>

ServeSecond ==
  /\ second.sent /\ ~ second.served
  /\ second' = serve(second)
  /\ UNCHANGED <<server, interval, first, view, failures, failed, cut>>

\* A tick.  The page of a pipeline asks for its template afterwards, the one of a
\* run for the history and the report at the same time.
Tick ==
  /\ interval /\ ~ failed
  /\ first' = sent
  /\ second' = IF page = "run" THEN sent ELSE none
  /\ UNCHANGED <<server, interval, view, failures, failed, cut>>

\* What was polled is shown if the permissions are there.
emit(request) ==
  /\ latest' = request.version
  /\ detail' = IF permitted THEN request.version ELSE detail
  /\ running' = ~ final(request)
  /\ dropped

\* The history or the pipeline is there.  Only the page of a run already decides
\* whether to go on; the other asks for the template.  Without one, reading its
\* kind throws.
FirstArrives ==
  /\ first.served /\ ~ first.here
  /\ \/ /\ page = "run" /\ second.here
        /\ interval' = ~ final(first) /\ emit(first)
        /\ UNCHANGED failed
     \/ /\ page = "run" /\ ~ second.here
        /\ interval' = ~ final(first) /\ running' = ~ final(first)
        /\ first' = [first EXCEPT !.here = TRUE]
        /\ UNCHANGED <<second, latest, detail, failed>>
     \/ /\ page = "pipeline" /\ templated
        /\ first' = [first EXCEPT !.here = TRUE] /\ second' = sent
        /\ UNCHANGED <<interval, latest, detail, running, failed>>
     \/ /\ page = "pipeline" /\ ~ templated
        /\ interval' = FALSE /\ failed' = TRUE /\ running' = FALSE
        /\ dropped
        /\ UNCHANGED <<latest, detail>>
  /\ UNCHANGED <<server, permitted, failures, cut>>

\* The report, or the template, is there.
SecondArrives ==
  /\ second.served /\ ~ second.here
  /\ IF first.here
     THEN /\ interval' = IF page = "run" THEN interval ELSE ~ final(first)
          /\ emit(first)
     ELSE /\ second' = [second EXCEPT !.here = TRUE]
          /\ UNCHANGED <<interval, first, latest, detail, running>>
  /\ UNCHANGED <<server, permitted, failures, failed, cut>>

\* The permissions are there: what was polled last is shown.
PermissionsArrive ==
  /\ ~ permitted /\ ~ failed
  /\ permitted' = TRUE
  /\ detail' = IF latest = NotShown THEN detail ELSE latest
  /\ UNCHANGED <<server, interval, requests, latest, running, failures, failed, cut>>

\* Without permissions the stream ends.
PermissionsFail ==
  /\ ~ permitted /\ ~ failed /\ failures < MaxFailures
  /\ failures' = failures + 1
  /\ failed' = TRUE
  /\ dropped
  /\ UNCHANGED <<server, interval, view, cut>>

\* The report that cannot be read ends the polling.
ReportFails_stops ==
  /\ page = "run" /\ second.sent /\ ~ second.served /\ failures < MaxFailures
  /\ failures' = failures + 1
  /\ IF first.here THEN emit(first)
     ELSE /\ second' = [sent EXCEPT !.served = TRUE, !.here = TRUE]
          /\ running' = FALSE
          /\ UNCHANGED <<first, latest, detail>>
  /\ interval' = FALSE
  /\ UNCHANGED <<server, permitted, failed, cut>>

\* Or it leaves the page without a second answer.
ReportFails_silent ==
  /\ page = "run" /\ second.sent /\ ~ second.served /\ failures < MaxFailures
  /\ failures' = failures + 1
  /\ second' = none
  /\ running' = FALSE
  /\ UNCHANGED <<server, interval, first, latest, permitted, detail, failed, cut>>

\* A report that cannot be read counts as an empty one.
ReportFails ==
  /\ page = "run" /\ second.sent /\ ~ second.served /\ failures < MaxFailures
  /\ failures' = failures + 1
  /\ IF first.here THEN emit(first)
     ELSE /\ second' = [sent EXCEPT !.served = TRUE, !.here = TRUE]
          /\ running' = FALSE
          /\ UNCHANGED <<first, latest, detail>>
  /\ UNCHANGED <<server, interval, permitted, failed, cut>>

\* Any other request fails: the error ends the stream.  The page of a pipeline
\* also ends the interval.
RequestFails ==
  /\ \/ first.sent /\ ~ first.served
     \/ page = "pipeline" /\ second.sent /\ ~ second.served
  /\ failures < MaxFailures
  /\ failures' = failures + 1
  /\ failed' = TRUE
  /\ interval' = IF page = "run" THEN interval ELSE FALSE
  /\ running' = FALSE
  /\ dropped
  /\ UNCHANGED <<server, latest, permitted, detail, cut>>

\* dataManager.reload, after an input was given to a step, a branch was run or
\* deleted, or an error: the stream is made anew, with the interval as it is.
Reload ==
  /\ failed \/ (detail # NotShown /\ (page = "run" \/ interval))
  /\ failed' = FALSE
  /\ cut' = ~ interval
  /\ latest' = NotShown /\ permitted' = FALSE
  /\ dropped
  /\ UNCHANGED <<server, interval, detail, running, failures>>

DetailInit ==
  /\ page \in {"pipeline", "run"} /\ templated \in BOOLEAN
  /\ version = 0 /\ ends \in SUBSET {0}
  /\ interval = TRUE
  /\ first = none /\ second = none
  /\ latest = NotShown /\ permitted = FALSE
  /\ detail = NotShown /\ running = TRUE
  /\ failures = 0 /\ failed = FALSE /\ cut = FALSE

DetailNext ==
  \/ Change \/ ServeFirst \/ ServeSecond
  \/ Tick \/ FirstArrives \/ SecondArrives \/ ReportFails \/ RequestFails
  \/ PermissionsArrive \/ PermissionsFail \/ Reload

DetailSpec == DetailInit /\ [][DetailNext]_detailVars

-----------------------------------------------------------------------------
(* Properties.                                                             *)

\* A page only stops polling for an answer that is final, not for a report that
\* cannot be read nor before its second request is answered; and that answer is
\* what it shows once the permissions are there.  Of a run it is the last one there
\* will be; a pipeline may since have been updated.
DetailIsFinal ==
  ~ interval /\ ~ failed /\ ~ cut /\ first = none =>
    /\ latest \in ends /\ ~ running
    /\ permitted => detail = latest
    /\ page = "run" => latest = version

\* A page that stays open shows the end, or an error, whatever the order of ticks
\* and answers; unless it is always made anew, was made anew after the interval had
\* ended, or there is no end any more.
DetailShowsEnd ==
  \/ []<><<Reload>>_detailVars
  \/ version \in ends ~>
       (detail \in ends /\ ~ running) \/ failed \/ cut \/ version \notin ends
=============================================================================
