---------------------------- MODULE ViewerProofs -----------------------------
(***************************************************************************)
(* What is followed while it changes: the log of a run has its pieces in   *)
(* order however long it is, a page that has stopped polling shows what    *)
(* will not change any more, a line of a container's log keeps its name    *)
(* and the pages that are read beside each other adjoin, and the list of   *)
(* runs shows the answer to what is chosen.                                *)
(***************************************************************************)
EXTENDS RunLog, PolledDetail, ContainerLog, PipelineHistories,
        FiniteSetTheorems, SequenceTheorems, InductionLemmas, TLAPS

(* The log.                                                                *)

LogRequest == [start : 0 .. MaxLog, upto : -1 .. MaxLog, more : BOOLEAN]
Directive == [request : LogRequest \cup {NoRequest}, timer : BOOLEAN,
              loading : BOOLEAN, error : BOOLEAN]

LogShape ==
  /\ written \in 0 .. MaxLog /\ inProgress \in BOOLEAN
  /\ viewer \in Viewer /\ visible \in BOOLEAN /\ more \in BOOLEAN
  /\ text \in Seq(Nat) /\ next \in 0 .. written
  /\ async \in Directive

\* A request that is under way starts where the text ends: whatever moves the start
\* drops the request.
StartsAtEnd ==
  async.request # NoRequest =>
    /\ async.request.start = next
    /\ async.request.upto = -1 \/ async.request.upto \in next .. written

LogInv == LogShape /\ StartsAtEnd /\ LogInOrder

LEMMA AskedShape ==
  ASSUME NEW start \in 0 .. MaxLog
  PROVE  /\ asked(start) \in LogRequest /\ asked(start) # NoRequest
         /\ asked(start).start = start /\ asked(start).upto = -1
  <1>1. MaxLog \in Nat
    BY RunLogAssumption
  <1>2. asked(start) \in LogRequest
    BY <1>1 DEF asked, LogRequest
  <1>. QED
    BY <1>2, RunLogAssumption DEF asked, LogRequest

LEMMA RefetchedLog ==
  ASSUME NEW d \in Directive, NEW start \in 0 .. MaxLog
  PROVE  /\ refetched(d, asked(start)) \in Directive
         /\ refetched(d, asked(start)).request = asked(start)
         /\ fired(d, asked(start)) \in Directive
         /\ fired(d, asked(start)).request = asked(start)
  BY AskedShape DEF refetched, fired, Directive

LEMMA ResultedLog ==
  ASSUME NEW d \in Directive, NEW e \in BOOLEAN, NEW pull \in BOOLEAN
  PROVE  resulted(d, e, pull) \in Directive /\ resulted(d, e, pull).request = NoRequest
  BY DEF resulted, Directive

LEMMA IdleLog == idle \in Directive /\ idle.request = NoRequest
  BY DEF idle, Directive

LEMMA LogInitEstablishes == LogInit => LogInv
  <1>. SUFFICES ASSUME LogInit
                PROVE  LogInv
    OBVIOUS
  <1>1. MaxLog \in Nat /\ 0 \in 0 .. MaxLog
    BY RunLogAssumption
  <1>2. async \in Directive /\ (async.request # NoRequest => async.request = asked(0))
    BY <1>1, IdleLog, RefetchedLog DEF LogInit
  <1>3. StartsAtEnd
    BY <1>1, <1>2, AskedShape DEF LogInit, StartsAtEnd
  <1>4. LogShape
    BY <1>1, <1>2 DEF LogInit, LogShape, Viewer
  <1>5. LogInOrder
    BY DEF LogInit, LogInOrder
  <1>. QED
    BY <1>3, <1>4, <1>5 DEF LogInv

\* Asking: the request starts where the text will end.
LEMMA FetchPreserves ==
  ASSUME LogInv, NEW d \in Directive, d.request = asked(nextStart), fetch(d),
         visible' \in BOOLEAN, UNCHANGED <<written, inProgress, viewer, more>>
  PROVE  LogInv'
  <1>1. MaxLog \in Nat /\ written \in 0 .. MaxLog /\ next \in 0 .. written
    BY RunLogAssumption DEF LogInv, LogShape
  <1>2. nextStart \in 0 .. written /\ nextStart \in 0 .. MaxLog /\ next' = nextStart
    BY <1>1 DEF nextStart, fetch
  <1>3. text' \in Seq(Nat) /\ LogInOrder'
    <2>1. CASE again
      <3>1. text' = <<>> /\ next' = 0
        BY <1>2, <2>1 DEF fetch, nextStart
      <3>. QED
        BY <3>1 DEF LogInOrder
    <2>2. CASE ~ again
      <3>1. text' = text /\ next' = next /\ viewer' = viewer
        BY <1>2, <2>2 DEF fetch, nextStart
      <3>. QED
        BY <3>1 DEF LogInv, LogShape, LogInOrder
    <2>. QED
      BY <2>1, <2>2
  <1>4. async' \in Directive /\ (async'.request # NoRequest => async'.request = asked(next'))
    BY <1>2, ResultedLog DEF fetch, LogInv, LogShape
  <1>5. LogShape'
    BY <1>2, <1>3, <1>4 DEF LogInv, LogShape
  <1>6. StartsAtEnd'
    BY <1>2, <1>4, AskedShape DEF StartsAtEnd
  <1>. QED
    BY <1>3, <1>5, <1>6 DEF LogInv

\* The answer continues the text.
LEMMA ArrivePreserves ==
  ASSUME LogInv, Arrive
  PROVE  LogInv'
  <1>. DEFINE answer == async.request
              n == answer.upto - answer.start
              pieces == IF viewer = "diagram" THEN <<>>
                        ELSE [i \in 1 .. n |-> answer.start + i]
  <1>1. /\ written \in 0 .. MaxLog /\ next \in 0 .. written /\ MaxLog \in Nat
        /\ text \in Seq(Nat)
        /\ answer \in LogRequest /\ answer.start = next /\ answer.upto \in next .. written
    BY RunLogAssumption DEF LogInv, LogShape, StartsAtEnd, Arrive, answered, Directive,
                            LogRequest
  <1>2. /\ text' = text \o pieces
        /\ next' = IF viewer = "diagram" THEN next ELSE answer.upto
        /\ more' = answer.more
        /\ async' = IF pulls(more, more') THEN refetched(async, asked(next'))
                    ELSE resulted(async, FALSE, more')
        /\ UNCHANGED <<written, inProgress, viewer, visible>>
    BY DEF Arrive, run
  <1>3. n \in Nat /\ next' \in 0 .. written' /\ next' \in 0 .. MaxLog /\ more' \in BOOLEAN
    BY <1>1, <1>2 DEF LogRequest
  <1>4. pieces \in Seq(Nat) /\ \A i \in DOMAIN pieces : pieces[i] = next + i
    <2>1. CASE viewer = "diagram"
      BY <2>1
    <2>2. CASE viewer # "diagram"
      <3>1. pieces = [i \in 1 .. n |-> next + i]
        BY <1>1, <2>2
      <3>2. \A i \in 1 .. n : next + i \in Nat
        BY <1>1
      <3>. QED
        BY <1>3, <3>1, <3>2
    <2>. QED
      BY <2>1, <2>2
  <1>5. Len(pieces) = IF viewer = "diagram" THEN 0 ELSE n
    BY <1>3
  <1>. HIDE DEF pieces, n
  <1>6. text' \in Seq(Nat) /\ Len(text') = Len(text) + Len(pieces)
    BY <1>1, <1>2, <1>4
  <1>7. LogInOrder'
    <2>1. CASE viewer = "diagram"
      <3>1. pieces = <<>> /\ text' = text
        BY <1>1, <1>2, <2>1 DEF pieces
      <3>. QED
        BY <1>2, <2>1, <3>1 DEF LogInv, LogInOrder
    <2>2. CASE viewer # "diagram"
      <3>1. next = Len(text) /\ \A i \in DOMAIN text : text[i] = i
        BY <2>2 DEF LogInv, LogInOrder
      <3>2. next' = Len(text')
        BY <1>1, <1>2, <1>5, <1>6, <2>2, <3>1 DEF n
      <3>3. ASSUME NEW i \in DOMAIN text'
            PROVE  text'[i] = i
        <4>1. i \in 1 .. Len(text) + Len(pieces)
          BY <1>6, <3>3
        <4>2. CASE i <= Len(text)
          BY <1>1, <1>2, <1>4, <3>1, <4>1, <4>2
        <4>3. CASE i > Len(text)
          <5>1. text'[i] = pieces[i - Len(text)] /\ i - Len(text) \in DOMAIN pieces
            BY <1>1, <1>2, <1>4, <4>1, <4>3
          <5>. QED
            BY <1>1, <1>4, <3>1, <4>1, <5>1
        <4>. QED
          BY <1>1, <4>1, <4>2, <4>3
      <3>. QED
        BY <3>2, <3>3 DEF LogInOrder
    <2>. QED
      BY <2>1, <2>2
  <1>8. async' \in Directive /\ (async'.request # NoRequest => async'.request = asked(next'))
    BY <1>2, <1>3, RefetchedLog, ResultedLog DEF LogInv, LogShape
  <1>9. LogShape'
    BY <1>2, <1>3, <1>6, <1>8 DEF LogInv, LogShape
  <1>10. StartsAtEnd'
    BY <1>3, <1>8, AskedShape DEF StartsAtEnd
  <1>. QED
    BY <1>7, <1>9, <1>10 DEF LogInv

LEMMA LogNextPreserves == LogInv /\ [LogNext]_logVars => LogInv'
  <1>. SUFFICES ASSUME LogInv, [LogNext]_logVars
                PROVE  LogInv'
    OBVIOUS
  <1>1. /\ MaxLog \in Nat /\ written \in 0 .. MaxLog /\ next \in 0 .. written
        /\ async \in Directive /\ visible \in BOOLEAN /\ more \in BOOLEAN
    BY RunLogAssumption DEF LogInv, LogShape
  <1>2. nextStart \in 0 .. MaxLog
    BY <1>1 DEF nextStart
  <1>3. CASE RunWrites \/ RunEnds
    <2>1. /\ written' \in written .. MaxLog /\ inProgress' \in BOOLEAN
          /\ UNCHANGED <<viewer, visible, text, next, more, async>>
      <3>1. inProgress \in BOOLEAN
        BY DEF LogInv, LogShape
      <3>2. CASE RunWrites
        BY <1>1, <3>1, <3>2 DEF RunWrites, shown
      <3>3. CASE RunEnds
        <4>1. /\ inProgress' = FALSE
              /\ UNCHANGED <<written, viewer, visible, text, next, more, async>>
          BY <3>3 DEF RunEnds, shown
        <4>2. written' \in written .. MaxLog
          BY <1>1, <4>1
        <4>. QED
          BY <4>1, <4>2
      <3>. QED
        BY <1>3, <3>2, <3>3
    <2>2. LogShape' /\ StartsAtEnd'
      BY <1>1, <2>1 DEF LogInv, LogShape, StartsAtEnd
    <2>. QED
      BY <2>1, <2>2 DEF LogInv, LogInOrder
  <1>4. CASE Serve
    <2>1. async.request \in LogRequest /\ async.request # NoRequest
      BY <1>1, <1>4 DEF Serve, waiting, Directive
    <2>. DEFINE answer == [start |-> async.request.start, upto |-> written,
                           more |-> inProgress]
    <2>2. answer \in LogRequest /\ answer # NoRequest
      <3>1. answer \in LogRequest
        BY <1>1, <2>1 DEF LogRequest, LogInv, LogShape
      <3>. QED
        BY <3>1, RunLogAssumption DEF LogRequest
    <2>3. async' = [async EXCEPT !.request = answer]
      BY <1>4 DEF Serve
    <2>4. async' \in Directive /\ async'.request = answer
      BY <1>1, <2>2, <2>3 DEF Directive
    <2>5. /\ async.request.start = next
          /\ UNCHANGED <<written, inProgress, viewer, visible, text, next, more>>
      BY <1>4, <2>1 DEF Serve, run, shown, LogInv, StartsAtEnd
    <2>6. StartsAtEnd'
      BY <1>1, <2>4, <2>5 DEF StartsAtEnd
    <2>. QED
      BY <2>4, <2>5, <2>6 DEF LogInv, LogShape, LogInOrder
  <1>5. CASE Arrive
    BY <1>5, ArrivePreserves
  <1>6. CASE Fail
    <2>1. /\ more' \in BOOLEAN
          /\ async' = resulted(async, TRUE, more')
          /\ UNCHANGED <<written, inProgress, viewer, visible, text, next>>
      BY <1>6 DEF Fail, run
    <2>2. async' \in Directive /\ async'.request = NoRequest
      BY <1>1, <2>1, ResultedLog
    <2>. QED
      BY <2>1, <2>2 DEF LogInv, LogShape, LogInOrder, StartsAtEnd
  <1>7. CASE Pull
    <2>1. /\ fetch(fired(async, asked(nextStart))) /\ visible' = visible
          /\ UNCHANGED <<written, inProgress, viewer, more>>
      BY <1>7 DEF Pull, run
    <2>. QED
      BY <1>1, <1>2, <2>1, RefetchedLog, FetchPreserves
  <1>8. CASE ShowLog
    <2>1. visible' \in BOOLEAN /\ UNCHANGED <<written, inProgress, viewer, more>>
      BY <1>8 DEF ShowLog, run
    <2>2. CASE visible
      <3>1. async' = idle /\ UNCHANGED <<text, next>>
        BY <1>8, <2>2 DEF ShowLog
      <3>. QED
        BY <2>1, <3>1, IdleLog DEF LogInv, LogShape, LogInOrder, StartsAtEnd
    <2>3. CASE ~ visible
      <3>1. fetch(refetched(idle, asked(nextStart)))
        BY <1>8, <2>3 DEF ShowLog
      <3>. QED
        BY <1>2, <2>1, <3>1, IdleLog, RefetchedLog, FetchPreserves
    <2>. QED
      BY <2>2, <2>3
  <1>9. CASE StepLogs
    <2>1. visible' \in BOOLEAN /\ UNCHANGED <<written, inProgress, viewer, more>>
      BY <1>9 DEF StepLogs, run
    <2>2. CASE visible' = visible
      <3>1. UNCHANGED <<async, text, next>>
        BY <1>9, <2>2 DEF StepLogs
      <3>. QED
        BY <2>1, <3>1 DEF LogInv, LogShape, LogInOrder, StartsAtEnd
    <2>3. CASE visible' # visible
      <3>1. fetch(refetched(async, asked(nextStart)))
        BY <1>9, <2>3 DEF StepLogs
      <3>. QED
        BY <1>1, <1>2, <2>1, <3>1, RefetchedLog, FetchPreserves
    <2>. QED
      BY <2>2, <2>3
  <1>10. CASE Input
    <2>1. /\ fetch(refetched(async, asked(nextStart))) /\ visible' = visible
          /\ UNCHANGED <<written, inProgress, viewer, more>>
      BY <1>10 DEF Input, run
    <2>. QED
      BY <1>1, <1>2, <2>1, RefetchedLog, FetchPreserves
  <1>11. CASE UNCHANGED logVars
    BY <1>11 DEF logVars, run, shown, LogInv, LogShape, LogInOrder, StartsAtEnd
  <1>. QED
    BY <1>3, <1>4, <1>5, <1>6, <1>7, <1>8, <1>9, <1>10, <1>11 DEF LogNext

\* For a log of any length, and any number of failures: its pieces are in order, and
\* none is missing or there twice (logs.component.ts, scan-logs.component.ts,
\* history-detail-log.component.ts, history-step.component.ts).
THEOREM LogInOrderAlways == LogSpec => []LogInOrder
  <1>1. LogInv => LogInOrder
    BY DEF LogInv
  <1>. QED
    BY <1>1, LogInitEstablishes, LogNextPreserves, PTL DEF LogSpec

-----------------------------------------------------------------------------
(* The pages that poll.                                                    *)

Request == [sent : BOOLEAN, served : BOOLEAN, version : Int, here : BOOLEAN]

DetailShape ==
  /\ page \in {"pipeline", "run"}
  /\ version \in Nat /\ ends \in SUBSET Nat
  /\ interval \in BOOLEAN /\ running \in BOOLEAN /\ failed \in BOOLEAN /\ cut \in BOOLEAN
  /\ permitted \in BOOLEAN
  /\ first \in Request /\ second \in Request
  /\ first.here => first.served

\* A run that has finished does not change any more.
FinishedStays == page = "run" => \A v \in ends : v = version

\* The interval has ended because the final answer was polled, or is there and only
\* the report is waited for.
EndedByFinal ==
  ~ interval /\ ~ failed /\ ~ cut =>
    \/ first = none /\ second = none /\ latest \in ends /\ ~ running
    \/ page = "run" /\ first.here /\ first.version \in ends

\* What was polled is shown when the permissions are there.
ShownIfPermitted == permitted /\ latest # NotShown => detail = latest

DetailInv == DetailShape /\ FinishedStays /\ EndedByFinal /\ ShownIfPermitted

LEMMA RequestShapes ==
  /\ none \in Request /\ ~ none.sent /\ ~ none.served /\ ~ none.here
  /\ sent \in Request /\ ~ sent.served /\ ~ sent.here
  <1>1. none = [sent |-> FALSE, served |-> FALSE, version |-> -1, here |-> FALSE]
    BY DEF none, NotShown
  <1>2. -1 \in Int
    OBVIOUS
  <1>3. none \in Request
    BY <1>1, <1>2 DEF Request
  <1>4. sent = [none EXCEPT !.sent = TRUE]
    BY DEF sent
  <1>. HIDE DEF none
  <1>5. sent \in Request /\ sent.served = none.served /\ sent.here = none.here
    BY <1>3, <1>4 DEF Request
  <1>. QED
    BY <1>1, <1>3, <1>5

LEMMA DetailInitEstablishes == DetailInit => DetailInv
  <1>. SUFFICES ASSUME DetailInit
                PROVE  DetailInv
    OBVIOUS
  <1>1. /\ page \in {"pipeline", "run"} /\ version = 0 /\ ends \in SUBSET {0}
        /\ interval = TRUE /\ first = none /\ second = none /\ running = TRUE
        /\ permitted = FALSE /\ failed = FALSE /\ cut = FALSE
    BY DEF DetailInit
  <1>2. first \in Request /\ second \in Request /\ ~ first.here
    BY <1>1, RequestShapes
  <1>3. DetailShape
    <2>1. version \in Nat /\ ends \in SUBSET Nat
      BY <1>1
    <2>. QED
      BY <1>1, <1>2, <2>1 DEF DetailShape
  <1>4. FinishedStays /\ EndedByFinal /\ ShownIfPermitted
    BY <1>1 DEF FinishedStays, EndedByFinal, ShownIfPermitted
  <1>. QED
    BY <1>3, <1>4 DEF DetailInv

\* What ends the polling is polled.
LEMMA EmitPreserves ==
  ASSUME DetailInv, emit(first), permitted' = permitted,
         interval' \in BOOLEAN, ~ interval' /\ ~ failed /\ ~ cut => first.version \in ends,
         UNCHANGED <<page, version, ends, failed, cut>>
  PROVE  DetailInv'
  <1>1. /\ first' = none /\ second' = none /\ latest' = first.version
        /\ detail' = IF permitted THEN first.version ELSE detail
        /\ running' = ~ (first.version \in ends)
    BY DEF emit, dropped, final
  <1>2. first' \in Request /\ second' \in Request /\ ~ first'.here /\ running' \in BOOLEAN
    BY <1>1, RequestShapes
  <1>3. DetailShape'
    BY <1>2 DEF DetailInv, DetailShape
  <1>4. FinishedStays'
    BY DEF DetailInv, FinishedStays
  <1>5. EndedByFinal'
    BY <1>1 DEF EndedByFinal
  <1>6. ShownIfPermitted'
    BY <1>1 DEF ShownIfPermitted
  <1>. QED
    BY <1>3, <1>4, <1>5, <1>6 DEF DetailInv

LEMMA ArrivesPreserves ==
  ASSUME DetailInv, FirstArrives \/ SecondArrives
  PROVE  DetailInv'
  <1>1. /\ UNCHANGED <<page, version, ends, permitted, cut>>
        /\ first \in Request /\ second \in Request /\ interval \in BOOLEAN
        /\ page \in {"pipeline", "run"} /\ (first.here => first.served)
        /\ final(first) = (first.version \in ends)
    BY DEF FirstArrives, SecondArrives, server, DetailInv, DetailShape, final
  <1>2. FinishedStays'
    BY <1>1 DEF DetailInv, FinishedStays
  \* An answer that arrives comes before the polling has ended.
  <1>3. ASSUME FirstArrives, ~ failed, ~ cut
        PROVE  interval
    BY <1>1, <1>3, RequestShapes DEF FirstArrives, DetailInv, EndedByFinal
  <1>4. CASE FirstArrives /\ page = "run" /\ second.here
    <2>1. interval' = ~ final(first) /\ emit(first) /\ failed' = failed
      BY <1>4 DEF FirstArrives
    <2>. QED
      BY <1>1, <2>1, EmitPreserves
  <1>5. CASE FirstArrives /\ page = "run" /\ ~ second.here
    <2>1. /\ interval' = ~ final(first) /\ running' = ~ final(first)
          /\ first' = [first EXCEPT !.here = TRUE]
          /\ UNCHANGED <<second, latest, detail, failed>>
          /\ first.served
      BY <1>5 DEF FirstArrives
    <2>2. /\ first' \in Request /\ first'.here /\ first'.served = first.served
          /\ first'.version = first.version
      BY <1>1, <2>1 DEF Request
    <2>3. DetailShape'
      BY <1>1, <2>1, <2>2 DEF DetailInv, DetailShape
    <2>4. EndedByFinal'
      BY <1>1, <1>5, <2>1, <2>2 DEF EndedByFinal
    <2>5. ShownIfPermitted'
      BY <1>1, <2>1 DEF DetailInv, ShownIfPermitted
    <2>. QED
      BY <1>2, <2>3, <2>4, <2>5 DEF DetailInv
  <1>6. CASE FirstArrives /\ page = "pipeline" /\ templated
    <2>1. /\ first' = [first EXCEPT !.here = TRUE] /\ second' = sent
          /\ UNCHANGED <<interval, latest, detail, running, failed>> /\ first.served
      BY <1>6 DEF FirstArrives
    <2>2. /\ first' \in Request /\ first'.here /\ first'.served = first.served
      BY <1>1, <2>1 DEF Request
    <2>3. DetailShape'
      BY <1>1, <2>1, <2>2, RequestShapes DEF DetailInv, DetailShape
    <2>4. EndedByFinal'
      BY <1>1, <1>3, <1>6, <2>1 DEF EndedByFinal
    <2>5. ShownIfPermitted'
      BY <1>1, <2>1 DEF DetailInv, ShownIfPermitted
    <2>. QED
      BY <1>2, <2>3, <2>4, <2>5 DEF DetailInv
  <1>7. CASE FirstArrives /\ page = "pipeline" /\ ~ templated
    <2>1. /\ interval' = FALSE /\ failed' = TRUE /\ running' = FALSE
          /\ first' = none /\ second' = none /\ UNCHANGED <<latest, detail>>
      BY <1>7 DEF FirstArrives, dropped
    <2>2. DetailShape'
      BY <1>1, <2>1, RequestShapes DEF DetailInv, DetailShape
    <2>3. EndedByFinal' /\ ShownIfPermitted'
      BY <1>1, <2>1 DEF DetailInv, EndedByFinal, ShownIfPermitted
    <2>. QED
      BY <1>2, <2>2, <2>3 DEF DetailInv
  <1>8. CASE SecondArrives /\ first.here
    <2>1. /\ emit(first) /\ failed' = failed
          /\ interval' = IF page = "run" THEN interval ELSE ~ final(first)
      BY <1>8 DEF SecondArrives
    <2>2. ASSUME ~ interval', ~ failed, ~ cut
          PROVE  first.version \in ends
      <3>1. second # none
        BY <1>8, RequestShapes DEF SecondArrives
      <3>. QED
        BY <1>1, <2>1, <2>2, <3>1 DEF DetailInv, EndedByFinal
    <2>. QED
      BY <1>1, <2>1, <2>2, EmitPreserves
  <1>9. CASE SecondArrives /\ ~ first.here
    <2>1. /\ second' = [second EXCEPT !.here = TRUE] /\ second.served
          /\ UNCHANGED <<interval, first, latest, detail, running, failed>>
      BY <1>9 DEF SecondArrives
    <2>2. second' \in Request /\ second # none
      BY <1>1, <2>1, RequestShapes DEF Request
    <2>3. DetailShape'
      BY <1>1, <2>1, <2>2 DEF DetailInv, DetailShape
    <2>4. EndedByFinal'
      BY <1>1, <1>9, <2>1, <2>2 DEF DetailInv, EndedByFinal
    <2>5. ShownIfPermitted'
      BY <1>1, <2>1 DEF DetailInv, ShownIfPermitted
    <2>. QED
      BY <1>2, <2>3, <2>4, <2>5 DEF DetailInv
  <1>10. FirstArrives => page = "run" \/ page = "pipeline"
    BY DEF FirstArrives
  <1>. QED
    BY <1>4, <1>5, <1>6, <1>7, <1>8, <1>9, <1>10

\* A report that cannot be read counts as an empty one.
LEMMA ReportFailsPreserves ==
  ASSUME DetailInv, ReportFails
  PROVE  DetailInv'
  <1>1. /\ UNCHANGED <<page, version, ends, interval, permitted, failed, cut>>
        /\ second # none /\ interval \in BOOLEAN
    BY RequestShapes DEF ReportFails, server, DetailInv, DetailShape
  <1>2. CASE first.here
    <2>1. emit(first)
      BY <1>2 DEF ReportFails
    <2>2. ~ interval' /\ ~ failed /\ ~ cut => first.version \in ends
      BY <1>1 DEF DetailInv, EndedByFinal
    <2>. QED
      BY <1>1, <2>1, <2>2, EmitPreserves
  <1>3. CASE ~ first.here
    <2>1. /\ second' = [sent EXCEPT !.served = TRUE, !.here = TRUE]
          /\ running' = FALSE /\ UNCHANGED <<first, latest, detail>>
      BY <1>3 DEF ReportFails
    <2>2. second' \in Request
      BY <2>1, RequestShapes DEF Request
    <2>3. DetailShape'
      BY <1>1, <2>1, <2>2 DEF DetailInv, DetailShape
    <2>4. FinishedStays' /\ ShownIfPermitted'
      BY <1>1, <2>1 DEF DetailInv, FinishedStays, ShownIfPermitted
    <2>5. EndedByFinal'
      BY <1>1, <1>3, <2>1 DEF DetailInv, EndedByFinal
    <2>. QED
      BY <2>3, <2>4, <2>5 DEF DetailInv
  <1>. QED
    BY <1>2, <1>3

\* A run that has finished does not go on, and what was polled stays what it was.
LEMMA ChangePreserves ==
  ASSUME DetailInv, Change
  PROVE  DetailInv'
  <1>1. /\ page = "pipeline" \/ version \notin ends
        /\ version' = version + 1 /\ ends' \in {ends, ends \cup {version + 1}}
        /\ UNCHANGED <<page, interval, first, second, latest, permitted, detail, running,
                       failed, cut>>
    BY DEF Change, requests, view
  <1>2. version' \in Nat /\ ends' \in SUBSET Nat /\ ends \subseteq ends'
    BY <1>1 DEF DetailInv, DetailShape
  <1>3. DetailShape'
    BY <1>1, <1>2 DEF DetailInv, DetailShape
  <1>4. FinishedStays'
    <2>1. page = "run" => ends = {}
      BY <1>1 DEF DetailInv, FinishedStays
    <2>. QED
      BY <1>1, <2>1 DEF FinishedStays
  <1>5. EndedByFinal' /\ ShownIfPermitted'
    BY <1>1, <1>2 DEF DetailInv, EndedByFinal, ShownIfPermitted
  <1>. QED
    BY <1>3, <1>4, <1>5 DEF DetailInv

\* One case per action.
LEMMA DetailNextPreserves == DetailInv /\ [DetailNext]_detailVars => DetailInv'
  <1>. SUFFICES ASSUME DetailInv, [DetailNext]_detailVars
                PROVE  DetailInv'
    OBVIOUS
  <1>1. CASE Change
    BY <1>1, ChangePreserves
  <1>2. CASE ServeFirst
    <2>1. /\ first' = serve(first) /\ first.sent /\ ~ first.served /\ ~ first.here
          /\ UNCHANGED <<page, version, ends, interval, second, latest, permitted, detail,
                         running, failed, cut>>
      BY <1>2 DEF ServeFirst, server, view, DetailInv, DetailShape
    <2>2. first' \in Request /\ first'.served
      <3>1. first \in Request /\ version \in Int
        BY DEF DetailInv, DetailShape
      <3>. QED
        BY <2>1, <3>1 DEF serve, Request
    <2>3. DetailShape'
      BY <2>1, <2>2 DEF DetailInv, DetailShape
    <2>4. FinishedStays' /\ ShownIfPermitted'
      BY <2>1 DEF DetailInv, FinishedStays, ShownIfPermitted
    <2>5. EndedByFinal'
      BY <2>1, RequestShapes DEF DetailInv, EndedByFinal
    <2>. QED
      BY <2>3, <2>4, <2>5 DEF DetailInv
  <1>3. CASE ServeSecond
    <2>1. /\ second' = serve(second) /\ second # none
          /\ UNCHANGED <<page, version, ends, interval, first, latest, permitted, detail,
                         running, failed, cut>>
      BY <1>3, RequestShapes DEF ServeSecond, server, view
    <2>2. second' \in Request
      <3>1. second \in Request /\ version \in Int
        BY DEF DetailInv, DetailShape
      <3>. QED
        BY <2>1, <3>1 DEF serve, Request
    <2>3. DetailShape'
      BY <2>1, <2>2 DEF DetailInv, DetailShape
    <2>4. FinishedStays' /\ ShownIfPermitted'
      BY <2>1 DEF DetailInv, FinishedStays, ShownIfPermitted
    <2>5. EndedByFinal'
      BY <2>1 DEF DetailInv, EndedByFinal
    <2>. QED
      BY <2>3, <2>4, <2>5 DEF DetailInv
  <1>4. CASE Tick
    <2>1. /\ interval /\ first' = sent /\ second' \in {sent, none}
          /\ UNCHANGED <<page, version, ends, interval, latest, permitted, detail, running,
                         failed, cut>>
      BY <1>4 DEF Tick, server, view
    <2>2. DetailShape'
      BY <2>1, RequestShapes DEF DetailInv, DetailShape
    <2>3. FinishedStays' /\ EndedByFinal' /\ ShownIfPermitted'
      BY <2>1 DEF DetailInv, FinishedStays, EndedByFinal, ShownIfPermitted
    <2>. QED
      BY <2>2, <2>3 DEF DetailInv
  <1>5. CASE FirstArrives \/ SecondArrives
    BY <1>5, ArrivesPreserves
  <1>6. CASE ReportFails
    BY <1>6, ReportFailsPreserves
  \* The stream has ended.
  <1>7. CASE RequestFails \/ PermissionsFail
    <2>1. /\ failed' = TRUE /\ interval' \in BOOLEAN /\ running' \in BOOLEAN
          /\ first' = none /\ second' = none
          /\ UNCHANGED <<page, version, ends, latest, permitted, detail, cut>>
      BY <1>7 DEF RequestFails, PermissionsFail, dropped, server, view, DetailInv,
                  DetailShape
    <2>2. DetailShape'
      BY <2>1, RequestShapes DEF DetailInv, DetailShape
    <2>3. FinishedStays' /\ EndedByFinal' /\ ShownIfPermitted'
      BY <2>1 DEF DetailInv, FinishedStays, EndedByFinal, ShownIfPermitted
    <2>. QED
      BY <2>2, <2>3 DEF DetailInv
  <1>8. CASE PermissionsArrive
    <2>1. /\ permitted' = TRUE /\ detail' = IF latest = NotShown THEN detail ELSE latest
          /\ UNCHANGED <<page, version, ends, interval, first, second, latest, running,
                         failed, cut>>
      BY <1>8 DEF PermissionsArrive, server, requests
    <2>2. DetailShape'
      BY <2>1 DEF DetailInv, DetailShape
    <2>3. FinishedStays' /\ EndedByFinal' /\ ShownIfPermitted'
      BY <2>1 DEF DetailInv, FinishedStays, EndedByFinal, ShownIfPermitted
    <2>. QED
      BY <2>2, <2>3 DEF DetailInv
  <1>9. CASE Reload
    <2>1. /\ failed' = FALSE /\ cut' = ~ interval /\ first' = none /\ second' = none
          /\ latest' = NotShown /\ permitted' = FALSE
          /\ UNCHANGED <<page, version, ends, interval, detail, running>>
      BY <1>9 DEF Reload, dropped, server
    <2>2. DetailShape'
      BY <2>1, RequestShapes DEF DetailInv, DetailShape
    <2>3. FinishedStays' /\ EndedByFinal' /\ ShownIfPermitted'
      BY <2>1 DEF DetailInv, FinishedStays, EndedByFinal, ShownIfPermitted
    <2>. QED
      BY <2>2, <2>3 DEF DetailInv
  <1>10. CASE UNCHANGED detailVars
    BY <1>10 DEF detailVars, server, requests, view, DetailInv, DetailShape, FinishedStays,
                 EndedByFinal, ShownIfPermitted
  <1>. QED
    BY <1>1, <1>2, <1>3, <1>4, <1>5, <1>6, <1>7, <1>8, <1>9, <1>10 DEF DetailNext

\* For any number of changes and failures: a page that has stopped polling has polled
\* a final answer, shows it once the permissions are there, and of a run it is the last
\* one there will be (pipeline-detail.component.ts, history-detail.component.ts).
THEOREM DetailIsFinalAlways == DetailSpec => []DetailIsFinal
  <1>1. ASSUME DetailInv
        PROVE  DetailIsFinal
    <2>. SUFFICES ASSUME ~ interval, ~ failed, ~ cut, first = none
                  PROVE  /\ latest \in ends /\ ~ running
                         /\ permitted => detail = latest
                         /\ page = "run" => latest = version
      BY DEF DetailIsFinal
    <2>1. latest \in ends /\ ~ running
      BY <1>1, RequestShapes DEF DetailInv, EndedByFinal
    <2>2. latest # NotShown
      BY <1>1, <2>1 DEF DetailInv, DetailShape, NotShown
    <2>. QED
      BY <1>1, <2>1, <2>2 DEF DetailInv, FinishedStays, ShownIfPermitted
  <1>. QED
    BY <1>1, DetailInitEstablishes, DetailNextPreserves, PTL DEF DetailSpec

-----------------------------------------------------------------------------
(* The log of a container.                                                 *)

\* What is cut out of n lines, whatever the offsets: a page inside them, as long as
\* was asked for or as there are lines.  The Go code slices without a check.
THEOREM PageInLines ==
  ASSUME NEW n \in Nat \ {0}, NEW from \in Int, NEW to \in Int, from < to
  PROVE  /\ fromIndex(n, from, to) \in 0 .. n - 1
         /\ toIndex(n, from, to) \in 1 .. n
         /\ toIndex(n, from, to) - fromIndex(n, from, to) =
              IF to - from > n THEN n ELSE to - from
  BY DEF fromIndex, toIndex

\* The lines of one time are those from a to b.
Row(lines, at, a, b) ==
  /\ Len(lines) \in Nat /\ a \in Nat /\ b \in Nat /\ a <= b /\ b < Len(lines)
  /\ \A j \in Index(lines) : lines[j + 1].at = at <=> j \in a .. b

\* A line is named by its place in the row, from the end that stays.
LEMMA NameInRow ==
  ASSUME NEW lines, NEW at, NEW a, NEW b, NEW i \in a .. b, Row(lines, at, a, b)
  PROVE  /\ Last(lines).at = at => createLogLineNum(lines, i) = i - a + 1
         /\ Last(lines).at # at => createLogLineNum(lines, i) = - (b - i + 1)
  <1>0. lines[i + 1].at = at
    BY DEF Row, Index
  <1>1. /\ a \in Nat /\ b \in Nat /\ i \in Nat /\ b < Len(lines) /\ Len(lines) \in Nat
        /\ \A j \in 0 .. Len(lines) - 1 : lines[j + 1].at = at <=> j \in a .. b
    BY DEF Row, Index
  <1>2. {j \in 0 .. i : sameTime(lines, j, i)} = a .. i
    <2>1. ASSUME NEW j \in 0 .. i
          PROVE  sameTime(lines, j, i) <=> j \in a .. i
      <3>1. CASE j \in a .. i
        <4>1. \A k \in j .. i : lines[k + 1].at = at
          BY <1>1, <3>1
        <4>2. lines[j + 1].at = at
          BY <4>1, <1>1, <3>1
        <4>. QED
          BY <3>1, <4>1, <4>2 DEF sameTime
      <3>2. CASE j \notin a .. i
        <4>1. lines[j + 1].at # at
          BY <1>1, <3>2
        <4>2. i \in j .. i
          BY <1>1
        <4>. QED
          BY <1>0, <3>2, <4>1, <4>2 DEF sameTime
      <3>. QED
        BY <3>1, <3>2
    <2>. QED
      BY <2>1, <1>1
  <1>3. {j \in i .. Len(lines) - 1 : sameTime(lines, i, j)} = i .. b
    <2>1. ASSUME NEW j \in i .. Len(lines) - 1
          PROVE  sameTime(lines, i, j) <=> j \in i .. b
      <3>1. CASE j \in i .. b
        <4>1. \A k \in i .. j : lines[k + 1].at = at
          BY <1>1, <3>1
        <4>. QED
          BY <3>1, <4>1 DEF sameTime
      <3>2. CASE j \notin i .. b
        <4>1. lines[j + 1].at # at
          BY <1>1, <3>2
        <4>2. j \in i .. j
          BY <1>1
        <4>. QED
          BY <1>0, <3>2, <4>1, <4>2 DEF sameTime
      <3>. QED
        BY <3>1, <3>2
    <2>. QED
      BY <2>1, <1>1
  <1>4. Cardinality(a .. i) = i - a + 1 /\ Cardinality(i .. b) = b - i + 1
    <2>1. a \in Int /\ b \in Int /\ i \in Int /\ ~ (a > i) /\ ~ (i > b)
      BY <1>1
    <2>2. Cardinality(a .. i) = i - a + 1
      BY <2>1, FS_Interval
    <2>3. Cardinality(i .. b) = b - i + 1
      BY <2>1, FS_Interval
    <2>. QED
      BY <2>2, <2>3
  <1>. QED
    BY <1>0, <1>2, <1>3, <1>4 DEF createLogLineNum

\* The line that a place in a row names.
named(c, d, num) == IF num < 0 THEN d + 1 + num ELSE c + num - 1

LEMMA LineOfName ==
  ASSUME NEW lines, NEW at \in Nat, NEW c, NEW d, NEW num \in Int,
         Row(lines, at, c, d)
  PROVE  /\ named(c, d, num) \in c .. d => getLineIndex(lines, at, num) = named(c, d, num)
         /\ named(c, d, num) \notin c .. d => getLineIndex(lines, at, num) = LINE_INDEX_NOT_FOUND
  <1>1. /\ c \in Nat /\ d \in Nat /\ c <= d /\ d < Len(lines) /\ Len(lines) \in Nat
        /\ \A j \in 0 .. Len(lines) - 1 : lines[j + 1].at = at <=> j \in c .. d
    BY DEF Row, Index
  <1>2. at # Newest /\ at # Oldest /\ lines # <<>>
    BY <1>1 DEF Newest, Oldest
  <1>3. {i \in Index(lines) : lines[i + 1].at = at} = c .. d
    BY <1>1 DEF Index
  <1>4. Min(c .. d) = c
    <2>1. c \in c .. d /\ \A y \in c .. d : c =< y
      BY <1>1
    <2>2. \A x \in c .. d : (\A y \in c .. d : x =< y) => x = c
      BY <1>1
    <2>. QED
      BY <2>1, <2>2 DEF Min
  <1>5. {i \in c .. d : sameTime(lines, c, i)} = c .. d
    <2>1. ASSUME NEW i \in c .. d
          PROVE  sameTime(lines, c, i)
      <3>1. \A k \in c .. i : lines[k + 1].at = at
        BY <1>1
      <3>2. lines[c + 1].at = at
        BY <1>1
      <3>. QED
        BY <3>1, <3>2 DEF sameTime
    <2>. QED
      BY <2>1
  <1>6. Cardinality(c .. d) = d - c + 1
    BY <1>1, FS_Interval
  <1>. DEFINE matching == {i \in Index(lines) : lines[i + 1].at = at}
              row == {i \in matching : sameTime(lines, Min(matching), i)}
              offset == IF num < 0 THEN Cardinality(row) + num ELSE num - 1
  <1>7. getLineIndex(lines, at, num) =
          IF 0 <= offset /\ offset < Cardinality(row) THEN Min(row) + offset
          ELSE LINE_INDEX_NOT_FOUND
    BY <1>2 DEF getLineIndex
  <1>8. row = c .. d
    BY <1>3, <1>4, <1>5
  <1>9. Cardinality(row) = d - c + 1 /\ Min(row) = c
    BY <1>4, <1>6, <1>8
  <1>. HIDE DEF row, offset
  <1>10. CASE num < 0
    <2>1. named(c, d, num) = d + 1 + num /\ offset = d - c + 1 + num
      BY <1>1, <1>9, <1>10 DEF named, offset
    <2>2. (0 <= offset /\ offset < d - c + 1) <=> named(c, d, num) \in c .. d
      BY <1>1, <2>1, <1>10
    <2>3. c + offset = named(c, d, num)
      BY <1>1, <2>1
    <2>. QED
      BY <1>7, <1>9, <2>2, <2>3
  <1>11. CASE ~ (num < 0)
    <2>1. named(c, d, num) = c + num - 1 /\ offset = num - 1
      BY <1>1, <1>9, <1>11 DEF named, offset
    <2>2. (0 <= offset /\ offset < d - c + 1) <=> named(c, d, num) \in c .. d
      BY <1>1, <2>1, <1>11
    <2>3. c + offset = named(c, d, num)
      BY <1>1, <2>1
    <2>. QED
      BY <1>7, <1>9, <2>2, <2>3
  <1>. QED
    BY <1>10, <1>11

\* Comment at logs.go:121: the name of a line is immune to deletion if a line of a
\* later time had been written when it was named, for it is found where the same
\* number of lines of its time follow; and to addition if not, for it is found where
\* the same number come before.  Otherwise it is gone.
THEOREM NameKeepsLine ==
  ASSUME NEW lines, NEW after, NEW at \in Nat,
         NEW a, NEW b, NEW i \in a .. b, NEW c, NEW d,
         Row(lines, at, a, b), Row(after, at, c, d)
  PROVE  LET found == getLineIndex(after, at, createLogLineNum(lines, i))
         IN /\ Last(lines).at # at =>
                 found = IF d - (b - i) >= c THEN d - (b - i) ELSE LINE_INDEX_NOT_FOUND
            /\ Last(lines).at = at =>
                 found = IF c + (i - a) <= d THEN c + (i - a) ELSE LINE_INDEX_NOT_FOUND
  <1>1. a \in Nat /\ b \in Nat /\ c \in Nat /\ d \in Nat /\ i \in Nat
    BY DEF Row
  <1>2. /\ Last(lines).at = at => createLogLineNum(lines, i) = i - a + 1
        /\ Last(lines).at # at => createLogLineNum(lines, i) = - (b - i + 1)
    BY NameInRow, SMT
  <1>3. ASSUME NEW num \in Int
        PROVE  /\ named(c, d, num) \in c .. d =>
                    getLineIndex(after, at, num) = named(c, d, num)
               /\ named(c, d, num) \notin c .. d =>
                    getLineIndex(after, at, num) = LINE_INDEX_NOT_FOUND
    BY LineOfName, Zenon
  <1>4. /\ - (b - i + 1) \in Int /\ named(c, d, - (b - i + 1)) = d - (b - i)
        /\ i - a + 1 \in Int /\ named(c, d, i - a + 1) = c + (i - a)
    BY <1>1 DEF named
  <1>5. /\ d - (b - i) \in c .. d <=> d - (b - i) >= c
        /\ c + (i - a) \in c .. d <=> c + (i - a) <= d
    BY <1>1
  <1>6. getLineIndex(after, at, - (b - i + 1)) =
          IF d - (b - i) >= c THEN d - (b - i) ELSE LINE_INDEX_NOT_FOUND
    BY <1>3, <1>4, <1>5
  <1>7. getLineIndex(after, at, i - a + 1) =
          IF c + (i - a) <= d THEN c + (i - a) ELSE LINE_INDEX_NOT_FOUND
    BY <1>3, <1>4, <1>5
  <1>. QED
    BY <1>2, <1>6, <1>7

-----------------------------------------------------------------------------
(* Whatever the container writes and drops meanwhile, the pages of a log   *)
(* adjoin.                                                                 *)

\* What was read of a log: the lines after lo up to hi, and the beginning of the one
\* behind them if half is 1.
timeRead(log, lo, hi, i) == IF i <= hi - lo THEN log[lo + i] ELSE NoTime
reading(log, lo, hi, half) ==
  [i \in 1 .. hi - lo + half |->
     [no |-> lo + i, at |-> timeRead(log, lo, hi, i)]]

\* Where a reading of n lines, of which the first are gone, begins and ends.
lowest(n, gone, position) ==
  IF position = "beginning" \/ n - gone <= lineReadLimit THEN gone ELSE n - lineReadLimit
highest(n, gone, position) ==
  IF position # "beginning" \/ n - gone <= lineReadLimit THEN n ELSE gone + lineReadLimit

\* What has been read, now or before: neither end ever goes back.
WasRead(n, gone, position, lo, hi, half) ==
  /\ lo \in Nat /\ hi \in Nat /\ half \in {0, 1} /\ lo <= hi
  /\ lo <= lowest(n, gone, position) /\ hi <= highest(n, gone, position)
  /\ half = 1 => position = "beginning" /\ hi = lo + lineReadLimit /\ hi < n

\* The lines from f to t of a reading, and what is sent with them.
PageRead(lines, s, log, gone, lo, hi, half, f, t) ==
  /\ WasRead(Len(log), gone, s.position, lo, hi, half)
  /\ f \in Nat /\ t \in Nat /\ f < t /\ t <= hi - lo + half
  /\ lines = [i \in 1 .. t - f |-> lo + f + i]
  /\ s = newSelection(reading(log, lo, hi, half), f, t, s.position)

ErrorShown(lines, s) == lines = <<0>> /\ s = newSelection(errorText, 0, 1, s.position)

PageOf(lines, s, log, gone) ==
  \/ lines = <<>>
  \/ ErrorShown(lines, s)
  \/ \E lo, hi, f, t \in Nat, half \in {0, 1} : PageRead(lines, s, log, gone, lo, hi, half, f, t)

\* The times of the lines do not decrease.
TimedLog == {log \in Seq(Nat \ {0}) : \A i, j \in 1 .. Len(log) : i <= j => log[i] <= log[j]}

LogLine == [no : Nat, at : Nat]

HasLines(L, log, lo, hi, half) ==
  /\ L \in Seq(LogLine) /\ Len(L) = hi - lo + half /\ Len(L) \in Nat
  /\ \A i \in 1 .. hi - lo + half :
       /\ L[i].no = lo + i
       /\ L[i].at = timeRead(log, lo, hi, i)
       /\ L[i].at \in Nat
       /\ i <= hi - lo => L[i].at > 0

LEMMA ReadingShape ==
  ASSUME NEW log \in TimedLog, NEW lo \in Nat, NEW hi \in Nat, NEW half \in {0, 1},
         lo <= hi, hi <= Len(log)
  PROVE  HasLines(reading(log, lo, hi, half), log, lo, hi, half)
  <1>. DEFINE n == hi - lo + half
              L == reading(log, lo, hi, half)
  <1>1. n \in Nat
    OBVIOUS
  <1>2. L = [i \in 1 .. n |-> [no |-> lo + i, at |-> timeRead(log, lo, hi, i)]]
    BY DEF reading
  <1>. HIDE DEF L
  <1>3. ASSUME NEW i \in 1 .. n
        PROVE  /\ L[i] = [no |-> lo + i, at |-> timeRead(log, lo, hi, i)]
               /\ L[i].no = lo + i
               /\ L[i].at = timeRead(log, lo, hi, i)
    <2>. HIDE DEF n
    <2>. QED
      BY <1>2
  <1>4. \A i \in 1 .. hi - lo : lo + i \in 1 .. Len(log) /\ log[lo + i] \in Nat \ {0}
    <2>1. log \in Seq(Nat \ {0})
      BY DEF TimedLog
    <2>2. \A i \in 1 .. hi - lo : lo + i \in 1 .. Len(log)
      BY <2>1
    <2>. QED
      BY <2>1, <2>2
  <1>5. ASSUME NEW i \in 1 .. n
        PROVE  L[i].at \in Nat /\ (i <= hi - lo => L[i].at > 0)
    <2>1. CASE i <= hi - lo
      <3>1. i \in 1 .. hi - lo
        BY <2>1
      <3>2. L[i].at = log[lo + i]
        BY <1>3, <2>1 DEF timeRead
      <3>3. log[lo + i] \in Nat \ {0}
        BY <1>4, <3>1
      <3>. QED
        BY <3>2, <3>3
    <2>2. CASE ~ (i <= hi - lo)
      <3>1. L[i].at = NoTime
        BY <1>3, <2>2 DEF timeRead
      <3>. QED
        BY <2>2, <3>1 DEF NoTime
    <2>. QED
      BY <2>1, <2>2
  <1>6. ASSUME NEW i \in 1 .. n
        PROVE  L[i] \in LogLine
    <2>1. L[i] = [no |-> lo + i, at |-> L[i].at] /\ lo + i \in Nat
      <3>1. i \in Nat
        BY <1>1
      <3>2. L[i] = [no |-> lo + i, at |-> timeRead(log, lo, hi, i)]
        BY <1>3
      <3>. QED
        BY <3>1, <3>2
    <2>. QED
      BY <1>5, <2>1 DEF LogLine
  <1>7. L \in Seq(LogLine) /\ Len(L) = n
    <2>. HIDE DEF n
    <2>1. L \in [1 .. n -> LogLine]
      BY <1>2, <1>6
    <2>. QED
      BY <1>1, <2>1
  <1>8. \A i \in 1 .. n :
          /\ L[i].no = lo + i
          /\ L[i].at = timeRead(log, lo, hi, i)
          /\ L[i].at \in Nat
          /\ i <= hi - lo => L[i].at > 0
    BY <1>3, <1>5
  <1>. QED
    BY <1>1, <1>7, <1>8, Zenon DEF L, HasLines

\* A sequence with these lines is that reading.
LEMMA SameReading ==
  ASSUME NEW log \in TimedLog, NEW lo \in Nat, NEW hi \in Nat, NEW half \in {0, 1},
         lo <= hi, hi <= Len(log),
         NEW s \in Seq(LogLine), Len(s) = hi - lo + half,
         \A i \in 1 .. hi - lo + half :
           s[i].no = lo + i /\ s[i].at = timeRead(log, lo, hi, i)
  PROVE  s = reading(log, lo, hi, half)
  <1>. DEFINE L == reading(log, lo, hi, half)
  <1>1. /\ L \in Seq(LogLine) /\ Len(L) = hi - lo + half /\ Len(L) \in Nat
        /\ \A i \in 1 .. hi - lo + half :
             /\ L[i].no = lo + i
             /\ L[i].at = timeRead(log, lo, hi, i)
             /\ L[i].at \in Nat
             /\ i <= hi - lo => L[i].at > 0
    BY ReadingShape DEF HasLines
  <1>2. \A i \in 1 .. hi - lo + half : s[i].no = L[i].no /\ s[i].at = L[i].at
    <2>1. ASSUME NEW i \in 1 .. hi - lo + half
          PROVE  L[i].no = lo + i /\ L[i].at = timeRead(log, lo, hi, i)
      BY <1>1, Zenon
    <2>. QED
      BY <2>1, Zenon
  <1>. HIDE DEF L
  <1>3. \A i \in 1 .. Len(s) : s[i] \in LogLine /\ L[i] \in LogLine
    BY <1>1
  <1>4. ASSUME NEW i \in 1 .. Len(s)
        PROVE  s[i] = L[i]
    <2>1. s[i].no = L[i].no /\ s[i].at = L[i].at
      BY <1>2
    <2>2. s[i] = [no |-> s[i].no, at |-> s[i].at] /\ L[i] = [no |-> L[i].no, at |-> L[i].at]
      BY <1>3 DEF LogLine
    <2>. QED
      BY <2>1, <2>2, Zenon
  <1>5. s = L
    BY <1>1, <1>4, SeqEqual
  <1>. QED
    BY <1>5 DEF L

\* A log that is longer and begins later keeps what was read of it.
LEMMA PageStays ==
  ASSUME NEW log \in TimedLog, NEW longer \in TimedLog, NEW gone \in 0 .. Len(log),
         NEW now \in 0 .. Len(longer), gone <= now, Len(log) <= Len(longer),
         \A i \in 1 .. Len(log) : longer[i] = log[i],
         NEW lines, NEW s, PageOf(lines, s, log, gone)
  PROVE  PageOf(lines, s, longer, now)
  <1>1. Len(log) \in Nat /\ Len(longer) \in Nat
    BY DEF TimedLog
  <1>2. lineReadLimit \in Nat
    BY ContainerLogAssumption
  <1>3. ASSUME NEW lo \in Nat, NEW hi \in Nat, NEW f \in Nat, NEW t \in Nat, NEW half \in {0, 1},
               PageRead(lines, s, log, gone, lo, hi, half, f, t)
        PROVE  PageRead(lines, s, longer, now, lo, hi, half, f, t)
    <2>1. WasRead(Len(log), gone, s.position, lo, hi, half)
      BY <1>3 DEF PageRead
    <2>2. WasRead(Len(longer), now, s.position, lo, hi, half) /\ hi <= Len(log)
      BY <1>1, <1>2, <2>1 DEF WasRead, lowest, highest
    <2>3. reading(longer, lo, hi, half) = reading(log, lo, hi, half)
      <3>1. \A i \in 1 .. hi - lo + half : i <= hi - lo => longer[lo + i] = log[lo + i]
        BY <1>1, <2>2
      <3>. QED
        BY <3>1 DEF reading, timeRead
    <2>. QED
      BY <1>3, <2>2, <2>3 DEF PageRead
  <1>. QED
    BY <1>3 DEF PageOf

\* What readRawLogs reads.
LEMMA ReadNow ==
  ASSUME NEW c, times[c] \in TimedLog, rotated[c] \in 0 .. Len(times[c]),
         NEW position, NEW L \in readRawLogs(c, position)
  PROVE  \E lo, hi \in Nat, half \in {0, 1} :
           /\ L = reading(times[c], lo, hi, half)
           /\ lo = lowest(Len(times[c]), rotated[c], position)
           /\ hi = highest(Len(times[c]), rotated[c], position)
           /\ WasRead(Len(times[c]), rotated[c], position, lo, hi, half)
  <1>. DEFINE n == Len(times[c])
              gone == rotated[c]
              log == times[c]
              all == kept(c)
  <1>1. n \in Nat /\ gone \in Nat /\ gone <= n /\ log \in TimedLog /\ n <= Len(log)
    BY DEF TimedLog
  <1>2. lineReadLimit \in Nat /\ lineReadLimit > 1
    BY ContainerLogAssumption
  <1>3. all = reading(log, gone, n, 0)
    <2>1. \A i \in 1 .. n - gone + 0 : i <= n - gone
      BY <1>1
    <2>2. n - gone + 0 = n - gone
      BY <1>1
    <2>. QED
      BY <2>1, <2>2 DEF reading, timeRead, kept
  <1>. HIDE DEF all, n, gone, log
  <1>4. /\ all \in Seq(LogLine) /\ Len(all) = n - gone
        /\ \A i \in 1 .. n - gone : all[i].no = gone + i /\ all[i].at = log[gone + i]
    <2>1. /\ all \in Seq(LogLine) /\ Len(all) = n - gone + 0
          /\ \A i \in 1 .. n - gone + 0 :
               all[i].no = gone + i /\ all[i].at = timeRead(log, gone, n, i)
      <3>1. HasLines(reading(log, gone, n, 0), log, gone, n, 0)
        BY <1>1, ReadingShape
      <3>2. HasLines(all, log, gone, n, 0)
        BY <1>3, <3>1
      <3>. QED
        BY <3>2 DEF HasLines
    <2>2. n - gone + 0 = n - gone /\ \A i \in 1 .. n - gone : i <= n - gone
      BY <1>1
    <2>. QED
      BY <2>1, <2>2 DEF timeRead
  <1>5. CASE n - gone <= lineReadLimit
    <2>1. L = all
      BY <1>4, <1>5 DEF readRawLogs, all
    <2>2. lowest(n, gone, position) = gone /\ highest(n, gone, position) = n
      BY <1>5 DEF lowest, highest
    <2>3. WasRead(n, gone, position, gone, n, 0)
      BY <1>1, <2>2 DEF WasRead
    <2>. QED
      BY <1>1, <1>3, <2>1, <2>2, <2>3 DEF n, gone, log
  <1>6. CASE ~ (n - gone <= lineReadLimit) /\ position # "beginning"
    <2>. DEFINE lo == n - lineReadLimit
                m == n - gone - lineReadLimit + 1
                tail == SubSeq(all, m, n - gone)
    <2>1. lo \in Nat /\ gone < lo /\ lo <= n
      BY <1>1, <1>2, <1>6
    <2>2. L = tail
      BY <1>4, <1>6 DEF readRawLogs, all
    <2>3. /\ tail \in Seq(LogLine) /\ Len(tail) = lineReadLimit
          /\ \A i \in 1 .. lineReadLimit : tail[i] = all[m + i - 1]
      <3>1. m \in Int /\ n - gone \in Int /\ \A i \in m .. n - gone : i \in 1 .. n - gone
        BY <1>1, <1>2, <1>6
      <3>2. \A i \in m .. n - gone : all[i] \in LogLine
        BY <1>4, <3>1
      <3>3. (n - gone) - m + 1 = lineReadLimit /\ m <= n - gone
        BY <1>1, <1>2
      <3>. HIDE DEF m
      <3>. QED
        BY <3>1, <3>2, <3>3, SubSeqProperties
    <2>4. \A i \in 1 .. lineReadLimit :
            /\ m + i - 1 \in 1 .. n - gone /\ gone + (m + i - 1) = lo + i
            /\ i <= n - lo
      BY <1>1, <1>2, <2>1
    <2>5. n - lo + 0 = lineReadLimit
      BY <1>1, <1>2
    <2>6. \A i \in 1 .. n - lo + 0 :
            tail[i].no = lo + i /\ tail[i].at = timeRead(log, lo, n, i)
      <3>. HIDE DEF tail, m, lo
      <3>. QED
        BY <1>4, <2>3, <2>4, <2>5 DEF timeRead
    <2>7. tail = reading(log, lo, n, 0)
      <3>. HIDE DEF tail, lo
      <3>1. tail \in Seq(LogLine) /\ Len(tail) = n - lo + 0
        BY <2>3, <2>5
      <3>. QED
        BY <1>1, <2>1, <2>6, <3>1, SameReading
    <2>8. lowest(n, gone, position) = lo /\ highest(n, gone, position) = n
      BY <1>6 DEF lowest, highest
    <2>9. WasRead(n, gone, position, lo, n, 0)
      BY <1>1, <2>1, <2>8 DEF WasRead
    <2>. HIDE DEF tail, lo
    <2>. QED
      BY <1>1, <2>1, <2>2, <2>7, <2>8, <2>9 DEF n, gone, log
  <1>7. CASE ~ (n - gone <= lineReadLimit) /\ position = "beginning"
    <2>. DEFINE head == SubSeq(all, 1, lineReadLimit)
                hi == gone + lineReadLimit
                part == [all[lineReadLimit + 1] EXCEPT !.at = NoTime]
                long == Append(head, part)
    <2>1. hi \in Nat /\ hi < n /\ gone <= hi /\ lineReadLimit + 1 \in 1 .. n - gone
      BY <1>1, <1>2, <1>7
    <2>2. L = head \/ L = long
      BY <1>4, <1>7 DEF readRawLogs, all
    <2>3. /\ head \in Seq(LogLine) /\ Len(head) = lineReadLimit
          /\ \A i \in 1 .. lineReadLimit : head[i] = all[i]
      <3>1. \A i \in 1 .. lineReadLimit : all[i] \in LogLine
        BY <1>1, <1>2, <1>4, <2>1
      <3>2. /\ SubSeq(all, 1, lineReadLimit) \in Seq(LogLine)
            /\ Len(SubSeq(all, 1, lineReadLimit)) = lineReadLimit - 1 + 1
            /\ \A i \in 1 .. lineReadLimit - 1 + 1 :
                 SubSeq(all, 1, lineReadLimit)[i] = all[1 + i - 1]
        BY <1>2, <3>1, SubSeqProperties
      <3>3. lineReadLimit - 1 + 1 = lineReadLimit /\ \A i \in 1 .. lineReadLimit : 1 + i - 1 = i
        BY <1>2
      <3>. QED
        BY <3>2, <3>3
    <2>4. hi - gone = lineReadLimit
      BY <1>1, <1>2
    <2>5. part \in LogLine /\ part.no = gone + (lineReadLimit + 1) /\ part.at = NoTime
      <3>1. all[lineReadLimit + 1] \in LogLine /\ all[lineReadLimit + 1].no = gone + (lineReadLimit + 1)
        BY <1>4, <2>1
      <3>. QED
        BY <3>1 DEF LogLine, NoTime
    <2>. HIDE DEF head, part
    <2>6. head = reading(log, gone, hi, 0)
      <3>1. \A i \in 1 .. lineReadLimit : i \in 1 .. n - gone
        BY <1>1, <1>2, <2>1
      <3>2. \A i \in 1 .. lineReadLimit : head[i].no = gone + i /\ head[i].at = log[gone + i]
        BY <1>4, <2>3, <3>1
      <3>3. hi - gone + 0 = lineReadLimit /\ hi <= Len(log) /\ hi \in Nat
        BY <1>1, <1>2, <2>1, <2>4 DEF n, log
      <3>4. \A i \in 1 .. hi - gone + 0 :
              head[i].no = gone + i /\ head[i].at = timeRead(log, gone, hi, i)
        BY <1>2, <2>4, <3>2, <3>3 DEF timeRead
      <3>5. Len(head) = hi - gone + 0 /\ gone <= hi
        BY <2>1, <2>3, <3>3
      <3>. HIDE DEF hi
      <3>. QED
        BY <1>1, <2>3, <3>3, <3>4, <3>5, SameReading
    <2>7. long = reading(log, gone, hi, 1)
      <3>1. \A i \in 1 .. lineReadLimit : i \in 1 .. n - gone
        BY <1>1, <1>2, <2>1
      <3>2. /\ long \in Seq(LogLine) /\ Len(long) = lineReadLimit + 1
            /\ \A i \in 1 .. lineReadLimit : long[i] = head[i]
            /\ long[lineReadLimit + 1] = part
        BY <2>3, <2>5, AppendProperties
      <3>. HIDE DEF long
      <3>3. \A i \in 1 .. lineReadLimit + 1 :
              long[i].no = gone + i /\ long[i].at = timeRead(log, gone, hi, i)
        <4>1. \A i \in 1 .. lineReadLimit + 1 :
                IF i <= lineReadLimit THEN i \in 1 .. lineReadLimit ELSE i = lineReadLimit + 1
          BY <1>2
        <4>. QED
          BY <1>2, <1>4, <2>3, <2>4, <2>5, <3>1, <3>2, <4>1 DEF timeRead
      <3>4. hi - gone + 1 = lineReadLimit + 1 /\ hi <= Len(log) /\ hi \in Nat
        BY <1>1, <1>2, <2>1, <2>4 DEF n, log
      <3>. HIDE DEF hi
      <3>. QED
        BY <1>1, <2>1, <2>4, <3>2, <3>3, <3>4, SameReading
    <2>8. lowest(n, gone, position) = gone /\ highest(n, gone, position) = hi
      BY <1>7 DEF lowest, highest
    <2>9. \A half \in {0, 1} : WasRead(n, gone, position, gone, hi, half)
      BY <1>1, <1>2, <1>7, <2>1, <2>8 DEF WasRead
    <2>. HIDE DEF long, hi
    <2>. QED
      BY <1>1, <2>1, <2>2, <2>6, <2>7, <2>8, <2>9 DEF n, gone, log
  <1>. QED
    BY <1>5, <1>6, <1>7

\* The numbers in the answer are numbers.
LEMMA IndicesFinite ==
  ASSUME NEW lines, Len(lines) \in Nat
  PROVE  /\ Index(lines) \subseteq Nat
         /\ \A S \in SUBSET Index(lines) : IsFiniteSet(S) /\ Cardinality(S) \in Nat
  <1>1. IsFiniteSet(Index(lines)) /\ Index(lines) \subseteq Nat
    <2>1. 0 \in Int /\ Len(lines) - 1 \in Int /\ Index(lines) = 0 .. Len(lines) - 1
      BY DEF Index
    <2>. QED
      BY <2>1, FS_Interval
  <1>2. \A S \in SUBSET Index(lines) : IsFiniteSet(S) /\ Cardinality(S) \in Nat
    BY <1>1, FS_Subset, FS_CardinalityType
  <1>. QED
    BY <1>1, <1>2

LEMMA NameIsNumber ==
  ASSUME NEW lines, Len(lines) \in Nat, NEW i \in Index(lines)
  PROVE  createLogLineNum(lines, i) \in Int
  <1>1. Index(lines) \subseteq Nat /\ i \in Nat
    BY IndicesFinite
  <1>2. \A S \in SUBSET Index(lines) : IsFiniteSet(S) /\ Cardinality(S) \in Nat
    BY IndicesFinite
  <1>. DEFINE before == {j \in 0 .. i : sameTime(lines, j, i)}
              after == {j \in i .. Len(lines) - 1 : sameTime(lines, i, j)}
  <1>3. before \in SUBSET Index(lines) /\ after \in SUBSET Index(lines)
    BY <1>1 DEF Index
  <1>4. Cardinality(before) \in Nat /\ Cardinality(after) \in Nat
    BY <1>2, <1>3
  <1>5. createLogLineNum(lines, i) \in {Cardinality(before), - Cardinality(after)}
    BY Zenon DEF createLogLineNum
  <1>. HIDE DEF before, after
  <1>. QED
    BY <1>4, <1>5

LEMMA IndexIsNumber ==
  ASSUME NEW lines, Len(lines) \in Nat, NEW at \in Int, NEW num \in Int
  PROVE  getLineIndex(lines, at, num) \in Int
  <1>1. Index(lines) \subseteq Nat
    BY IndicesFinite
  <1>2. \A S \in SUBSET Index(lines) : IsFiniteSet(S) /\ Cardinality(S) \in Nat
    BY IndicesFinite
  <1>. DEFINE matching == {k \in Index(lines) : lines[k + 1].at = at}
              row == {k \in matching : sameTime(lines, Min(matching), k)}
              offset == IF num < 0 THEN Cardinality(row) + num ELSE num - 1
  <1>3. row \in SUBSET Index(lines)
    OBVIOUS
  <1>. HIDE DEF row
  <1>4. Cardinality(row) \in Nat /\ offset \in Int
    BY <1>2, <1>3
  <1>5. getLineIndex(lines, at, num) \in
          {Len(lines) - 1, 0, LINE_INDEX_NOT_FOUND} \cup
          {k \in {Min(row) + offset} : 0 <= offset /\ offset < Cardinality(row)}
    BY DEF getLineIndex, row
  <1>. HIDE DEF offset
  <1>6. ASSUME 0 <= offset, offset < Cardinality(row)
        PROVE  Min(row) \in Nat
    <2>1. row # {}
      <3>1. Cardinality(row) > 0 /\ Cardinality({}) = 0
        BY <1>4, <1>6, FS_EmptySet
      <3>. QED
        BY <3>1
    <2>2. PICK k \in row : \A l \in row : k <= l
      BY <1>1, <1>3, <2>1, LeastNatural
    <2>3. Min(row) \in row
      BY <2>2 DEF Min
    <2>. QED
      BY <1>1, <1>3, <2>3
  <1>. QED
    BY <1>4, <1>5, <1>6 DEF LINE_INDEX_NOT_FOUND

\* The lines of a time of which there is none are not found.
LEMMA Missing ==
  ASSUME NEW lines, lines # <<>>, NEW at \in Nat, NEW num \in Int,
         \A i \in Index(lines) : lines[i + 1].at # at
  PROVE  getLineIndex(lines, at, num) = LINE_INDEX_NOT_FOUND
  <1>. DEFINE matching == {k \in Index(lines) : lines[k + 1].at = at}
              row == {k \in matching : sameTime(lines, Min(matching), k)}
              offset == IF num < 0 THEN Cardinality(row) + num ELSE num - 1
  <1>1. row = {} /\ Cardinality(row) = 0
    BY FS_EmptySet
  <1>2. at # Newest /\ at # Oldest
    BY DEF Newest, Oldest
  <1>3. getLineIndex(lines, at, num) =
          IF 0 <= offset /\ offset < Cardinality(row) THEN Min(row) + offset
          ELSE LINE_INDEX_NOT_FOUND
    BY <1>2 DEF getLineIndex
  <1>. HIDE DEF row
  <1>. QED
    BY <1>1, <1>3

\* Since times do not decrease, the lines of one time stand in a row.
LEMMA RowOf ==
  ASSUME NEW log \in TimedLog, NEW lo \in Nat, NEW hi \in Nat, NEW half \in {0, 1},
         lo <= hi, hi <= Len(log), NEW j \in 0 .. hi - lo - 1
  PROVE  \E a, b \in 0 .. hi - lo - 1 :
           j \in a .. b /\ Row(reading(log, lo, hi, half), log[lo + j + 1], a, b)
  <1>. DEFINE L == reading(log, lo, hi, half)
              at == log[lo + j + 1]
              T == {i \in Nat : i < hi - lo /\ log[lo + i + 1] = at}
              U == {i \in Nat : i < hi - lo /\ log[hi - i] = at}
  <1>1. /\ L \in Seq(LogLine) /\ Len(L) = hi - lo + half /\ Len(L) \in Nat
        /\ \A i \in 1 .. hi - lo + half :
             /\ L[i].no = lo + i
             /\ L[i].at = timeRead(log, lo, hi, i)
             /\ L[i].at \in Nat
             /\ i <= hi - lo => L[i].at > 0
    BY ReadingShape DEF HasLines
  <1>2. /\ Len(log) \in Nat /\ \A i \in 1 .. Len(log) : log[i] \in Nat \ {0}
        /\ \A i, k \in 1 .. Len(log) : i <= k => log[i] <= log[k]
    BY DEF TimedLog
  <1>3. at \in Nat \ {0}
    BY <1>2
  <1>4. j \in T /\ hi - lo - 1 - j \in U
    <2>1. hi - (hi - lo - 1 - j) = lo + j + 1
      OBVIOUS
    <2>. QED
      BY <2>1
  <1>5. PICK a \in T : \A i \in T : a <= i
    <2>1. T \in SUBSET Nat /\ T # {}
      BY <1>4
    <2>. HIDE DEF T
    <2>. QED
      BY <2>1, LeastNatural
  <1>6. PICK u \in U : \A i \in U : u <= i
    <2>1. U \in SUBSET Nat /\ U # {}
      BY <1>4
    <2>. HIDE DEF U
    <2>. QED
      BY <2>1, LeastNatural
  <1>. DEFINE b == hi - lo - 1 - u
  <1>7. /\ a \in 0 .. hi - lo - 1 /\ log[lo + a + 1] = at /\ a <= j
        /\ u \in 0 .. hi - lo - 1 /\ log[hi - u] = at /\ u <= hi - lo - 1 - j
    <2>1. a <= j /\ u <= hi - lo - 1 - j
      <3>. HIDE DEF T, U
      <3>. QED
        BY <1>4, <1>5, <1>6
    <2>2. a \in Nat /\ a < hi - lo /\ u \in Nat /\ u < hi - lo
      OBVIOUS
    <2>3. log[lo + a + 1] = at /\ log[hi - u] = at
      <3>. HIDE DEF at
      <3>. QED
        OBVIOUS
    <2>. QED
      BY <2>1, <2>2, <2>3
  <1>8. b \in 0 .. hi - lo - 1 /\ j <= b /\ lo + b + 1 = hi - u /\ hi - u \in 1 .. Len(log)
    <2>1. u \in 0 .. hi - lo - 1 /\ u <= hi - lo - 1 - j
      BY <1>7
    <2>2. hi \in Nat /\ lo \in Nat /\ hi <= Len(log) /\ Len(log) \in Nat /\ j \in 0 .. hi - lo - 1
      BY <1>2
    <2>. HIDE DEF T, U
    <2>. QED
      BY <2>1, <2>2
  <1>9. ASSUME NEW i \in 0 .. hi - lo - 1
        PROVE  log[lo + i + 1] = at <=> i \in a .. b
    <2>1. /\ lo + i + 1 \in 1 .. Len(log) /\ lo + a + 1 \in 1 .. Len(log)
          /\ lo + b + 1 \in 1 .. Len(log)
      BY <1>2, <1>7, <1>8
    <2>2. CASE log[lo + i + 1] = at
      <3>1. hi - (hi - lo - 1 - i) = lo + i + 1 /\ hi - lo - 1 - i \in Nat
        OBVIOUS
      <3>2. i \in T /\ hi - lo - 1 - i \in U
        BY <2>2, <3>1
      <3>. HIDE DEF T, U
      <3>3. a <= i /\ u <= hi - lo - 1 - i
        BY <1>5, <1>6, <3>2
      <3>. QED
        BY <1>7, <2>2, <3>3
    <2>3. CASE i \in a .. b
      <3>1. log[lo + a + 1] <= log[lo + i + 1] /\ log[lo + i + 1] <= log[lo + b + 1]
        BY <1>2, <1>7, <1>8, <2>1, <2>3
      <3>2. log[lo + a + 1] = at /\ log[lo + b + 1] = at /\ log[lo + i + 1] \in Nat
        BY <1>2, <1>7, <1>8, <2>1
      <3>. HIDE DEF at
      <3>. QED
        BY <1>3, <2>3, <3>1, <3>2
    <2>. QED
      BY <2>2, <2>3
  <1>10. ASSUME NEW i \in Index(L)
         PROVE  L[i + 1].at = at <=> i \in a .. b
    <2>1. i + 1 \in 1 .. hi - lo + half
      BY <1>1 DEF Index
    <2>. HIDE DEF L, at, b, T, U
    <2>2. L[i + 1].at = timeRead(log, lo, hi, i + 1) /\ i \in Nat
      BY <1>1, <2>1 DEF Index
    <2>3. CASE i < hi - lo
      <3>1. L[i + 1].at = log[lo + (i + 1)]
        BY <2>2, <2>3 DEF timeRead
      <3>2. i \in 0 .. hi - lo - 1 /\ lo + (i + 1) = lo + i + 1
        BY <2>2, <2>3
      <3>. QED
        BY <1>9, <3>1, <3>2
    <2>4. CASE ~ (i < hi - lo)
      <3>1. L[i + 1].at = 0
        BY <2>2, <2>4 DEF timeRead, NoTime
      <3>2. i > b
        BY <1>8, <2>2, <2>4
      <3>. QED
        BY <1>3, <1>7, <1>8, <2>2, <3>1, <3>2
    <2>. QED
      BY <2>3, <2>4
  <1>. HIDE DEF L, at, b, T, U
  <1>11. Row(L, at, a, b)
    <2>1. Len(L) \in Nat /\ a \in Nat /\ b \in Nat /\ a <= b /\ b < Len(L)
      BY <1>1, <1>7, <1>8
    <2>. QED
      BY <1>10, <2>1 DEF Row
  <1>. QED
    BY <1>7, <1>8, <1>11 DEF L, at

\* Comment at logs.go:121, for readings of one log: the line that was named is found
\* where it is now, or not at all, if a line of a later time was read with it or the
\* readings begin with the same line.
LEMMA FoundAgain ==
  ASSUME NEW log \in TimedLog,
         NEW lo \in Nat, NEW hi \in Nat, NEW half \in {0, 1}, lo <= hi, hi <= Len(log),
         NEW lo2 \in Nat, NEW hi2 \in Nat, NEW half2 \in {0, 1}, lo2 <= hi2, hi2 <= Len(log),
         lo <= lo2, hi <= hi2, lo2 = lo /\ half = 1 => hi2 = hi,
         NEW i \in 0 .. hi - lo - 1,
         \/ lo2 = lo
         \/ \E j \in 1 .. hi - lo + half : reading(log, lo, hi, half)[j].at > log[lo + i + 1]
  PROVE  getLineIndex(reading(log, lo2, hi2, half2), log[lo + i + 1],
                      createLogLineNum(reading(log, lo, hi, half), i))
           \in {lo + i - lo2, LINE_INDEX_NOT_FOUND}
  <1>. DEFINE L == reading(log, lo, hi, half)
              M == reading(log, lo2, hi2, half2)
              at == log[lo + i + 1]
              num == createLogLineNum(L, i)
  <1>1. /\ L \in Seq(LogLine) /\ Len(L) = hi - lo + half /\ Len(L) \in Nat
        /\ \A j \in 1 .. hi - lo + half :
             /\ L[j].no = lo + j
             /\ L[j].at = timeRead(log, lo, hi, j)
             /\ L[j].at \in Nat
             /\ j <= hi - lo => L[j].at > 0
    BY ReadingShape DEF HasLines
  <1>2. /\ M \in Seq(LogLine) /\ Len(M) = hi2 - lo2 + half2 /\ Len(M) \in Nat
        /\ \A j \in 1 .. hi2 - lo2 + half2 :
             /\ M[j].no = lo2 + j
             /\ M[j].at = timeRead(log, lo2, hi2, j)
             /\ M[j].at \in Nat
             /\ j <= hi2 - lo2 => M[j].at > 0
    <2>1. HasLines(M, log, lo2, hi2, half2)
      BY ReadingShape
    <2>. HIDE DEF M
    <2>. QED
      BY <2>1 DEF HasLines
  <1>3. /\ Len(log) \in Nat /\ \A j \in 1 .. Len(log) : log[j] \in Nat \ {0}
        /\ \A j, k \in 1 .. Len(log) : j <= k => log[j] <= log[k]
    BY DEF TimedLog
  <1>4. at \in Nat \ {0} /\ lo + i + 1 \in 1 .. Len(log) /\ lo + i + 1 <= hi
    <2>1. lo + i + 1 \in 1 .. Len(log) /\ lo + i + 1 <= hi
      BY <1>3
    <2>. QED
      BY <1>3, <2>1
  <1>5. PICK a \in 0 .. hi - lo - 1, b \in 0 .. hi - lo - 1 : i \in a .. b /\ Row(L, at, a, b)
    BY RowOf
  <1>6. num \in Int
    <2>1. i \in Index(L)
      BY <1>1 DEF Index
    <2>. QED
      BY <1>1, <2>1, NameIsNumber
  <1>7. \/ lo2 = lo
        \/ \E j \in 1 .. hi - lo + half : L[j].at > at
    OBVIOUS
  <1>. SUFFICES getLineIndex(M, at, num) \in {lo + i - lo2, LINE_INDEX_NOT_FOUND}
    OBVIOUS
  <1>. HIDE DEF L, M, at
  <1>8. \A j \in 0 .. hi - lo - 1 : log[lo + j + 1] = at <=> j \in a .. b
    <2>1. ASSUME NEW j \in 0 .. hi - lo - 1
          PROVE  L[j + 1].at = log[lo + j + 1] /\ j \in Index(L)
      <3>1. j + 1 \in 1 .. hi - lo + half /\ j + 1 <= hi - lo /\ lo + (j + 1) = lo + j + 1
        OBVIOUS
      <3>2. L[j + 1].at = timeRead(log, lo, hi, j + 1)
        BY <1>1, <3>1
      <3>3. j \in Index(L)
        BY <1>1 DEF Index
      <3>. QED
        BY <3>1, <3>2, <3>3 DEF timeRead
    <2>. QED
      BY <1>5, <2>1 DEF Row
  <1>9. L[hi - lo + half].at = IF half = 1 THEN 0 ELSE log[hi]
    <2>1. hi - lo + half \in 1 .. hi - lo + half
      OBVIOUS
    <2>2. L[hi - lo + half].at = timeRead(log, lo, hi, hi - lo + half)
      BY <1>1, <2>1
    <2>3. CASE half = 1
      BY <2>2, <2>3 DEF timeRead, NoTime
    <2>4. CASE half = 0
      <3>1. hi - lo + half <= hi - lo /\ lo + (hi - lo + half) = hi
        BY <2>4
      <3>. QED
        BY <2>2, <2>4, <3>1 DEF timeRead
    <2>. QED
      BY <2>3, <2>4
  <1>10. /\ Last(L).at = at => num = i - a + 1
         /\ Last(L).at # at => num = - (b - i + 1)
    <2>1. i \in a .. b /\ Row(L, at, a, b)
      BY <1>5
    <2>2. ASSUME NEW x, NEW y, i \in x .. y, Row(L, at, x, y)
          PROVE  /\ Last(L).at = at => createLogLineNum(L, i) = i - x + 1
                 /\ Last(L).at # at => createLogLineNum(L, i) = - (y - i + 1)
      BY <2>2, NameInRow, SMT
    <2>. HIDE DEF num
    <2>3. /\ Last(L).at = at => createLogLineNum(L, i) = i - a + 1
          /\ Last(L).at # at => createLogLineNum(L, i) = - (b - i + 1)
      BY <2>1, <2>2, Zenon
    <2>. QED
      BY <2>3 DEF num
  <1>12. Last(L) = L[hi - lo + half]
    BY <1>1 DEF Last
  <1>. HIDE DEF num
  <1>13. CASE \A j \in Index(M) : M[j + 1].at # at
    <2>1. CASE M = <<>>
      BY <1>2, <2>1 DEF getLineIndex, LINE_INDEX_NOT_FOUND
    <2>2. CASE M # <<>>
      BY <1>4, <1>6, <1>13, <2>2, Missing
    <2>. QED
      BY <2>1, <2>2
  <1>14. CASE \E j \in Index(M) : M[j + 1].at = at
    <2>1. PICK k \in 0 .. hi2 - lo2 - 1 : log[lo2 + k + 1] = at
      <3>1. PICK j \in Index(M) : M[j + 1].at = at
        BY <1>14
      <3>2. j \in Nat /\ j + 1 \in 1 .. hi2 - lo2 + half2
        BY <1>2 DEF Index
      <3>3. timeRead(log, lo2, hi2, j + 1) = at
        BY <1>2, <3>1, <3>2
      <3>4. j + 1 <= hi2 - lo2
        BY <1>4, <3>3 DEF timeRead, NoTime
      <3>5. log[lo2 + (j + 1)] = at
        BY <3>3, <3>4 DEF timeRead
      <3>6. lo2 + (j + 1) = lo2 + j + 1 /\ j \in 0 .. hi2 - lo2 - 1
        BY <3>2, <3>4
      <3>. QED
        BY <3>5, <3>6
    <2>2. PICK c \in 0 .. hi2 - lo2 - 1, d \in 0 .. hi2 - lo2 - 1 : k \in c .. d /\ Row(M, at, c, d)
      BY <2>1, RowOf DEF M
    <2>3. \A j \in 0 .. hi2 - lo2 - 1 : log[lo2 + j + 1] = at <=> j \in c .. d
      <3>1. ASSUME NEW j \in 0 .. hi2 - lo2 - 1
            PROVE  M[j + 1].at = log[lo2 + j + 1] /\ j \in Index(M)
        <4>1. j + 1 \in 1 .. hi2 - lo2 + half2 /\ j + 1 <= hi2 - lo2 /\ lo2 + (j + 1) = lo2 + j + 1
          OBVIOUS
        <4>2. M[j + 1].at = timeRead(log, lo2, hi2, j + 1)
          BY <1>2, <4>1
        <4>3. j \in Index(M)
          BY <1>2 DEF Index
        <4>. QED
          BY <4>1, <4>2, <4>3 DEF timeRead
      <3>. QED
        BY <2>2, <3>1 DEF Row
    <2>4. /\ a \in 0 .. hi - lo - 1 /\ b \in 0 .. hi - lo - 1 /\ i \in a .. b
          /\ c \in 0 .. hi2 - lo2 - 1 /\ d \in 0 .. hi2 - lo2 - 1 /\ c <= d
          /\ log[lo + a + 1] = at /\ log[lo + b + 1] = at
          /\ log[lo2 + c + 1] = at /\ log[lo2 + d + 1] = at
      <3>1. a \in a .. b /\ b \in a .. b /\ c \in c .. d /\ d \in c .. d /\ c <= d
        BY <1>5, <2>2
      <3>. QED
        BY <1>5, <1>8, <2>2, <2>3, <3>1
    <2>5. named(c, d, num) = lo + i - lo2
      <3>1. CASE \E j \in 1 .. hi - lo + half : L[j].at > at
        <4>1. log[hi] > at /\ log[hi] \in Nat
          <5>1. PICK j \in 1 .. hi - lo + half : L[j].at > at
            BY <3>1
          <5>2. L[j].at = timeRead(log, lo, hi, j)
            BY <1>1
          <5>3. j <= hi - lo /\ log[lo + j] > at
            BY <1>4, <5>1, <5>2 DEF timeRead, NoTime
          <5>4. lo + j \in 1 .. Len(log) /\ hi \in 1 .. Len(log) /\ lo + j <= hi
            BY <1>3, <5>3
          <5>5. log[lo + j] <= log[hi] /\ log[lo + j] \in Nat /\ log[hi] \in Nat
            BY <1>3, <5>4
          <5>6. \A x, y, z \in Nat : x > z /\ x <= y => y > z
            OBVIOUS
          <5>. QED
            BY <1>4, <5>3, <5>5, <5>6, Zenon
        <4>2. Last(L).at # at
          <5>1. Last(L).at = 0 \/ Last(L).at = log[hi]
            BY <1>9, <1>12
          <5>2. 0 # at /\ log[hi] # at
            BY <1>4, <4>1
          <5>. QED
            BY <5>1, <5>2, Zenon
        <4>3. num = - (b - i + 1)
          BY <1>10, <4>2
        <4>5. lo2 + d < hi
          <5>1. SUFFICES ASSUME hi <= lo2 + d
                         PROVE  FALSE
            BY <2>4
          <5>2. hi \in 1 .. Len(log) /\ lo2 + d + 1 \in 1 .. Len(log) /\ hi <= lo2 + d + 1
            BY <1>3, <1>4, <2>4, <5>1
          <5>3. log[hi] <= log[lo2 + d + 1] /\ log[hi] \in Nat
            BY <1>3, <5>2
          <5>. QED
            BY <1>4, <2>4, <4>1, <5>3
        <4>6. lo2 + d - lo <= b
          <5>1. lo2 + d - lo \in 0 .. hi - lo - 1 /\ lo + (lo2 + d - lo) + 1 = lo2 + d + 1
            BY <2>4, <4>5
          <5>2. lo2 + d - lo \in a .. b
            BY <1>8, <2>4, <5>1
          <5>. QED
            BY <2>4, <5>2
        <4>7. lo + b - lo2 <= d
          <5>1. CASE lo + b - lo2 < 0
            BY <2>4, <5>1
          <5>2. CASE ~ (lo + b - lo2 < 0)
            <6>1. lo + b - lo2 \in 0 .. hi2 - lo2 - 1 /\ lo2 + (lo + b - lo2) + 1 = lo + b + 1
              BY <2>4, <5>2
            <6>2. lo + b - lo2 \in c .. d
              BY <2>3, <2>4, <6>1
            <6>. QED
              BY <2>4, <6>2
          <5>. QED
            BY <5>1, <5>2
        <4>8. d = lo + b - lo2
          <5>1. lo2 \in Int /\ d \in Int /\ lo \in Int /\ b \in Int /\ lo + b - lo2 \in Int
            BY <2>4
          <5>2. d <= lo + b - lo2
            BY <4>6, <5>1
          <5>. QED
            BY <4>7, <5>1, <5>2
        <4>9. num < 0 /\ d + 1 + num = lo + i - lo2
          BY <2>4, <4>3, <4>8
        <4>. QED
          BY <4>9 DEF named
      <3>2. CASE lo2 = lo /\ ~ (\E j \in 1 .. hi - lo + half : L[j].at > at)
        <4>1. a = c
          <5>1. a \in 0 .. hi2 - lo2 - 1 /\ lo2 + a + 1 = lo + a + 1
            BY <2>4, <3>2
          <5>2. c <= a
            BY <2>3, <2>4, <5>1
          <5>3. c \in 0 .. hi - lo - 1 /\ lo + c + 1 = lo2 + c + 1
            BY <2>4, <3>2, <5>2
          <5>4. a <= c
            BY <1>8, <2>4, <5>3
          <5>. QED
            BY <2>4, <5>2, <5>4
        <4>2. CASE half = 0
          <5>1. hi \in 1 .. Len(log) /\ log[hi] \in Nat /\ at <= log[hi]
            <6>1. hi \in 1 .. Len(log)
              BY <1>3, <1>4
            <6>. QED
              BY <1>3, <1>4, <6>1 DEF at
          <5>2. hi - lo + half \in 1 .. hi - lo + half /\ L[hi - lo + half].at = log[hi]
            BY <1>9, <2>4, <4>2
          <5>3. log[hi] = at
            <6>1. ~ (L[hi - lo + half].at > at)
              BY <3>2, <5>2
            <6>2. ~ (log[hi] > at)
              BY <5>2, <6>1, Zenon
            <6>. QED
              BY <1>4, <5>1, <6>2
          <5>4. num = i - a + 1
            BY <1>10, <1>12, <5>2, <5>3
          <5>5. ~ (num < 0) /\ c + num - 1 = lo + i - lo2
            BY <2>4, <3>2, <4>1, <5>4
          <5>. QED
            BY <5>5 DEF named
        <4>3. CASE half = 1
          <5>1. hi2 = hi
            BY <3>2, <4>3
          <5>2. b \in 0 .. hi2 - lo2 - 1 /\ lo2 + b + 1 = lo + b + 1
            BY <2>4, <3>2, <5>1
          <5>3. d \in 0 .. hi - lo - 1 /\ lo + d + 1 = lo2 + d + 1
            BY <2>4, <3>2, <5>1
          <5>4. b <= d
            BY <2>3, <2>4, <5>2
          <5>5. d <= b
            BY <1>8, <2>4, <5>3
          <5>6. num = - (b - i + 1)
            BY <1>4, <1>9, <1>10, <1>12, <4>3
          <5>7. num < 0 /\ d + 1 + num = lo + i - lo2
            BY <2>4, <3>2, <5>4, <5>5, <5>6
          <5>. QED
            BY <5>7 DEF named
        <4>. QED
          BY <4>2, <4>3
      <3>. QED
        BY <1>7, <3>1, <3>2
    <2>6. \/ getLineIndex(M, at, num) = named(c, d, num)
          \/ getLineIndex(M, at, num) = LINE_INDEX_NOT_FOUND
      BY <1>4, <1>6, <2>2, LineOfName
    <2>. QED
      BY <2>5, <2>6
  <1>. QED
    BY <1>13, <1>14

Position == {"", "beginning", "end"}
Link == {"none", "newest", "newer", "older", "oldest"}
Selection ==
  [position : Position, at : Int, num : Int, from : Int, to : Int,
   first : Int, last : Int, closed : BOOLEAN]
Params ==
  [container : Container, position : Position, at : Int, num : Int, from : Int, to : Int,
   link : Link]

\* SelectLogs answers nothing, or a page of the lines.
LEMMA SelectedPage ==
  ASSUME NEW lines, Len(lines) \in Nat, NEW p \in Params
  PROVE  LET answer == SelectLogs(lines, p)
             n == Len(lines)
             reference == getLineIndex(lines, p.at, p.num)
             f == fromIndex(n, reference + p.from, reference + p.to)
             t == toIndex(n, reference + p.from, reference + p.to)
         IN \/ answer = [lines |-> <<>>, selection |-> noSelection]
            \/ /\ reference \in Int /\ reference # LINE_INDEX_NOT_FOUND
               /\ n > 0 /\ p.from < p.to /\ f \in 0 .. n - 1 /\ t \in 1 .. n /\ f < t
               /\ answer = [lines |-> [i \in 1 .. t - f |-> lines[f + i].no],
                            selection |-> newSelection(lines, f, t, p.position)]
  <1>. DEFINE n == Len(lines)
              reference == getLineIndex(lines, p.at, p.num)
              f == fromIndex(n, reference + p.from, reference + p.to)
              t == toIndex(n, reference + p.from, reference + p.to)
  <1>1. p.at \in Int /\ p.num \in Int /\ p.from \in Int /\ p.to \in Int
    BY DEF Params
  <1>2. reference \in Int
    BY <1>1, IndexIsNumber
  <1>. HIDE DEF reference
  <1>3. CASE reference = LINE_INDEX_NOT_FOUND \/ p.to <= p.from \/ n = 0
    BY <1>3 DEF SelectLogs, reference
  <1>4. CASE ~ (reference = LINE_INDEX_NOT_FOUND \/ p.to <= p.from \/ n = 0)
    <2>1. /\ n \in Nat \ {0} /\ reference + p.from \in Int /\ reference + p.to \in Int
          /\ reference + p.from < reference + p.to
          /\ (reference + p.to) - (reference + p.from) > 0
      BY <1>1, <1>2, <1>4
    <2>2. /\ f \in 0 .. n - 1 /\ t \in 1 .. n
          /\ t - f = IF (reference + p.to) - (reference + p.from) > n THEN n
                     ELSE (reference + p.to) - (reference + p.from)
      <3>. HIDE DEF n
      <3>. QED
        BY <2>1, PageInLines
    <2>3. f < t
      BY <2>1, <2>2
    <2>4. SelectLogs(lines, p) =
            [lines |-> [i \in 1 .. t - f |-> lines[f + i].no],
             selection |-> newSelection(lines, f, t, p.position)]
      BY <1>4 DEF SelectLogs, reference
    <2>. QED
      BY <1>1, <1>2, <1>4, <2>1, <2>2, <2>3, <2>4 DEF reference
  <1>. QED
    BY <1>3, <1>4

\* What is sent with a page.
middleOf(lo, hi, half) == (hi - lo + half) \div 2
Sent(s, log, lo, hi, half, f, t, position) ==
  LET L == reading(log, lo, hi, half)
      middle == middleOf(lo, hi, half)
  IN /\ s \in Selection /\ s.position = position
     /\ middle \in 0 .. hi - lo - 1
     /\ s.at = log[lo + middle + 1] /\ s.num = createLogLineNum(L, middle)
     /\ s.from = f - middle /\ s.to = t - middle
     /\ s.first = lo + 1 /\ s.last = lo + (hi - lo + half)
     /\ s.closed => \E j \in 1 .. hi - lo + half : L[j].at > s.at

LEMMA SelectionShape ==
  ASSUME NEW log \in TimedLog, NEW lo \in Nat, NEW hi \in Nat, NEW half \in {0, 1},
         lo <= hi, hi <= Len(log), half = 1 => hi = lo + lineReadLimit,
         hi - lo + half > 0, NEW f \in Int, NEW t \in Int, NEW position \in Position
  PROVE  Sent(newSelection(reading(log, lo, hi, half), f, t, position),
              log, lo, hi, half, f, t, position)
  <1>. DEFINE L == reading(log, lo, hi, half)
              n == hi - lo + half
              middle == n \div 2
              s == newSelection(L, f, t, position)
  <1>1. /\ L \in Seq(LogLine) /\ Len(L) = n /\ Len(L) \in Nat
        /\ \A j \in 1 .. n :
             /\ L[j].no = lo + j
             /\ L[j].at = timeRead(log, lo, hi, j)
             /\ L[j].at \in Nat
             /\ j <= hi - lo => L[j].at > 0
    BY ReadingShape DEF HasLines
  <1>2. lineReadLimit \in Nat /\ lineReadLimit > 1
    BY ContainerLogAssumption
  <1>3. n \in Nat /\ n > 0 /\ middle \in Nat /\ middle < n /\ middle < hi - lo
    <2>1. CASE half = 0
      BY <2>1
    <2>2. CASE half = 1
      <3>1. hi - lo > 1
        BY <1>2, <2>2
      <3>. QED
        BY <2>2, <3>1
    <2>. QED
      BY <2>1, <2>2
  <1>. HIDE DEF L, n
  <1>4. middle + 1 \in 1 .. n /\ middle \in Index(L) /\ 1 \in 1 .. n /\ n \in 1 .. n
    BY <1>1, <1>3 DEF Index
  <1>. HIDE DEF middle
  <1>5. L[middle + 1].at = log[lo + middle + 1] /\ L[middle + 1].at \in Nat
    <2>1. lo + (middle + 1) = lo + middle + 1 /\ middle + 1 <= hi - lo
      BY <1>3
    <2>. QED
      BY <1>1, <1>4, <2>1 DEF timeRead
  <1>6. createLogLineNum(L, middle) \in Int
    BY <1>1, <1>4, NameIsNumber
  <1>7. L[1].no = lo + 1 /\ Last(L).no = lo + n /\ DOMAIN L = 1 .. n
    BY <1>1, <1>4 DEF Last
  <1>8. s = [position |-> position, at |-> L[middle + 1].at, num |-> createLogLineNum(L, middle),
             from |-> f - middle, to |-> t - middle, first |-> L[1].no, last |-> Last(L).no,
             closed |-> \E i \in DOMAIN L : L[i].at > L[middle + 1].at]
    BY <1>1 DEF newSelection, middle
  <1>. HIDE DEF s
  <1>9. s \in Selection
    <2>1. (\E i \in DOMAIN L : L[i].at > L[middle + 1].at) \in BOOLEAN
      OBVIOUS
    <2>2. f - middle \in Int /\ t - middle \in Int /\ lo + 1 \in Int /\ lo + n \in Int
      BY <1>3
    <2>. QED
      BY <1>5, <1>6, <1>7, <1>8, <2>1, <2>2 DEF Selection
  <1>10. /\ s.position = position
         /\ s.at = log[lo + middle + 1] /\ s.num = createLogLineNum(L, middle)
         /\ s.from = f - middle /\ s.to = t - middle
         /\ s.first = lo + 1 /\ s.last = lo + n
         /\ s.closed => \E j \in 1 .. n : L[j].at > s.at
    BY <1>5, <1>7, <1>8
  <1>11. middle \in 0 .. hi - lo - 1
    BY <1>3
  <1>. QED
    BY <1>9, <1>10, <1>11, Zenon DEF Sent, middleOf, s, L, n, middle

\* The error that is shown as if it were the log.
LEMMA ErrorSelection ==
  ASSUME NEW position \in Position
  PROVE  LET s == newSelection(errorText, 0, 1, position)
         IN /\ s \in Selection /\ s.position = position
            /\ s.at = NoTime /\ s.first = 0 /\ s.last = 0 /\ s.closed = FALSE
  <1>1. /\ Len(errorText) = 1 /\ DOMAIN errorText = {1} /\ errorText[1].no = 0
        /\ errorText[1].at = NoTime
    BY DEF errorText
  <1>2. 0 \in Index(errorText)
    BY <1>1 DEF Index
  <1>3. createLogLineNum(errorText, 0) \in Int
    BY <1>1, <1>2, NameIsNumber
  <1>4. Last(errorText) = errorText[1]
    BY <1>1 DEF Last
  <1>5. 1 \div 2 = 0
    OBVIOUS
  <1>6. ~ (\E i \in DOMAIN errorText : errorText[i].at > NoTime)
    BY <1>1 DEF NoTime
  <1>. DEFINE middle == Len(errorText) \div 2
              later == \E i \in DOMAIN errorText : errorText[i].at > errorText[middle + 1].at
              s == newSelection(errorText, 0, 1, position)
  <1>7. middle = 0
    BY <1>1, <1>5
  <1>8. later = FALSE
    BY <1>1, <1>6, <1>7
  <1>9. s = [position |-> position, at |-> errorText[middle + 1].at,
             num |-> createLogLineNum(errorText, middle),
             from |-> 0 - middle, to |-> 1 - middle, first |-> errorText[1].no,
             last |-> Last(errorText).no, closed |-> later]
    BY DEF newSelection
  <1>. HIDE DEF errorText, middle, later, s
  <1>10. s = [position |-> position, at |-> NoTime, num |-> createLogLineNum(errorText, 0),
              from |-> 0, to |-> 1, first |-> 0, last |-> 0, closed |-> FALSE]
    <2>1. 0 - middle = 0 /\ 1 - middle = 1 /\ errorText[middle + 1] = errorText[1]
      BY <1>7
    <2>. QED
      BY <1>1, <1>4, <1>7, <1>8, <1>9, <2>1
  <1>11. s \in Selection /\ s.position = position /\ s.at = NoTime /\ s.first = 0 /\ s.last = 0
         /\ s.closed = FALSE
    BY <1>3, <1>10 DEF Selection, NoTime
  <1>. QED
    BY <1>11 DEF s

\* A page that is asked for beside another, in numbers of lines: shown are those from
\* f to t of the reading behind line lo, and what is read now are n lines behind lo2.
BesideNewer(lo, t, lo2, n, f2, t2) ==
  \/ lo2 + f2 + 1 = lo + t + 1
  \/ lo2 + f2 + 1 = lo2 + 1 /\ lo2 + f2 + 1 > lo + t
  \/ lo2 + t2 = lo2 + n /\ lo2 + f2 + 1 <= lo + t
BesideOlder(lo, f, lo2, f2, t2) ==
  lo2 + t2 = lo + f \/ (lo2 + f2 + 1 = lo2 + 1 /\ lo2 + t2 >= lo + f + 1)

LEMMA NewerBeside ==
  ASSUME NEW lo \in Nat, NEW lo2 \in Nat, NEW n \in Nat \ {0}, NEW t \in Nat,
         lo <= lo2
  PROVE  BesideNewer(lo, t, lo2, n, fromIndex(n, lo + t - lo2, (lo + t - lo2) + LOG_PER_VIEW),
                     toIndex(n, lo + t - lo2, (lo + t - lo2) + LOG_PER_VIEW))
  <1>1. LOG_PER_VIEW \in Nat /\ LOG_PER_VIEW > 0
    BY ContainerLogAssumption
  <1>. QED
    BY <1>1 DEF BesideNewer, fromIndex, toIndex

LEMMA OlderBeside ==
  ASSUME NEW lo \in Nat, NEW lo2 \in Nat, NEW n \in Nat \ {0}, NEW f \in Nat,
         lo <= lo2, lo + f <= lo2 + n
  PROVE  BesideOlder(lo, f, lo2, fromIndex(n, (lo + f - lo2) - LOG_PER_VIEW, lo + f - lo2),
                     toIndex(n, (lo + f - lo2) - LOG_PER_VIEW, lo + f - lo2))
  <1>1. LOG_PER_VIEW \in Nat /\ LOG_PER_VIEW > 0
    BY ContainerLogAssumption
  <1>. QED
    BY <1>1 DEF BesideOlder, fromIndex, toIndex

Adjoins(old, s, new, read, link) ==
  old # <<>> /\ new # <<>> /\ (s.closed \/ s.first = read.first)
    => /\ link = "older" =>
            \/ Last(new) = Head(old) - 1
            \/ Head(new) = read.first /\ Last(new) >= Head(old)
       /\ link = "newer" =>
            \/ Head(new) = Last(old) + 1
            \/ Head(new) = read.first /\ Head(new) > Last(old)
            \/ Last(new) = read.last /\ Head(new) <= Last(old)

\* The request for the older or the newer page.
IsBeside(p, s) ==
  /\ p.position = s.position /\ p.at = s.at /\ p.num = s.num
  /\ p.link = "newer" => p.from = s.to /\ p.to = s.to + LOG_PER_VIEW
  /\ p.link = "older" => p.from = s.from - LOG_PER_VIEW /\ p.to = s.from

\* The numbers of lines from a to b.
LEMMA EndsOfPage ==
  ASSUME NEW lo \in Int, NEW f \in Int, NEW t \in Int, f < t
  PROVE  LET lines == [i \in 1 .. t - f |-> lo + f + i]
         IN /\ lines \in Seq(Int) /\ lines # <<>>
            /\ Head(lines) = lo + f + 1 /\ Last(lines) = lo + t
  <1>. DEFINE n == t - f
              lines == [i \in 1 .. n |-> lo + f + i]
  <1>1. n \in Nat \ {0} /\ lo + f + n = lo + t
    OBVIOUS
  <1>. HIDE DEF n
  <1>2. lines \in Seq(Int) /\ Len(lines) = n /\ lines[1] = lo + f + 1 /\ lines[n] = lo + f + n
    BY <1>1
  <1>3. lines # <<>> /\ Head(lines) = lines[1] /\ Last(lines) = lines[n]
    <2>. HIDE DEF lines
    <2>. QED
      BY <1>1, <1>2 DEF Last
  <1>. QED
    BY <1>1, <1>2, <1>3 DEF n

\* The page that is read beside the one that is shown adjoins it.
LEMMA ReadBeside ==
  ASSUME NEW log \in TimedLog, NEW gone \in 0 .. Len(log), NEW old, NEW s,
         s.position \in Position,
         NEW lo \in Nat, NEW hi \in Nat, NEW half \in {0, 1}, NEW f \in Nat, NEW t \in Nat,
         PageRead(old, s, log, gone, lo, hi, half, f, t),
         NEW lo2 \in Nat, NEW hi2 \in Nat, NEW half2 \in {0, 1},
         lo2 = lowest(Len(log), gone, s.position), hi2 = highest(Len(log), gone, s.position),
         WasRead(Len(log), gone, s.position, lo2, hi2, half2),
         NEW p \in Params, IsBeside(p, s), p.link \in {"older", "newer"},
         NEW new, NEW read,
         SelectLogs(reading(log, lo2, hi2, half2), p) = [lines |-> new, selection |-> read]
  PROVE  Adjoins(old, s, new, read, p.link)
  <1>. SUFFICES ASSUME new # <<>>, s.closed \/ s.first = read.first
                PROVE  Adjoins(old, s, new, read, p.link)
    BY DEF Adjoins
  <1>. DEFINE L == reading(log, lo, hi, half)
              M == reading(log, lo2, hi2, half2)
              middle == middleOf(lo, hi, half)
              n == hi2 - lo2 + half2
              reference == getLineIndex(M, p.at, p.num)
              f2 == fromIndex(n, reference + p.from, reference + p.to)
              t2 == toIndex(n, reference + p.from, reference + p.to)
  <1>1. Len(log) \in Nat /\ lineReadLimit \in Nat
    BY ContainerLogAssumption DEF TimedLog
  <1>2. /\ WasRead(Len(log), gone, s.position, lo, hi, half)
        /\ f < t /\ t <= hi - lo + half
        /\ old = [i \in 1 .. t - f |-> lo + f + i]
        /\ s = newSelection(L, f, t, s.position)
    BY DEF PageRead
  <1>3. /\ lo <= hi /\ hi <= Len(log) /\ lo2 <= hi2 /\ hi2 <= Len(log)
        /\ lo <= lo2 /\ hi <= hi2 /\ (half = 1 => hi = lo + lineReadLimit)
        /\ (half2 = 1 => hi2 = lo2 + lineReadLimit)
    BY <1>1, <1>2 DEF WasRead, lowest, highest
  <1>4. lo2 = lo /\ half = 1 => hi2 = hi
    BY <1>1, <1>2, <1>3 DEF WasRead, lowest, highest
  <1>5. /\ middle \in 0 .. hi - lo - 1
        /\ s.at = log[lo + middle + 1] /\ s.num = createLogLineNum(L, middle)
        /\ s.from = f - middle /\ s.to = t - middle /\ s.first = lo + 1
        /\ s.closed => \E j \in 1 .. hi - lo + half : L[j].at > s.at
    <2>1. hi - lo + half > 0
      BY <1>2, <1>3
    <2>2. Sent(s, log, lo, hi, half, f, t, s.position)
      <3>1. f \in Int /\ t \in Int
        OBVIOUS
      <3>2. Sent(newSelection(L, f, t, s.position), log, lo, hi, half, f, t, s.position)
        BY <1>3, <2>1, <3>1, SelectionShape
      <3>. QED
        BY <1>2, <3>2
    <2>. QED
      BY <2>2 DEF Sent
  <1>6. /\ M \in Seq(LogLine) /\ Len(M) = n /\ n \in Nat
        /\ \A i \in 1 .. n : M[i].no = lo2 + i
    <2>1. HasLines(M, log, lo2, hi2, half2)
      BY <1>3, ReadingShape
    <2>. QED
      BY <2>1 DEF HasLines
  <1>7. /\ reference # LINE_INDEX_NOT_FOUND /\ n > 0 /\ f2 \in 0 .. n - 1 /\ t2 \in 1 .. n /\ f2 < t2
        /\ new = [i \in 1 .. t2 - f2 |-> M[f2 + i].no]
        /\ read = newSelection(M, f2, t2, s.position)
    <2>. HIDE DEF M, n
    <2>1. Len(M) \in Nat /\ Len(M) = n
      BY <1>6
    <2>2. SelectLogs(M, p) = [lines |-> new, selection |-> read]
      BY DEF M
    <2>3. SelectLogs(M, p) # [lines |-> <<>>, selection |-> noSelection]
      BY <2>2
    <2>4. /\ reference # LINE_INDEX_NOT_FOUND /\ n > 0 /\ f2 \in 0 .. n - 1 /\ t2 \in 1 .. n /\ f2 < t2
          /\ SelectLogs(M, p) = [lines |-> [i \in 1 .. t2 - f2 |-> M[f2 + i].no],
                                 selection |-> newSelection(M, f2, t2, p.position)]
      BY <2>1, <2>3, SelectedPage
    <2>5. newSelection(M, f2, t2, p.position) = newSelection(M, f2, t2, s.position)
      BY DEF IsBeside
    <2>. HIDE DEF f2, t2, reference
    <2>6. /\ new = [i \in 1 .. t2 - f2 |-> M[f2 + i].no]
          /\ read = newSelection(M, f2, t2, p.position)
      BY <2>2, <2>4
    <2>. QED
      BY <2>4, <2>5, <2>6
  <1>8. read.first = lo2 + 1 /\ read.last = lo2 + n
    <2>1. Sent(read, log, lo2, hi2, half2, f2, t2, s.position)
      <3>1. f2 \in Int /\ t2 \in Int
        <4>1. f2 \in 0 .. n - 1 /\ t2 \in 1 .. n
          BY <1>7
        <4>. HIDE DEF f2, t2, n
        <4>. QED
          BY <4>1
      <3>2. Sent(newSelection(M, f2, t2, s.position), log, lo2, hi2, half2, f2, t2, s.position)
        <4>. HIDE DEF f2, t2
        <4>. QED
          BY <1>3, <1>7, <3>1, SelectionShape
      <3>. QED
        BY <1>7, <3>2
    <2>. QED
      BY <2>1 DEF Sent
  <1>9. \/ lo2 = lo
        \/ \E j \in 1 .. hi - lo + half : L[j].at > log[lo + middle + 1]
    <2>1. s.first = read.first => lo2 = lo
      BY <1>5, <1>8
    <2>2. s.closed => \E j \in 1 .. hi - lo + half : L[j].at > log[lo + middle + 1]
      BY <1>5
    <2>. QED
      BY <2>1, <2>2
  <1>10. reference = lo + middle - lo2
    <2>1. p.at = log[lo + middle + 1] /\ p.num = createLogLineNum(L, middle)
      BY <1>5 DEF IsBeside
    <2>2. getLineIndex(M, log[lo + middle + 1], createLogLineNum(L, middle))
            \in {lo + middle - lo2, LINE_INDEX_NOT_FOUND}
      <3>1. middle \in 0 .. hi - lo - 1
        BY <1>5
      <3>. HIDE DEF middle
      <3>. QED
        BY <1>3, <1>4, <1>9, <3>1, FoundAgain
    <2>3. reference \in {lo + middle - lo2, LINE_INDEX_NOT_FOUND}
      BY <2>1, <2>2, Zenon
    <2>. QED
      BY <1>7, <2>3, Zenon
  <1>. HIDE DEF L, M, reference, middle, n, f2, t2
  <1>11. new = [i \in 1 .. t2 - f2 |-> lo2 + f2 + i]
    <2>1. \A i \in 1 .. t2 - f2 : f2 + i \in 1 .. n /\ lo2 + (f2 + i) = lo2 + f2 + i
      <3>1. f2 \in 0 .. n - 1 /\ t2 \in 1 .. n /\ n \in Nat
        BY <1>6, <1>7
      <3>. QED
        BY <3>1
    <2>2. \A i \in 1 .. t2 - f2 : M[f2 + i].no = lo2 + f2 + i
      BY <1>6, <2>1
    <2>. QED
      BY <1>7, <2>2
  <1>12. /\ Head(old) = lo + f + 1 /\ Last(old) = lo + t
         /\ Head(new) = lo2 + f2 + 1 /\ Last(new) = lo2 + t2
    <2>1. Head(old) = lo + f + 1 /\ Last(old) = lo + t
      <3>1. lo \in Int /\ f \in Int /\ t \in Int /\ f < t
        BY <1>2
      <3>2. old = [i \in 1 .. t - f |-> lo + f + i]
        BY <1>2
      <3>. QED
        BY <3>1, <3>2, EndsOfPage
    <2>2. f2 \in Int /\ t2 \in Int /\ f2 < t2
      <3>1. f2 \in 0 .. n - 1 /\ t2 \in 1 .. n /\ f2 < t2
        BY <1>7
      <3>. QED
        BY <3>1
    <2>3. Head(new) = lo2 + f2 + 1 /\ Last(new) = lo2 + t2
      <3>1. lo2 \in Int
        OBVIOUS
      <3>2. new = [i \in 1 .. t2 - f2 |-> lo2 + f2 + i]
        BY <1>11
      <3>. QED
        BY <3>1, <3>2, <2>2, EndsOfPage
    <2>. QED
      BY <2>1, <2>3
  <1>13. lo + f <= lo2 + n
    <2>1. f < t /\ t <= hi - lo + half /\ hi <= hi2
      BY <1>2, <1>3
    <2>2. lo2 + n = hi2 + half2 /\ lo + f < hi + half
      BY <2>1 DEF n
    <2>3. half = 1 /\ hi = hi2 => lo + f <= hi2
      BY <2>2
    <2>. QED
      BY <2>1, <2>2, <2>3
  <1>14. LOG_PER_VIEW \in Nat
    BY ContainerLogAssumption
  <1>15. CASE p.link = "newer"
    <2>1. reference + p.from = lo + t - lo2 /\ reference + p.to = (lo + t - lo2) + LOG_PER_VIEW
      <3>1. p.from = s.to /\ p.to = s.to + LOG_PER_VIEW
        BY <1>15 DEF IsBeside
      <3>2. s.to = t - middle /\ reference = lo + middle - lo2 /\ middle \in Int
        BY <1>5, <1>10
      <3>. QED
        BY <1>14, <3>1, <3>2
    <2>2. /\ f2 = fromIndex(n, lo + t - lo2, (lo + t - lo2) + LOG_PER_VIEW)
          /\ t2 = toIndex(n, lo + t - lo2, (lo + t - lo2) + LOG_PER_VIEW)
      BY <2>1 DEF f2, t2
    <2>3. \/ lo2 + f2 + 1 = lo + t + 1
          \/ lo2 + f2 + 1 = lo2 + 1 /\ lo2 + f2 + 1 > lo + t
          \/ lo2 + t2 = lo2 + n /\ lo2 + f2 + 1 <= lo + t
      <3>1. n \in Nat \ {0} /\ lo <= lo2
        BY <1>3, <1>6, <1>7
      <3>2. BesideNewer(lo, t, lo2, n, fromIndex(n, lo + t - lo2, (lo + t - lo2) + LOG_PER_VIEW),
                        toIndex(n, lo + t - lo2, (lo + t - lo2) + LOG_PER_VIEW))
        BY <3>1, NewerBeside
      <3>3. BesideNewer(lo, t, lo2, n, f2, t2)
        BY <2>2, <3>2, Zenon
      <3>. QED
        BY <3>3 DEF BesideNewer
    <2>. QED
      BY <1>8, <1>12, <1>15, <2>3 DEF Adjoins
  <1>16. CASE p.link = "older"
    <2>1. reference + p.to = lo + f - lo2 /\ reference + p.from = (lo + f - lo2) - LOG_PER_VIEW
      <3>1. p.from = s.from - LOG_PER_VIEW /\ p.to = s.from
        BY <1>16 DEF IsBeside
      <3>2. s.from = f - middle /\ reference = lo + middle - lo2 /\ middle \in Int
        BY <1>5, <1>10
      <3>. QED
        BY <1>14, <3>1, <3>2
    <2>2. /\ f2 = fromIndex(n, (lo + f - lo2) - LOG_PER_VIEW, lo + f - lo2)
          /\ t2 = toIndex(n, (lo + f - lo2) - LOG_PER_VIEW, lo + f - lo2)
      BY <2>1 DEF f2, t2
    <2>3. lo2 + t2 = lo + f \/ (lo2 + f2 + 1 = lo2 + 1 /\ lo2 + t2 >= lo + f + 1)
      <3>1. n \in Nat \ {0} /\ lo <= lo2
        BY <1>3, <1>6, <1>7
      <3>2. BesideOlder(lo, f, lo2, fromIndex(n, (lo + f - lo2) - LOG_PER_VIEW, lo + f - lo2),
                        toIndex(n, (lo + f - lo2) - LOG_PER_VIEW, lo + f - lo2))
        BY <1>13, <3>1, OlderBeside
      <3>3. BesideOlder(lo, f, lo2, f2, t2)
        BY <2>2, <3>2, Zenon
      <3>. QED
        BY <3>3 DEF BesideOlder
    <2>4. lo + f + 1 - 1 = lo + f
      OBVIOUS
    <2>. QED
      BY <1>8, <1>12, <1>16, <2>3, <2>4 DEF Adjoins
  <1>. QED
    BY <1>15, <1>16

LEMMA NoSelectionShape == noSelection \in Selection
  <1>1. "" \in Position
    BY DEF Position
  <1>2. Newest \in Int /\ 0 \in Int /\ FALSE \in BOOLEAN
    BY DEF Newest
  <1>. QED
    BY <1>1, <1>2, Zenon DEF noSelection, Selection

\* The answer is a page of the log, or the error, or nothing.
LEMMA AnswerIsPage ==
  ASSUME NEW log \in TimedLog, NEW gone \in 0 .. Len(log), NEW p \in Params,
         NEW lo \in Nat, NEW hi \in Nat, NEW half \in {0, 1},
         WasRead(Len(log), gone, p.position, lo, hi, half),
         NEW lines \in {reading(log, lo, hi, half), errorText},
         NEW new, NEW read, SelectLogs(lines, p) = [lines |-> new, selection |-> read]
  PROVE  /\ new \in Seq(Int) /\ read \in Selection /\ PageOf(new, read, log, gone)
         /\ lines = errorText /\ new # <<>> =>
              /\ new = <<0>> /\ ErrorShown(new, read)
              /\ getLineIndex(errorText, p.at, p.num) # LINE_INDEX_NOT_FOUND
         /\ lines # errorText /\ new # <<>> => read.first = lo + 1
  <1>. DEFINE n == Len(lines)
              reference == getLineIndex(lines, p.at, p.num)
              f == fromIndex(n, reference + p.from, reference + p.to)
              t == toIndex(n, reference + p.from, reference + p.to)
  <1>1. Len(log) \in Nat /\ lineReadLimit \in Nat /\ p.position \in Position
    BY ContainerLogAssumption DEF TimedLog, Params
  <1>2. lo <= hi /\ hi <= Len(log) /\ (half = 1 => hi = lo + lineReadLimit)
    BY <1>1 DEF WasRead, lowest, highest
  <1>3. Len(lines) \in Nat
    <2>1. CASE lines = errorText
      BY <2>1 DEF errorText
    <2>2. CASE lines = reading(log, lo, hi, half)
      <3>1. HasLines(lines, log, lo, hi, half)
        BY <1>2, <2>2, ReadingShape
      <3>. QED
        BY <3>1 DEF HasLines
    <2>. QED
      BY <2>1, <2>2
  <1>4. CASE SelectLogs(lines, p) = [lines |-> <<>>, selection |-> noSelection]
    <2>1. new = <<>> /\ read = noSelection
      BY <1>4
    <2>. QED
      BY <2>1, NoSelectionShape DEF PageOf
  <1>5. CASE /\ reference \in Int /\ reference # LINE_INDEX_NOT_FOUND
             /\ n > 0 /\ p.from < p.to /\ f \in 0 .. n - 1 /\ t \in 1 .. n /\ f < t
             /\ SelectLogs(lines, p) = [lines |-> [i \in 1 .. t - f |-> lines[f + i].no],
                                        selection |-> newSelection(lines, f, t, p.position)]
    <2>1. /\ new = [i \in 1 .. t - f |-> lines[f + i].no]
          /\ read = newSelection(lines, f, t, p.position)
      BY <1>5
    <2>2. f \in 0 .. n - 1 /\ t \in 1 .. n /\ f < t /\ n \in Nat /\ f \in Nat /\ t \in Nat
      BY <1>3, <1>5
    <2>3. CASE lines = errorText
      <3>1. n = 1 /\ errorText[1].no = 0
        BY <2>3 DEF errorText
      <3>2. f = 0 /\ t = 1
        BY <2>2, <3>1
      <3>3. new = <<0>>
        <4>1. \A i \in 1 .. 1 : 0 + i = 1
          OBVIOUS
        <4>2. new = [i \in 1 .. 1 |-> errorText[0 + i].no]
          BY <2>1, <2>3, <3>2
        <4>3. new = [i \in 1 .. 1 |-> 0]
          BY <3>1, <4>1, <4>2
        <4>. QED
          BY <4>3
      <3>4. read = newSelection(errorText, 0, 1, p.position)
        BY <2>1, <2>3, <3>2
      <3>5. read \in Selection /\ read.position = p.position
        BY <1>1, <3>4, ErrorSelection
      <3>6. ErrorShown(new, read)
        BY <3>3, <3>4, <3>5 DEF ErrorShown
      <3>. QED
        BY <1>5, <2>3, <3>3, <3>5, <3>6 DEF PageOf
    <2>4. CASE lines # errorText
      <3>1. lines = reading(log, lo, hi, half)
        BY <2>4
      <3>. HIDE DEF f, t
      <3>2. n = hi - lo + half /\ \A i \in 1 .. n : lines[i].no = lo + i
        <4>1. HasLines(lines, log, lo, hi, half)
          BY <1>2, <3>1, ReadingShape
        <4>. QED
          BY <4>1 DEF HasLines
      <3>3. new = [i \in 1 .. t - f |-> lo + f + i]
        <4>1. \A i \in 1 .. t - f : f + i \in 1 .. n /\ lo + (f + i) = lo + f + i
          BY <2>2
        <4>2. \A i \in 1 .. t - f : lines[f + i].no = lo + f + i
          BY <3>2, <4>1
        <4>. QED
          BY <2>1, <4>2
      <3>4. new \in Seq(Int)
        BY <2>2, <3>3, EndsOfPage
      <3>5. Sent(read, log, lo, hi, half, f, t, p.position)
        <4>1. hi - lo + half > 0 /\ f \in Int /\ t \in Int
          BY <2>2, <3>2
        <4>. QED
          BY <1>1, <1>2, <2>1, <3>1, <4>1, SelectionShape
      <3>6. read \in Selection /\ read.position = p.position /\ read.first = lo + 1
        BY <3>5 DEF Sent
      <3>7. PageRead(new, read, log, gone, lo, hi, half, f, t)
        BY <2>1, <2>2, <3>1, <3>2, <3>3, <3>6 DEF PageRead
      <3>8. PageOf(new, read, log, gone)
        BY <2>2, <3>7 DEF PageOf
      <3>. QED
        BY <2>4, <3>4, <3>6, <3>8
    <2>. QED
      BY <2>3, <2>4
  <1>. QED
    BY <1>3, <1>4, <1>5, SelectedPage

\* It adjoins the page that is shown, if it was asked for beside it.
LEMMA AnswerBeside ==
  ASSUME NEW log \in TimedLog, NEW gone \in 0 .. Len(log), NEW p \in Params,
         NEW lo \in Nat, NEW hi \in Nat, NEW half \in {0, 1},
         lo = lowest(Len(log), gone, p.position), hi = highest(Len(log), gone, p.position),
         WasRead(Len(log), gone, p.position, lo, hi, half),
         NEW lines \in {reading(log, lo, hi, half), errorText},
         NEW new, NEW read, SelectLogs(lines, p) = [lines |-> new, selection |-> read],
         NEW old, NEW s \in Selection, PageOf(old, s, log, gone),
         IsBeside(p, s), p.link \in {"older", "newer"}
  PROVE  Adjoins(old, s, new, read, p.link)
  <1>1. /\ lines = errorText /\ new # <<>> =>
             /\ new = <<0>> /\ ErrorShown(new, read)
             /\ getLineIndex(errorText, p.at, p.num) # LINE_INDEX_NOT_FOUND
        /\ lines # errorText /\ new # <<>> => read.first = lo + 1
        /\ read \in Selection
    BY AnswerIsPage
  <1>2. s.position \in Position /\ s.num \in Int /\ read.position \in Position
    BY <1>1 DEF Selection
  <1>3. CASE old = <<>> \/ new = <<>>
    BY <1>3 DEF Adjoins
  <1>4. CASE ErrorShown(old, s) /\ new # <<>>
    <2>1. s.first = 0 /\ s.last = 0 /\ s.closed = FALSE /\ old = <<0>>
      BY <1>2, <1>4, ErrorSelection DEF ErrorShown
    <2>2. CASE lines = errorText
      <3>1. new = <<0>> /\ read.first = 0 /\ read.last = 0
        BY <1>1, <1>2, <1>4, <2>2, ErrorSelection DEF ErrorShown
      <3>2. Head(<<0>>) = 0 /\ Last(<<0>>) = 0
        BY DEF Last
      <3>. QED
        BY <2>1, <3>1, <3>2 DEF Adjoins
    <2>3. CASE lines # errorText
      <3>1. read.first = lo + 1 /\ lo + 1 # 0
        BY <1>1, <1>4, <2>3
      <3>. QED
        BY <2>1, <3>1 DEF Adjoins
    <2>. QED
      BY <2>2, <2>3
  <1>5. ASSUME NEW lo1 \in Nat, NEW hi1 \in Nat, NEW f \in Nat, NEW t \in Nat, NEW half1 \in {0, 1},
               PageRead(old, s, log, gone, lo1, hi1, half1, f, t), new # <<>>
        PROVE  Adjoins(old, s, new, read, p.link)
    <2>1. CASE lines = errorText
      <3>1. /\ Len(log) \in Nat /\ lineReadLimit \in Nat
            /\ \A i \in 1 .. Len(log) : log[i] \in Nat \ {0}
        BY ContainerLogAssumption DEF TimedLog
      <3>2. /\ WasRead(Len(log), gone, s.position, lo1, hi1, half1)
            /\ f < t /\ t <= hi1 - lo1 + half1
            /\ s = newSelection(reading(log, lo1, hi1, half1), f, t, s.position)
        BY <1>5 DEF PageRead
      <3>3. /\ lo1 <= hi1 /\ hi1 <= Len(log) /\ (half1 = 1 => hi1 = lo1 + lineReadLimit)
            /\ hi1 - lo1 + half1 > 0 /\ f \in Int /\ t \in Int
        BY <3>1, <3>2 DEF WasRead, lowest, highest
      <3>4. Sent(newSelection(reading(log, lo1, hi1, half1), f, t, s.position),
                 log, lo1, hi1, half1, f, t, s.position)
        BY <1>2, <3>3, SelectionShape
      <3>5. Sent(s, log, lo1, hi1, half1, f, t, s.position)
        BY <3>2, <3>4
      <3>6. s.at \in Nat \ {0}
        <4>. DEFINE middle == middleOf(lo1, hi1, half1)
        <4>1. middle \in 0 .. hi1 - lo1 - 1 /\ s.at = log[lo1 + middle + 1]
          BY <3>5 DEF Sent
        <4>. HIDE DEF middle
        <4>2. lo1 + middle + 1 \in 1 .. Len(log)
          BY <3>1, <3>3, <4>1
        <4>. QED
          BY <3>1, <4>1, <4>2
      <3>7. getLineIndex(errorText, s.at, s.num) = LINE_INDEX_NOT_FOUND
        <4>1. errorText # <<>> /\ \A i \in Index(errorText) : errorText[i + 1].at = 0
          BY DEF errorText, Index, NoTime
        <4>. HIDE DEF errorText
        <4>2. s.at \in Nat /\ \A i \in Index(errorText) : errorText[i + 1].at # s.at
          BY <3>6, <4>1
        <4>. QED
          BY <1>2, <4>1, <4>2, Missing
      <3>. QED
        BY <1>1, <1>5, <2>1, <3>7 DEF IsBeside
    <2>2. CASE lines = reading(log, lo, hi, half)
      <3>1. p.position = s.position
        BY DEF IsBeside
      <3>2. /\ SelectLogs(reading(log, lo, hi, half), p) = [lines |-> new, selection |-> read]
            /\ lo = lowest(Len(log), gone, s.position) /\ hi = highest(Len(log), gone, s.position)
            /\ WasRead(Len(log), gone, s.position, lo, hi, half)
        BY <2>2, <3>1
      <3>. QED
        BY <1>2, <1>5, <2>2, <3>1, <3>2, ReadBeside
    <2>. QED
      BY <2>1, <2>2
  <1>. QED
    BY <1>3, <1>4, <1>5 DEF PageOf

PageReply == [lines : Seq(Int), selection : Selection, done : BOOLEAN]
PageDirective ==
  [request : PageReply \cup {NoRequest}, timer : BOOLEAN, loading : BOOLEAN, error : BOOLEAN]

PagesShape ==
  /\ times \in [Container -> TimedLog]
  /\ rotated \in [Container -> Nat] /\ \A c \in Container : rotated[c] <= Len(times[c])
  /\ params \in Params /\ pullEnabled \in BOOLEAN
  /\ contents \in Seq(Int) /\ selection \in Selection
  /\ logData \in PageDirective

BesideAsked == params.link \in {"older", "newer"}
Answered == logData.request # NoRequest /\ logData.request.done
OfLog(lines, s) == PageOf(lines, s, times[params.container], rotated[params.container])

\* What is answered is a page of the log that is asked for, and so is what is shown
\* until another log is asked for.
PagesOfLog ==
  /\ ~ logData.loading \/ BesideAsked => OfLog(contents, selection)
  /\ Answered => OfLog(logData.request.lines, logData.request.selection)

\* An older or newer page is asked for beside the one that is shown, and only once:
\* nothing is pulled then.
AskedOnce ==
  /\ logData.request # NoRequest => logData.loading
  /\ BesideAsked => ~ pullEnabled /\ ~ logData.timer
  /\ ~ logData.loading /\ ~ pullEnabled => ~ logData.timer
  /\ BesideAsked /\ logData.request # NoRequest => IsBeside(params, selection)

AnswerAdjoins ==
  Answered => Adjoins(contents, selection, logData.request.lines, logData.request.selection,
                      params.link)

PagesInv == PagesShape /\ PagesOfLog /\ AskedOnce /\ AnswerAdjoins

LEMMA PendingShape ==
  pending \in PageReply /\ ~ pending.done
  <1>1. <<>> \in Seq(Int)
    OBVIOUS
  <1>. QED
    BY <1>1, NoSelectionShape DEF pending, PageReply

LEMMA PageDirectives ==
  ASSUME NEW d \in PageDirective, NEW e \in BOOLEAN, NEW pull \in BOOLEAN
  PROVE  /\ refetched(d, pending) \in PageDirective /\ refetched(d, pending).request = pending
         /\ refetched(d, pending).loading /\ refetched(d, pending).timer = d.timer
         /\ fired(d, pending) \in PageDirective /\ fired(d, pending).request = pending
         /\ fired(d, pending).loading /\ ~ fired(d, pending).timer
         /\ resulted(d, e, pull) \in PageDirective /\ resulted(d, e, pull).request = NoRequest
         /\ ~ resulted(d, e, pull).loading /\ resulted(d, e, pull).timer = pull
  BY PendingShape DEF refetched, fired, resulted, PageDirective

LEMMA LinkShapes ==
  ASSUME NEW c \in Container
  PROVE  /\ LOG_NEWEST_PARAMS(c) \in Params /\ LOG_NEWEST_PARAMS(c).link = "newest"
         /\ LOG_OLDEST_PARAMS(c) \in Params /\ LOG_OLDEST_PARAMS(c).link = "oldest"
         /\ LOG_NEWEST_PARAMS(c).container = c /\ LOG_OLDEST_PARAMS(c).container = c
  <1>1. LOG_PER_VIEW \in Nat /\ Newest \in Int /\ Oldest \in Int /\ 0 \in Int
    BY ContainerLogAssumption DEF Newest, Oldest
  <1>2. /\ LOG_MAX_SIZE \in Int /\ LOG_MAX_SIZE + LOG_PER_VIEW \in Int
        /\ - LOG_MAX_SIZE - LOG_PER_VIEW \in Int /\ - LOG_MAX_SIZE \in Int
    BY <1>1 DEF LOG_MAX_SIZE
  <1>3. {"end", "beginning"} \subseteq Position /\ {"newest", "oldest"} \subseteq Link
    BY DEF Position, Link
  <1>. HIDE DEF Newest, Oldest, LOG_MAX_SIZE
  <1>. QED
    BY <1>1, <1>2, <1>3 DEF LOG_NEWEST_PARAMS, LOG_OLDEST_PARAMS, Params

LEMMA PagesInitEstablishes == PagesInit => PagesInv
  <1>. SUFFICES ASSUME PagesInit
                PROVE  PagesInv
    OBVIOUS
  <1>1. idle \in PageDirective
    BY DEF idle, PageDirective
  <1>2. logData \in PageDirective /\ logData.request = pending /\ logData.loading
    BY <1>1, PageDirectives DEF PagesInit
  <1>3. PICK c \in Container : params = LOG_NEWEST_PARAMS(c)
    BY DEF PagesInit
  <1>4. params \in Params /\ params.link = "newest"
    BY <1>3, LinkShapes
  <1>5. <<>> \in TimedLog /\ Len(<<>>) = 0
    BY DEF TimedLog
  <1>6. /\ times \in [Container -> TimedLog] /\ rotated \in [Container -> Nat]
        /\ \A x \in Container : rotated[x] <= Len(times[x])
    BY <1>5 DEF PagesInit
  <1>7. PagesShape
    BY <1>2, <1>4, <1>6, NoSelectionShape DEF PagesShape, PagesInit
  <1>8. ~ BesideAsked /\ ~ Answered
    BY <1>2, <1>4, PendingShape DEF BesideAsked, Answered
  <1>. QED
    BY <1>2, <1>7, <1>8 DEF PagesInv, PagesOfLog, AskedOnce, AnswerAdjoins

\* The log grows behind and is dropped in front: pages stay pages of it.
LEMMA LogMoves ==
  ASSUME PagesInv, NEW c \in Container, LineWritten(c) \/ LinesDropped(c)
  PROVE  PagesInv'
  <1>1. /\ times \in [Container -> TimedLog] /\ rotated \in [Container -> Nat]
        /\ \A x \in Container : rotated[x] <= Len(times[x]) /\ Len(times[x]) \in Nat
    BY DEF PagesInv, PagesShape, TimedLog
  <1>2. UNCHANGED <<params, pullEnabled, contents, selection, logData>>
    BY DEF LineWritten, LinesDropped
  <1>3. /\ times' \in [Container -> TimedLog] /\ rotated' \in [Container -> Nat]
        /\ \A x \in Container :
             /\ rotated'[x] <= Len(times'[x]) /\ rotated[x] <= rotated'[x]
             /\ Len(times[x]) <= Len(times'[x]) /\ Len(times'[x]) \in Nat
             /\ \A i \in 1 .. Len(times[x]) : times'[x][i] = times[x][i]
    <2>1. CASE LineWritten(c)
      <3>. DEFINE log == times[c]
                  lastTime == IF log = <<>> THEN 1 ELSE Last(log)
      <3>1. log \in Seq(Nat \ {0}) /\ \A i, j \in 1 .. Len(log) : i <= j => log[i] <= log[j]
        BY <1>1 DEF TimedLog
      <3>2. PICK at \in {lastTime, lastTime + 1} \cap 1 .. MaxTime :
              times' = [times EXCEPT ![c] = Append(@, at)]
        BY <2>1 DEF LineWritten
      <3>. HIDE DEF log
      <3>3. /\ lastTime \in Nat \ {0} /\ \A i \in 1 .. Len(log) : log[i] <= lastTime
            /\ Len(log) \in Nat /\ \A i \in 1 .. Len(log) : log[i] \in Nat \ {0}
        <4>1. CASE log = <<>>
          BY <4>1
        <4>2. CASE log # <<>>
          <5>1. Len(log) \in 1 .. Len(log) /\ Len(log) \in Nat
            BY <3>1, <4>2
          <5>2. lastTime = log[Len(log)]
            BY <4>2 DEF Last
          <5>3. \A i \in 1 .. Len(log) : log[i] <= log[Len(log)] /\ log[i] \in Nat \ {0}
            BY <3>1, <5>1
          <5>. QED
            BY <5>1, <5>2, <5>3
        <4>. QED
          BY <4>1, <4>2
      <3>. HIDE DEF lastTime
      <3>4. at \in Nat \ {0} /\ \A i \in 1 .. Len(log) : log[i] <= at
        BY <3>2, <3>3
      <3>. DEFINE longer == Append(log, at)
      <3>5. /\ longer \in Seq(Nat \ {0}) /\ Len(longer) = Len(log) + 1
            /\ \A i \in 1 .. Len(log) : longer[i] = log[i]
            /\ longer[Len(log) + 1] = at
        BY <3>1, <3>4, AppendProperties
      <3>. HIDE DEF longer
      <3>6. \A i, j \in 1 .. Len(longer) : i <= j => longer[i] <= longer[j]
        <4>. SUFFICES ASSUME NEW i \in 1 .. Len(longer), NEW j \in 1 .. Len(longer), i <= j
                      PROVE  longer[i] <= longer[j]
          OBVIOUS
        <4>1. CASE j \in 1 .. Len(log)
          <5>1. i \in 1 .. Len(log)
            BY <4>1
          <5>. QED
            BY <3>1, <3>5, <4>1, <5>1
        <4>2. CASE j = Len(log) + 1 /\ i \in 1 .. Len(log)
          BY <3>4, <3>5, <4>2
        <4>3. CASE j = Len(log) + 1 /\ i = Len(log) + 1
          BY <3>4, <3>5, <4>3
        <4>. QED
          BY <3>3, <3>5, <4>1, <4>2, <4>3
      <3>7. longer \in TimedLog
        BY <3>5, <3>6 DEF TimedLog
      <3>8. times' = [times EXCEPT ![c] = longer]
        BY <3>2 DEF longer, log
      <3>9. rotated' = rotated
        BY <2>1 DEF LineWritten
      <3>10. times' \in [Container -> TimedLog]
        BY <1>1, <3>7, <3>8
      <3>11. ASSUME NEW x \in Container
             PROVE  /\ rotated'[x] <= Len(times'[x]) /\ rotated[x] <= rotated'[x]
                    /\ Len(times[x]) <= Len(times'[x]) /\ Len(times'[x]) \in Nat
                    /\ \A i \in 1 .. Len(times[x]) : times'[x][i] = times[x][i]
        <4>1. CASE x = c
          <5>1. times'[x] = longer /\ times[x] = log
            BY <1>1, <3>8, <4>1 DEF log
          <5>2. rotated[x] \in Nat /\ rotated[x] <= Len(log)
            BY <1>1, <5>1
          <5>. QED
            BY <3>3, <3>5, <3>9, <5>1, <5>2
        <4>2. CASE x # c
          BY <1>1, <3>8, <3>9, <4>2
        <4>. QED
          BY <4>1, <4>2
      <3>. QED
        BY <1>1, <3>9, <3>10, <3>11
    <2>2. CASE LinesDropped(c)
      <3>1. PICK n \in rotated[c] + 1 .. Len(times[c]) : rotated' = [rotated EXCEPT ![c] = n]
        BY <2>2 DEF LinesDropped
      <3>2. times' = times
        BY <2>2 DEF LinesDropped
      <3>3. rotated[c] \in Nat /\ n \in Nat /\ rotated[c] <= n /\ n <= Len(times[c])
        BY <1>1
      <3>. QED
        BY <1>1, <3>1, <3>2, <3>3
    <2>. QED
      BY <2>1, <2>2
  <1>4. params.container \in Container
    BY DEF PagesInv, PagesShape, Params
  <1>5. ASSUME NEW lines, NEW s, OfLog(lines, s)
        PROVE  PageOf(lines, s, times'[params.container], rotated'[params.container])
    <2>. DEFINE log == times[params.container]
                gone == rotated[params.container]
                longer == times'[params.container]
                later == rotated'[params.container]
    <2>1. /\ log \in TimedLog /\ longer \in TimedLog
          /\ gone \in 0 .. Len(log) /\ later \in 0 .. Len(longer)
          /\ gone <= later /\ Len(log) <= Len(longer)
          /\ \A i \in 1 .. Len(log) : longer[i] = log[i]
      BY <1>1, <1>3, <1>4
    <2>2. PageOf(lines, s, log, gone)
      BY <1>5 DEF OfLog
    <2>. HIDE DEF log, gone, longer, later
    <2>3. PageOf(lines, s, longer, later)
      BY <2>1, <2>2, PageStays
    <2>. QED
      BY <2>3 DEF longer, later
  <1>6. PagesShape'
    BY <1>2, <1>3 DEF PagesInv, PagesShape
  <1>7. PagesOfLog'
    <2>1. /\ ~ logData.loading \/ BesideAsked =>
               PageOf(contents, selection, times'[params.container], rotated'[params.container])
          /\ Answered => PageOf(logData.request.lines, logData.request.selection,
                                times'[params.container], rotated'[params.container])
      BY <1>5 DEF PagesInv, PagesOfLog
    <2>. QED
      BY <1>2, <2>1 DEF PagesOfLog, OfLog, BesideAsked, Answered
  <1>8. AskedOnce' /\ AnswerAdjoins'
    BY <1>2 DEF PagesInv, AskedOnce, AnswerAdjoins, BesideAsked, Answered
  <1>. QED
    BY <1>6, <1>7, <1>8 DEF PagesInv

\* The log that is asked for.
LEMMA LogAsked ==
  ASSUME PagesInv
  PROVE  LET log == times[params.container]
             gone == rotated[params.container]
         IN /\ params.container \in Container
            /\ log \in TimedLog /\ gone \in 0 .. Len(log)
  <1>1. params.container \in Container
    BY DEF PagesInv, PagesShape, Params
  <1>2. /\ times[params.container] \in TimedLog /\ rotated[params.container] \in Nat
        /\ rotated[params.container] <= Len(times[params.container])
    BY <1>1 DEF PagesInv, PagesShape
  <1>3. Len(times[params.container]) \in Nat
    BY <1>2 DEF TimedLog
  <1>. QED
    BY <1>1, <1>2, <1>3

LEMMA GetLogsPages ==
  ASSUME PagesInv, GetLogs
  PROVE  PagesInv'
  <1>. DEFINE c == params.container
              log == times[c]
              gone == rotated[c]
  <1>1. log \in TimedLog /\ gone \in 0 .. Len(log)
    BY LogAsked
  <1>2. params \in Params /\ selection \in Selection /\ logData \in PageDirective
    BY DEF PagesInv, PagesShape
  <1>3. UNCHANGED <<times, rotated, params, pullEnabled, contents, selection>>
    BY DEF GetLogs, logFile
  <1>4. PICK lines \in readRawLogs(c, params.position) \cup {errorText} :
          LET answer == SelectLogs(lines, params)
          IN logData' = [logData EXCEPT !.request =
                           [lines |-> answer.lines, selection |-> answer.selection, done |-> TRUE]]
    BY DEF GetLogs
  <1>. DEFINE new == SelectLogs(lines, params).lines
              read == SelectLogs(lines, params).selection
  <1>5. SelectLogs(lines, params) = [lines |-> new, selection |-> read]
    BY DEF SelectLogs
  <1>6. PICK L \in readRawLogs(c, params.position) : lines \in {L, errorText}
    <2>1. readRawLogs(c, params.position) # {}
      BY DEF readRawLogs
    <2>. QED
      BY <2>1
  <1>7. PICK lo, hi \in Nat, half \in {0, 1} :
          /\ L = reading(log, lo, hi, half)
          /\ lo = lowest(Len(log), gone, params.position)
          /\ hi = highest(Len(log), gone, params.position)
          /\ WasRead(Len(log), gone, params.position, lo, hi, half)
    BY <1>1, ReadNow
  <1>8. lines \in {reading(log, lo, hi, half), errorText}
    BY <1>6, <1>7
  <1>9. logData' = [logData EXCEPT !.request = [lines |-> new, selection |-> read, done |-> TRUE]]
    BY <1>4
  <1>10. asking
    BY DEF GetLogs
  <1>. HIDE DEF c, log, gone, new, read
  <1>11. new \in Seq(Int) /\ read \in Selection /\ PageOf(new, read, log, gone)
    BY <1>1, <1>2, <1>5, <1>7, <1>8, AnswerIsPage
  <1>12. /\ logData'.request = [lines |-> new, selection |-> read, done |-> TRUE]
         /\ logData' \in PageDirective
         /\ logData'.loading = logData.loading /\ logData'.timer = logData.timer
    BY <1>2, <1>9, <1>11 DEF PageDirective, PageReply
  <1>13. logData.request # NoRequest
    BY <1>10 DEF asking
  <1>14. PagesShape'
    BY <1>3, <1>12 DEF PagesInv, PagesShape
  <1>15. AskedOnce'
    BY <1>3, <1>12, <1>13 DEF PagesInv, AskedOnce, BesideAsked
  <1>16. PagesOfLog'
    <2>1. ~ logData'.loading \/ BesideAsked' => OfLog(contents, selection)'
      BY <1>3, <1>12 DEF PagesInv, PagesOfLog, OfLog, BesideAsked
    <2>2. OfLog(logData.request.lines, logData.request.selection)'
      BY <1>3, <1>11, <1>12 DEF OfLog, c, log, gone
    <2>. QED
      BY <2>1, <2>2 DEF PagesOfLog
  <1>17. Adjoins(contents, selection, new, read, params.link)
    <2>1. CASE BesideAsked
      <3>1. PageOf(contents, selection, log, gone)
        BY <2>1 DEF PagesInv, PagesOfLog, OfLog, c, log, gone
      <3>2. IsBeside(params, selection) /\ params.link \in {"older", "newer"}
        BY <1>13, <2>1 DEF PagesInv, AskedOnce, BesideAsked
      <3>. QED
        BY <1>1, <1>2, <1>5, <1>7, <1>8, <3>1, <3>2, AnswerBeside
    <2>2. CASE ~ BesideAsked
      BY <2>2 DEF BesideAsked, Adjoins
    <2>. QED
      BY <2>1, <2>2
  <1>18. AnswerAdjoins'
    BY <1>3, <1>12, <1>17 DEF AnswerAdjoins
  <1>. QED
    BY <1>14, <1>15, <1>16, <1>18 DEF PagesInv

LEMMA LogsArrivePages ==
  ASSUME PagesInv, LogsArrive
  PROVE  PagesInv'
  <1>1. /\ params \in Params /\ selection \in Selection /\ logData \in PageDirective
        /\ pullEnabled \in BOOLEAN
    BY DEF PagesInv, PagesShape
  <1>2. /\ UNCHANGED <<times, rotated, params, pullEnabled>>
        /\ contents' = logData.request.lines /\ selection' = logData.request.selection
        /\ logData' = resulted(logData, FALSE, pullEnabled)
        /\ logData.request # NoRequest /\ Answered
    BY DEF LogsArrive, logFile, Answered
  <1>3. logData.request \in PageReply
    BY <1>1, <1>2 DEF PageDirective
  <1>4. /\ logData' \in PageDirective /\ logData'.request = NoRequest
        /\ ~ logData'.loading /\ logData'.timer = pullEnabled
    BY <1>1, <1>2, PageDirectives
  <1>5. contents' \in Seq(Int) /\ selection' \in Selection
    BY <1>2, <1>3 DEF PageReply
  <1>6. PagesShape'
    BY <1>2, <1>4, <1>5 DEF PagesInv, PagesShape
  <1>7. PagesOfLog'
    BY <1>2, <1>4 DEF PagesInv, PagesOfLog, OfLog, Answered
  <1>8. AskedOnce'
    BY <1>2, <1>4 DEF PagesInv, AskedOnce, BesideAsked
  <1>9. AnswerAdjoins'
    BY <1>4 DEF AnswerAdjoins, Answered
  <1>. QED
    BY <1>6, <1>7, <1>8, <1>9 DEF PagesInv

LEMMA GetLogsFailsPages ==
  ASSUME PagesInv, GetLogsFails
  PROVE  PagesInv'
  <1>1. logData \in PageDirective /\ pullEnabled \in BOOLEAN
    BY DEF PagesInv, PagesShape
  <1>2. /\ UNCHANGED <<times, rotated, params, pullEnabled>>
        /\ contents' = <<>> /\ selection' = noSelection
        /\ logData' = resulted(logData, TRUE, pullEnabled)
    BY DEF GetLogsFails, logFile
  <1>3. /\ logData' \in PageDirective /\ logData'.request = NoRequest
        /\ ~ logData'.loading /\ logData'.timer = pullEnabled
    <2>. DEFINE d == resulted(logData, TRUE, pullEnabled)
    <2>1. /\ d \in PageDirective /\ d.request = NoRequest
          /\ ~ d.loading /\ d.timer = pullEnabled
      BY <1>1 DEF resulted, PageDirective
    <2>. QED
      BY <1>2, <2>1, Zenon
  <1>4. PagesShape'
    <2>1. <<>> \in Seq(Int)
      OBVIOUS
    <2>2. contents' \in Seq(Int) /\ selection' \in Selection
      BY <1>2, <2>1, NoSelectionShape
    <2>. QED
      BY <1>2, <1>3, <2>2 DEF PagesInv, PagesShape
  <1>5. PagesOfLog'
    BY <1>2, <1>3 DEF PagesOfLog, OfLog, PageOf, Answered
  <1>6. AskedOnce'
    BY <1>2, <1>3 DEF PagesInv, AskedOnce, BesideAsked
  <1>7. AnswerAdjoins'
    BY <1>3 DEF AnswerAdjoins, Answered
  <1>. QED
    BY <1>4, <1>5, <1>6, <1>7 DEF PagesInv

\* Nothing is pulled behind an older or newer page.
LEMMA PullLogsPages ==
  ASSUME PagesInv, PullLogs
  PROVE  PagesInv'
  <1>1. logData \in PageDirective
    BY DEF PagesInv, PagesShape
  <1>2. /\ UNCHANGED <<times, rotated, params, pullEnabled, contents, selection>>
        /\ logData.timer /\ logData' = fired(logData, pending)
    BY DEF PullLogs, logFile
  <1>3. /\ logData' \in PageDirective /\ logData'.request = pending
        /\ logData'.loading /\ ~ logData'.timer
    BY <1>1, <1>2, PageDirectives
  <1>4. ~ BesideAsked /\ ~ BesideAsked'
    BY <1>2 DEF PagesInv, AskedOnce, BesideAsked
  <1>5. ~ Answered'
    BY <1>3, PendingShape DEF Answered
  <1>6. PagesShape'
    BY <1>2, <1>3 DEF PagesInv, PagesShape
  <1>. QED
    BY <1>3, <1>4, <1>5, <1>6 DEF PagesInv, PagesOfLog, AskedOnce, AnswerAdjoins

\* A request with nothing asked beside the page that is shown.
LEMMA AskedAnew ==
  ASSUME PagesInv, UNCHANGED <<times, rotated, contents, selection>>,
         params' \in Params, params'.link \notin {"older", "newer"}, pullEnabled' \in BOOLEAN,
         logData' = refetched(logData, pending)
  PROVE  PagesInv'
  <1>1. logData \in PageDirective
    BY DEF PagesInv, PagesShape
  <1>2. logData' \in PageDirective /\ logData'.request = pending /\ logData'.loading
    BY <1>1, PageDirectives
  <1>3. ~ BesideAsked'
    BY DEF BesideAsked
  <1>4. ~ Answered'
    BY <1>2, PendingShape DEF Answered
  <1>5. PagesShape'
    BY <1>2 DEF PagesInv, PagesShape
  <1>. QED
    BY <1>2, <1>3, <1>4, <1>5 DEF PagesInv, PagesOfLog, AskedOnce, AnswerAdjoins

LEMMA UpdatePagePages ==
  ASSUME PagesInv, NEW link \in {"oldest", "older", "newer", "newest"}, updatePage(link)
  PROVE  PagesInv'
  <1>1. /\ params \in Params /\ params.container \in Container /\ selection \in Selection
        /\ logData \in PageDirective /\ pullEnabled \in BOOLEAN
    BY DEF PagesInv, PagesShape, Params
  <1>2. /\ UNCHANGED <<times, rotated, pullEnabled, contents, selection>>
        /\ ~ pullEnabled /\ ~ logData.loading /\ logData' = refetched(logData, pending)
    BY DEF updatePage, logFile
  <1>3. CASE link = "oldest"
    <2>1. params' = LOG_OLDEST_PARAMS(params.container)
      BY <1>3 DEF updatePage
    <2>. QED
      BY <1>1, <1>2, <2>1, LinkShapes, AskedAnew
  <1>4. CASE link = "newest"
    <2>1. params' = LOG_NEWEST_PARAMS(params.container)
      BY <1>4 DEF updatePage
    <2>. QED
      BY <1>1, <1>2, <2>1, LinkShapes, AskedAnew
  <1>5. CASE link \in {"older", "newer"}
    <2>1. /\ link = "newer" => params' = beside(selection.to, selection.to + LOG_PER_VIEW, link)
          /\ link = "older" => params' = beside(selection.from - LOG_PER_VIEW, selection.from, link)
      BY <1>5 DEF updatePage
    <2>2. PICK from \in Int, to \in Int :
            /\ params' = beside(from, to, link)
            /\ link = "newer" => from = selection.to /\ to = selection.to + LOG_PER_VIEW
            /\ link = "older" => from = selection.from - LOG_PER_VIEW /\ to = selection.from
      <3>1. LOG_PER_VIEW \in Nat /\ selection.to \in Int /\ selection.from \in Int
        BY <1>1, ContainerLogAssumption DEF Selection
      <3>2. selection.to + LOG_PER_VIEW \in Int /\ selection.from - LOG_PER_VIEW \in Int
        BY <3>1
      <3>. QED
        BY <1>5, <2>1, <3>1, <3>2
    <2>3. /\ selection.position \in Position /\ selection.at \in Int /\ selection.num \in Int
          /\ link \in Link
      BY <1>1, <1>5 DEF Selection, Link
    <2>4. params' = [container |-> params.container, position |-> selection.position,
                     at |-> selection.at, num |-> selection.num, from |-> from, to |-> to,
                     link |-> link]
      BY <2>2 DEF beside
    <2>5. params' \in Params
      BY <1>1, <2>3, <2>4 DEF Params
    <2>6. params'.container = params.container /\ params'.link = link
      BY <2>4
    <2>7. IsBeside(params', selection')
      BY <1>2, <2>2, <2>4 DEF IsBeside
    <2>8. /\ logData' \in PageDirective /\ logData'.request = pending
          /\ logData'.loading /\ logData'.timer = logData.timer
      BY <1>1, <1>2, PageDirectives
    <2>9. ~ logData.timer
      BY <1>2 DEF PagesInv, AskedOnce
    <2>10. ~ Answered'
      BY <2>8, PendingShape DEF Answered
    <2>11. PagesShape'
      BY <1>2, <2>5, <2>8 DEF PagesInv, PagesShape
    <2>12. OfLog(contents, selection)'
      BY <1>2, <2>6 DEF PagesInv, PagesOfLog, OfLog
    <2>13. AskedOnce'
      BY <1>2, <2>7, <2>8, <2>9 DEF AskedOnce
    <2>. QED
      BY <2>10, <2>11, <2>12, <2>13 DEF PagesInv, PagesOfLog, AnswerAdjoins
  <1>. QED
    BY <1>3, <1>4, <1>5

LEMMA PullEnabledPages ==
  ASSUME PagesInv, onPullEnabledChange
  PROVE  PagesInv'
  <1>1. params.container \in Container /\ pullEnabled \in BOOLEAN
    BY DEF PagesInv, PagesShape, Params
  <1>2. params' = LOG_NEWEST_PARAMS(params.container) /\ pullEnabled' \in BOOLEAN
    BY <1>1 DEF onPullEnabledChange
  <1>3. params' \in Params /\ params'.link \notin {"older", "newer"}
    BY <1>1, <1>2, LinkShapes
  <1>. QED
    BY <1>2, <1>3, AskedAnew DEF onPullEnabledChange, logFile

LEMMA ContainerChosenPages ==
  ASSUME PagesInv, NEW c \in Container, selectedContainerChange(c)
  PROVE  PagesInv'
  <1>1. params \in Params /\ pullEnabled \in BOOLEAN
    BY DEF PagesInv, PagesShape
  <1>2. params' = [params EXCEPT !.container = c, !.link = "none"]
    BY DEF selectedContainerChange
  <1>3. params' \in Params /\ params'.link = "none"
    BY <1>1, <1>2 DEF Params, Link
  <1>4. UNCHANGED <<times, rotated, pullEnabled, contents, selection>>
    BY DEF selectedContainerChange, logFile
  <1>5. logData' = refetched(logData, pending)
    BY DEF selectedContainerChange
  <1>. QED
    BY <1>1, <1>3, <1>4, <1>5, AskedAnew

LEMMA PagesNextPreserves ==
  ASSUME PagesInv, [PagesNext]_pageVars
  PROVE  PagesInv'
  <1>1. CASE UNCHANGED pageVars
    <2>1. UNCHANGED <<times, rotated, params, pullEnabled, contents, selection, logData>>
      BY <1>1 DEF pageVars, logFile
    <2>. QED
      BY <2>1 DEF PagesInv, PagesShape, PagesOfLog, OfLog, AskedOnce, AnswerAdjoins,
                  BesideAsked, Answered
  <1>2. CASE PagesNext
    <2>1. CASE \E c \in Container : LineWritten(c) \/ LinesDropped(c)
      BY <2>1, LogMoves
    <2>2. CASE \E c \in Container : selectedContainerChange(c)
      BY <2>2, ContainerChosenPages
    <2>3. CASE GetLogs
      BY <2>3, GetLogsPages
    <2>4. CASE LogsArrive
      BY <2>4, LogsArrivePages
    <2>5. CASE GetLogsFails
      BY <2>5, GetLogsFailsPages
    <2>6. CASE PullLogs
      BY <2>6, PullLogsPages
    <2>7. CASE \E link \in {"oldest", "older", "newer", "newest"} : updatePage(link)
      BY <2>7, UpdatePagePages
    <2>8. CASE onPullEnabledChange
      BY <2>8, PullEnabledPages
    <2>. QED
      BY <1>2, <2>1, <2>2, <2>3, <2>4, <2>5, <2>6, <2>7, <2>8 DEF PagesNext
  <1>. QED
    BY <1>1, <1>2

\* However the lines of a container are written and rotated while its log is read, the
\* older page ends where the page that was shown began and the newer one begins where
\* it ended, as far as the log still goes: the reference point that updatePage sends
\* back is found again by LogLines as the line it named.
THEOREM PagesAdjoinAlways == PagesSpec => PagesAdjoin
  <1>. DEFINE Beside ==
         LET new == logData.request.lines
             read == logData.request.selection
         IN LogsArrive /\ contents # <<>> /\ new # <<>>
              /\ (selection.closed \/ selection.first = read.first)
            => /\ params.link = "older" =>
                    \/ Last(new) = Head(contents) - 1
                    \/ Head(new) = read.first /\ Last(new) >= Head(contents)
               /\ params.link = "newer" =>
                    \/ Head(new) = Last(contents) + 1
                    \/ Head(new) = read.first /\ Head(new) > Last(contents)
                    \/ Last(new) = read.last /\ Head(new) <= Last(contents)
  <1>1. PagesInv => Beside
    <2>. SUFFICES ASSUME PagesInv, LogsArrive
                  PROVE  Beside
      OBVIOUS
    <2>1. Answered
      BY DEF LogsArrive, Answered
    <2>. QED
      BY <2>1 DEF PagesInv, AnswerAdjoins, Adjoins
  <1>2. PagesInv /\ [PagesNext]_pageVars => [Beside]_pageVars
    BY <1>1
  <1>. HIDE DEF Beside
  <1>3. PagesSpec => []PagesInv
    BY PagesInitEstablishes, PagesNextPreserves, PTL DEF PagesSpec
  <1>4. PagesSpec => [][Beside]_pageVars
    BY <1>2, <1>3, PTL DEF PagesSpec
  <1>. QED
    BY <1>4 DEF PagesAdjoin, Beside

-----------------------------------------------------------------------------
(* The list of runs shows the answer to what is chosen, and a run that was *)
(* deleted does not come back, for any number of runs, branches, pages and *)
(* calls under way.                                                        *)

\* The shape of the state.
Shape ==
  /\ stored \subseteq made /\ made \subseteq HistoryId
  /\ activeBranch \in Branch \cup {NoBranch} /\ pageIndex \in Page /\ pageSize \in PageSize
  /\ pullInTime \in BOOLEAN
  /\ histories \in [query : Query, runs : SUBSET made]
  /\ list \in [request : ListRequest \cup {NoRequest}, timer : BOOLEAN,
               loading : BOOLEAN, error : BOOLEAN]
  /\ list.request # NoRequest => list.request.runs \subseteq made
  /\ calls \subseteq Call
  /\ deleted \subseteq made

\* A request that is under way is for what is chosen.
AsksForChoice ==
  list.request # NoRequest => list.request.query = queryBuilder

\* What a user was told is deleted, or will be told, is not on the server, and no
\* answer under way has it.
DeletedForGood ==
  /\ deleted \cap stored = {}
  /\ \A c \in calls : c.kind = "delete" =>
       /\ c.run \in made
       /\ c.done => c.run \notin stored
  /\ list.request # NoRequest => list.request.runs \cap deleted = {}

HistoriesInv == Shape /\ AsksForChoice /\ ListAnswersQuery /\ DeletedForGood /\ DeletedIsGone

-----------------------------------------------------------------------------
(* The directive.                                                          *)

\* A request for what is chosen is made.
LEMMA RefetchedShape ==
  ASSUME NEW d \in [request : ListRequest \cup {NoRequest}, timer : BOOLEAN,
                    loading : BOOLEAN, error : BOOLEAN],
         NEW q \in Query
  PROVE  LET e == refetched(d, listRequest(q)) IN
         /\ e \in [request : ListRequest \cup {NoRequest}, timer : BOOLEAN,
                   loading : BOOLEAN, error : BOOLEAN]
         /\ e.request # NoRequest /\ e.request.query = q /\ e.request.runs = {}
         /\ e.loading
  <1>1. listRequest(q) \in ListRequest
    BY DEF listRequest, ListRequest
  <1>2. listRequest(q) # NoRequest
    BY <1>1, HistoriesAssumption
  <1>. QED
    BY <1>1, <1>2 DEF refetched, listRequest

LEMMA FiredShape ==
  ASSUME NEW d \in [request : ListRequest \cup {NoRequest}, timer : BOOLEAN,
                    loading : BOOLEAN, error : BOOLEAN],
         NEW q \in Query
  PROVE  LET e == fired(d, listRequest(q)) IN
         /\ e \in [request : ListRequest \cup {NoRequest}, timer : BOOLEAN,
                   loading : BOOLEAN, error : BOOLEAN]
         /\ e.request # NoRequest /\ e.request.query = q /\ e.request.runs = {}
         /\ e.loading
  BY RefetchedShape DEF fired

LEMMA QueryBuilderShape ==
  ASSUME Shape
  PROVE  queryBuilder \in Query
  BY DEF Shape, queryBuilder, query, Query

\* Whatever is chosen and asked again, with the runs, calls and deletions as they
\* are or the ones of Told.
LEMMA RefreshPreserves ==
  ASSUME HistoriesInv, UNCHANGED <<made, stored, pullInTime, histories>>,
         NEW b \in Branch \cup {NoBranch}, NEW p \in Page, NEW s \in PageSize,
         historyRefresh(b, p, s),
         calls' \subseteq calls, deleted' \subseteq made, deleted' \cap stored = {}
  PROVE  HistoriesInv'
  <1>. DEFINE q == query(b, p, s)
  <1>1. q \in Query
    BY DEF query, Query
  <1>2. list' = refetched(list, listRequest(q)) /\ queryBuilder' = q
    BY DEF historyRefresh, queryBuilder
  <1>3. /\ list' \in [request : ListRequest \cup {NoRequest}, timer : BOOLEAN,
                      loading : BOOLEAN, error : BOOLEAN]
        /\ list'.request # NoRequest /\ list'.request.query = q /\ list'.request.runs = {}
        /\ list'.loading
    BY <1>1, <1>2, RefetchedShape DEF HistoriesInv, Shape
  <1>4. Shape'
    BY <1>3 DEF HistoriesInv, Shape, historyRefresh
  <1>5. AsksForChoice' /\ ListAnswersQuery' /\ DeletedIsGone'
    BY <1>2, <1>3 DEF AsksForChoice, ListAnswersQuery, DeletedIsGone
  <1>6. DeletedForGood'
    BY <1>3 DEF HistoriesInv, DeletedForGood
  <1>. QED
    BY <1>4, <1>5, <1>6 DEF HistoriesInv

-----------------------------------------------------------------------------
LEMMA HistoriesInitEstablishes == HistoriesInit => HistoriesInv
  <1>. SUFFICES ASSUME HistoriesInit
                PROVE  HistoriesInv
    OBVIOUS
  <1>1. pageSize \in PageSize /\ pageIndex \in Page
    BY HistoriesAssumption DEF HistoriesInit
  <1>2. queryBuilder \in Query
    BY <1>1 DEF HistoriesInit, queryBuilder, query, Query
  <1>3. resulted(idle, FALSE, TRUE) \in
          [request : ListRequest \cup {NoRequest}, timer : BOOLEAN,
           loading : BOOLEAN, error : BOOLEAN]
    BY DEF resulted
  <1>4. /\ list \in [request : ListRequest \cup {NoRequest}, timer : BOOLEAN,
                     loading : BOOLEAN, error : BOOLEAN]
        /\ list.request # NoRequest /\ list.request.query = queryBuilder
        /\ list.request.runs = {} /\ list.loading
    BY <1>2, <1>3, RefetchedShape DEF HistoriesInit
  <1>. QED
    BY <1>1, <1>2, <1>4
       DEF HistoriesInit, HistoriesInv, Shape, AsksForChoice, ListAnswersQuery, DeletedForGood,
           DeletedIsGone

\* The server changes; what the list has is left alone.
LEMMA ElsewherePreserves ==
  ASSUME HistoriesInv, NEW r \in HistoryId, StartElsewhere(r) \/ DeleteElsewhere(r)
  PROVE  HistoriesInv'
  <1>1. /\ stored' \subseteq made' /\ made \subseteq made' /\ made' \subseteq HistoryId
        /\ deleted \cap stored' = {}
        /\ \A c \in calls : c.kind = "delete" /\ c.done => c.run \notin stored'
    BY DEF HistoriesInv, Shape, DeletedForGood, StartElsewhere, DeleteElsewhere
  <1>2. UNCHANGED <<choice, pullInTime, histories, list, calls, deleted>>
    BY DEF StartElsewhere, DeleteElsewhere
  <1>3. Shape'
    BY <1>1, <1>2 DEF HistoriesInv, Shape, choice
  <1>4. AsksForChoice' /\ ListAnswersQuery' /\ DeletedIsGone'
    BY <1>2 DEF HistoriesInv, AsksForChoice, ListAnswersQuery, DeletedIsGone, queryBuilder, choice
  <1>5. DeletedForGood'
    BY <1>1, <1>2 DEF HistoriesInv, DeletedForGood
  <1>. QED
    BY <1>3, <1>4, <1>5 DEF HistoriesInv

\* A call is carried out.  A new run was never made before, so it is none of those
\* that are deleted.
LEMMA CarryOutPreserves ==
  ASSUME HistoriesInv, NEW c \in calls, CarryOut(c)
  PROVE  HistoriesInv'
  <1>. DEFINE d == [c EXCEPT !.done = TRUE]
  <1>1. c \in Call /\ d \in Call /\ d.kind = c.kind /\ d.run = c.run
    BY DEF HistoriesInv, Shape, Call
  <1>2. calls' = (calls \ {c}) \cup {d}
    BY DEF CarryOut
  <1>3. UNCHANGED <<choice, pullInTime, histories, list, deleted>>
    BY DEF CarryOut
  <1>4. /\ stored' \subseteq made' /\ made \subseteq made' /\ made' \subseteq HistoryId
        /\ stored' \subseteq stored \/ (c.run \notin made /\ stored' = stored \cup {c.run})
        /\ c.kind = "delete" => c.run \notin stored' /\ stored' \subseteq stored
    BY <1>1 DEF HistoriesInv, Shape, CarryOut, Call
  <1>5. Shape'
    BY <1>1, <1>2, <1>3, <1>4 DEF HistoriesInv, Shape, choice
  <1>6. AsksForChoice' /\ ListAnswersQuery' /\ DeletedIsGone'
    BY <1>3 DEF HistoriesInv, AsksForChoice, ListAnswersQuery, DeletedIsGone, queryBuilder, choice
  <1>7. deleted' \cap stored' = {}
    BY <1>3, <1>4 DEF HistoriesInv, Shape, DeletedForGood
  <1>8. \A e \in calls' : e.kind = "delete" => e.run \in made' /\ (e.done => e.run \notin stored')
    <2>. SUFFICES ASSUME NEW e \in calls', e.kind = "delete"
                  PROVE  e.run \in made' /\ (e.done => e.run \notin stored')
      OBVIOUS
    <2>1. CASE e \in calls
      BY <2>1, <1>4 DEF HistoriesInv, DeletedForGood
    <2>2. CASE e = d
      BY <2>2, <1>1, <1>4 DEF HistoriesInv, DeletedForGood
    <2>. QED
      BY <1>2, <2>1, <2>2
  <1>9. DeletedForGood'
    BY <1>3, <1>7, <1>8 DEF HistoriesInv, DeletedForGood
  <1>. QED
    BY <1>5, <1>6, <1>9 DEF HistoriesInv

\* The answer is made: it has no run that is deleted.
LEMMA ListRunsPreserves ==
  ASSUME HistoriesInv, ListRuns
  PROVE  HistoriesInv'
  <1>1. UNCHANGED <<made, stored, choice, pullInTime, histories, calls, deleted>>
    BY DEF ListRuns
  <1>2. list.request \in ListRequest /\ list.request # NoRequest
    BY DEF ListRuns, asksList, HistoriesInv, Shape
  <1>. DEFINE request == [query |-> list.request.query, runs |-> stored, made |-> TRUE]
  <1>3. request \in ListRequest /\ request # NoRequest
    <2>1. list.request.query \in Query
      BY <1>2 DEF ListRequest
    <2>2. stored \in SUBSET HistoryId
      BY DEF HistoriesInv, Shape
    <2>3. request \in ListRequest
      BY <2>1, <2>2 DEF ListRequest
    <2>. QED
      BY <2>3, HistoriesAssumption
  <1>4. list' = [list EXCEPT !.request = request]
    BY DEF ListRuns
  <1>5. /\ list' \in [request : ListRequest \cup {NoRequest}, timer : BOOLEAN,
                      loading : BOOLEAN, error : BOOLEAN]
        /\ list'.request = request
        /\ list'.loading = list.loading /\ list'.error = list.error
    BY <1>3, <1>4 DEF HistoriesInv, Shape
  <1>6. Shape'
    BY <1>1, <1>5 DEF HistoriesInv, Shape, choice
  <1>7. AsksForChoice' /\ ListAnswersQuery' /\ DeletedIsGone'
    BY <1>1, <1>2, <1>5
       DEF HistoriesInv, AsksForChoice, ListAnswersQuery, DeletedIsGone, queryBuilder, choice
  <1>8. DeletedForGood'
    BY <1>1, <1>5 DEF HistoriesInv, DeletedForGood
  <1>. QED
    BY <1>6, <1>7, <1>8 DEF HistoriesInv

\* The answer is shown, or the request failed: nothing is under way any more.
LEMMA AnswerPreserves ==
  ASSUME HistoriesInv, Show \/ ListFails
  PROVE  HistoriesInv'
  <1>1. UNCHANGED <<made, stored, choice, calls, deleted>>
    BY DEF Show, ListFails
  <1>2. list.request \in ListRequest /\ list.request # NoRequest
    BY DEF Show, hasList, ListFails, asksList, HistoriesInv, Shape
  <1>3. /\ list' \in [request : ListRequest \cup {NoRequest}, timer : BOOLEAN,
                      loading : BOOLEAN, error : BOOLEAN]
        /\ list'.request = NoRequest
        /\ pullInTime' \in BOOLEAN
    <2>1. pullInTime \in BOOLEAN
      BY DEF HistoriesInv, Shape
    <2>2. \E e \in BOOLEAN : list' = resulted(list, e, pullInTime)
      BY DEF Show, ListFails
    <2>3. pullInTime' \in BOOLEAN
      BY <2>1 DEF Show, ListFails
    <2>. QED
      BY <2>1, <2>2, <2>3 DEF resulted
  <1>4. /\ histories' \in [query : Query, runs : SUBSET made]
        /\ histories'.runs \cap deleted = {}
    <2>1. /\ list.request.query \in Query
          /\ list.request.runs \subseteq made /\ list.request.runs \cap deleted = {}
      BY <1>2 DEF HistoriesInv, Shape, DeletedForGood, ListRequest
    <2>2. histories \in [query : Query, runs : SUBSET made]
      BY DEF HistoriesInv, Shape
    <2>3. CASE Show
      BY <2>1, <2>3 DEF Show
    <2>4. CASE ListFails
      BY <2>2, <2>4 DEF ListFails
    <2>. QED
      BY <2>3, <2>4
  <1>5. list'.error \/ histories'.query = queryBuilder
    <2>1. CASE Show
      <3>1. list.request.query = queryBuilder
        BY <1>2 DEF HistoriesInv, AsksForChoice
      <3>. QED
        BY <2>1, <3>1 DEF Show
    <2>2. CASE ListFails
      BY <2>2 DEF ListFails, resulted
    <2>. QED
      BY <2>1, <2>2
  <1>6. Shape'
    BY <1>1, <1>3, <1>4 DEF HistoriesInv, Shape, choice
  <1>7. AsksForChoice' /\ ListAnswersQuery' /\ DeletedIsGone' /\ DeletedForGood'
    BY <1>1, <1>3, <1>4, <1>5
       DEF HistoriesInv, AsksForChoice, ListAnswersQuery, DeletedIsGone, DeletedForGood,
           queryBuilder, choice
  <1>. QED
    BY <1>6, <1>7 DEF HistoriesInv

LEMMA PullListPreserves ==
  ASSUME HistoriesInv, PullList
  PROVE  HistoriesInv'
  <1>1. UNCHANGED <<made, stored, choice, pullInTime, histories, calls, deleted>>
    BY DEF PullList
  <1>2. queryBuilder \in Query
    BY QueryBuilderShape DEF HistoriesInv
  <1>3. /\ list' \in [request : ListRequest \cup {NoRequest}, timer : BOOLEAN,
                      loading : BOOLEAN, error : BOOLEAN]
        /\ list'.request # NoRequest /\ list'.request.query = queryBuilder
        /\ list'.request.runs = {} /\ list'.loading
    BY <1>2, FiredShape DEF PullList, HistoriesInv, Shape
  <1>4. Shape'
    BY <1>1, <1>3 DEF HistoriesInv, Shape, choice
  <1>5. AsksForChoice' /\ ListAnswersQuery' /\ DeletedIsGone' /\ DeletedForGood'
    BY <1>1, <1>3
       DEF HistoriesInv, AsksForChoice, ListAnswersQuery, DeletedIsGone, DeletedForGood,
           queryBuilder, choice
  <1>. QED
    BY <1>4, <1>5 DEF HistoriesInv

-----------------------------------------------------------------------------
(* The user.                                                               *)

LEMMA ChoicePreserves ==
  ASSUME HistoriesInv,
         \/ \E p \in Page, s \in PageSize : PageChange(p, s)
         \/ SortChange
         \/ \E b \in Branch \cup {NoBranch} : ToggleBranch(b)
  PROVE  HistoriesInv'
  <1>1. /\ UNCHANGED <<made, stored, pullInTime, histories, calls, deleted>>
        /\ 0 \in Page
    BY HistoriesAssumption DEF PageChange, SortChange, ToggleBranch
  <1>2. PICK b \in Branch \cup {NoBranch}, p \in Page, s \in PageSize :
          historyRefresh(b, p, s)
    <2>1. activeBranch \in Branch \cup {NoBranch} /\ pageIndex \in Page /\ pageSize \in PageSize
      BY DEF HistoriesInv, Shape
    <2>2. CASE \E p \in Page, s \in PageSize : PageChange(p, s)
      BY <1>1, <2>1, <2>2 DEF PageChange
    <2>3. CASE SortChange
      BY <1>1, <2>1, <2>3 DEF SortChange, reset
    <2>4. CASE \E b \in Branch \cup {NoBranch} : ToggleBranch(b)
      BY <2>1, <2>4 DEF ToggleBranch
    <2>. QED
      BY <2>2, <2>3, <2>4
  <1>3. calls' \subseteq calls /\ deleted' \subseteq made /\ deleted' \cap stored = {}
    BY <1>1 DEF HistoriesInv, Shape, DeletedForGood
  <1>. QED
    BY <1>1, <1>2, <1>3, RefreshPreserves

\* A call is made or given up: no run is deleted by that.
LEMMA CallPreserves ==
  ASSUME HistoriesInv,
         \/ \E r \in HistoryId : \E kind \in {"delete", "make", "change"} : Do(kind, r)
         \/ \E c \in calls : ToldError(c)
  PROVE  HistoriesInv'
  <1>1. UNCHANGED <<made, stored, choice, pullInTime, histories, list, deleted>>
    BY DEF Do, ToldError
  <1>2. /\ calls' \subseteq Call
        /\ \A c \in calls' \ calls : ~ c.done /\ (c.kind = "delete" => c.run \in made)
    <2>1. CASE \E c \in calls : ToldError(c)
      BY <2>1 DEF ToldError, HistoriesInv, Shape
    <2>2. CASE \E r \in HistoryId : \E kind \in {"delete", "make", "change"} : Do(kind, r)
      <3>1. PICK r \in HistoryId, kind \in {"delete", "make", "change"} : Do(kind, r)
        BY <2>2
      <3>2. calls' = calls \cup {[kind |-> kind, run |-> r, done |-> FALSE]}
        BY <3>1 DEF Do
      <3>3. kind = "delete" => r \in made
        <4>1. histories.runs \subseteq made
          BY DEF HistoriesInv, Shape
        <4>2. ASSUME kind = "delete" PROVE r \in histories.runs
          BY <3>1, <4>2 DEF Do
        <4>. QED
          BY <4>1, <4>2
      <3>. QED
        <4>. DEFINE c == [kind |-> kind, run |-> r, done |-> FALSE]
        <4>1. c \in Call
          BY <3>1 DEF Call
        <4>2. c.kind = kind /\ c.run = r /\ ~ c.done
          OBVIOUS
        <4>3. calls \subseteq Call
          BY DEF HistoriesInv, Shape
        <4>. HIDE DEF c
        <4>4. calls' = calls \cup {c}
          BY <3>2 DEF c
        <4>. QED
          BY <3>3, <4>1, <4>2, <4>3, <4>4
    <2>. QED
      BY <2>1, <2>2
  <1>3. Shape'
    BY <1>1, <1>2 DEF HistoriesInv, Shape, choice
  <1>4. DeletedForGood'
    BY <1>1, <1>2 DEF HistoriesInv, DeletedForGood
  <1>5. AsksForChoice' /\ ListAnswersQuery' /\ DeletedIsGone'
    BY <1>1 DEF HistoriesInv, AsksForChoice, ListAnswersQuery, DeletedIsGone, queryBuilder, choice
  <1>. QED
    BY <1>3, <1>4, <1>5 DEF HistoriesInv

\* The user is told: the list is asked again at once, which drops the answers that
\* may still have the run.
LEMMA ToldPreserves ==
  ASSUME HistoriesInv, NEW c \in calls, Told(c)
  PROVE  HistoriesInv'
  <1>1. UNCHANGED <<made, stored, pullInTime, histories>> /\ 0 \in Page
    BY HistoriesAssumption DEF Told
  <1>2. PICK p \in Page : historyRefresh(activeBranch, p, pageSize)
    BY <1>1 DEF Told, reset, HistoriesInv, Shape
  <1>3. calls' \subseteq calls /\ deleted' \subseteq made /\ deleted' \cap stored = {}
    BY DEF Told, HistoriesInv, Shape, DeletedForGood
  <1>4. activeBranch \in Branch \cup {NoBranch} /\ pageSize \in PageSize
    BY DEF HistoriesInv, Shape
  <1>. QED
    BY <1>1, <1>2, <1>3, <1>4, RefreshPreserves

-----------------------------------------------------------------------------
LEMMA HistoriesNextPreserves == HistoriesInv /\ [HistoriesNext]_historyVars => HistoriesInv'
  <1>. SUFFICES ASSUME HistoriesInv, [HistoriesNext]_historyVars
                PROVE  HistoriesInv'
    OBVIOUS
  <1>1. CASE \E r \in HistoryId : StartElsewhere(r) \/ DeleteElsewhere(r)
    BY <1>1, ElsewherePreserves
  <1>2. CASE \E c \in calls : CarryOut(c) \/ Told(c) \/ ToldError(c)
    BY <1>2, CarryOutPreserves, ToldPreserves, CallPreserves
  <1>3. CASE ListRuns \/ Show \/ ListFails \/ PullList
    BY <1>3, ListRunsPreserves, AnswerPreserves, PullListPreserves
  <1>4. CASE UserNext
    BY <1>4, ChoicePreserves, CallPreserves DEF UserNext
  <1>5. CASE UNCHANGED historyVars
    <2>1. UNCHANGED <<made, stored, activeBranch, pageSize, pageIndex, pullInTime,
                      histories, list, calls, deleted>>
      BY <1>5 DEF historyVars, choice
    <2>. QED
      BY <2>1 DEF HistoriesInv, Shape, AsksForChoice, ListAnswersQuery, DeletedForGood,
                  DeletedIsGone, queryBuilder
  <1>. QED
    BY <1>1, <1>2, <1>3, <1>4, <1>5 DEF HistoriesNext

\* For any number of branches, pages and calls: what is shown is the answer to what
\* is chosen (histories.component.ts), because every choice drops the request that
\* was made for another one.
THEOREM ListAnswersQueryAlways == HistoriesSpec => []ListAnswersQuery
  <1>1. HistoriesInv => ListAnswersQuery
    BY DEF HistoriesInv
  <1>. QED
    BY <1>1, HistoriesInitEstablishes, HistoriesNextPreserves, PTL DEF HistoriesSpec

\* For any number of runs and calls: a run that the user was told is deleted does
\* not come back into the list (history-table.component.ts).
THEOREM DeletedIsGoneAlways == HistoriesSpec => []DeletedIsGone
  <1>1. HistoriesInv => DeletedIsGone
    BY DEF HistoriesInv
  <1>. QED
    BY <1>1, HistoriesInitEstablishes, HistoriesNextPreserves, PTL DEF HistoriesSpec

=============================================================================
