---------------------------- MODULE ContainerLog -----------------------------
(***************************************************************************)
(* The log of a container, page by page: the lines that the backend picks  *)
(* from what it reads (resource/logs, resource/container), and the         *)
(* component that asks for them (application-log.component.ts).  Lines are *)
(* written and rotated meanwhile, so a page is asked for by its distance   *)
(* from a line that is named by its time, and by its place among the lines *)
(* of that time.                                                           *)
(***************************************************************************)
EXTENDS AsyncData, Integers, FiniteSetsExt, SequencesExt

CONSTANTS
  Container,       \* the containers the user can choose from
  LOG_PER_VIEW,    \* 100 in the code
  lineReadLimit,   \* 5000 in the code; the limit in bytes is counted in lines too.
                   \* More than one: the reference point is not the line that is cut
  MaxLines,        \* bound: lines that a container writes
  MaxTime          \* bound: different times

Newest == -1       \* "newest", and the timestamp "", which the handler replaces
Oldest == -2       \* "oldest"
NoTime == 0        \* "0", of a line that does not start with a timestamp
LOG_MAX_SIZE == 2000000000
LINE_INDEX_NOT_FOUND == -1

ASSUME ContainerLogAssumption ==
  /\ MaxLines \in [Container -> Nat] /\ MaxTime \in Nat
  /\ LOG_PER_VIEW \in Nat \ {0} /\ lineReadLimit \in Nat \ {0, 1}

VARIABLES
  times,         \* for every container, the timestamps of all lines it has written
  rotated,       \* and how many of the first are gone
  params,        \* what is asked for; link is the link that asked for it
  pullEnabled,
  contents,      \* the numbers of the lines that are shown
  selection,     \* what was answered with them
  logData        \* the directive

logFile == <<times, rotated>>
pageVars == <<logFile, params, pullEnabled, contents, selection, logData>>

-----------------------------------------------------------------------------
(* What is read of a log.                                                  *)

kept(c) ==
  [i \in 1 .. Len(times[c]) - rotated[c] |->
     [no |-> rotated[c] + i, at |-> times[c][rotated[c] + i]]]

\* mapToLogOptions: from the beginning up to a number of bytes, or else the last
\* lines.  A line that is cut in its timestamp gets NoTime from ToLogLines.  If the
\* log cannot be read, the error is shown as if it were the log.
readRawLogs(c, position) ==
  LET lines == kept(c)
      head == SubSeq(lines, 1, lineReadLimit)
  IN IF Len(lines) <= lineReadLimit THEN {lines}
     ELSE IF position # "beginning"
     THEN {SubSeq(lines, Len(lines) - lineReadLimit + 1, Len(lines))}
     ELSE {head, Append(head, [lines[lineReadLimit + 1] EXCEPT !.at = NoTime])}

errorText == <<[no |-> 0, at |-> NoTime]>>

-----------------------------------------------------------------------------
(* LogLines.  Indices count from 0.                                        *)

Index(lines) == 0 .. Len(lines) - 1
sameTime(lines, i, j) == \A k \in i .. j : lines[k + 1].at = lines[i + 1].at

\* The first lines in a row that have the time of the reference point.
getLineIndex(lines, at, num) ==
  IF at = Newest \/ lines = <<>> THEN Len(lines) - 1
  ELSE IF at = Oldest THEN 0
  ELSE LET matching == {i \in Index(lines) : lines[i + 1].at = at}
           row == {i \in matching : sameTime(lines, Min(matching), i)}
           offset == IF num < 0 THEN Cardinality(row) + num ELSE num - 1
       IN IF 0 <= offset /\ offset < Cardinality(row) THEN Min(row) + offset
          ELSE LINE_INDEX_NOT_FOUND

\* Lines of one time are always counted from the first.
createLogLineNum_first(lines, i) == Cardinality({j \in 0 .. i : sameTime(lines, j, i)})

\* They are counted from the last, which stay longest, unless there may be more.
createLogLineNum(lines, i) ==
  IF Last(lines).at = lines[i + 1].at
  THEN Cardinality({j \in 0 .. i : sameTime(lines, j, i)})
  ELSE - Cardinality({j \in i .. Len(lines) - 1 : sameTime(lines, i, j)})

\* A page that reaches over an end is moved to it; one larger than n is cut.
fromIndex(n, from, to) ==
  IF to - from > n THEN 0 ELSE IF to > n THEN from - (to - n) ELSE IF from < 0 THEN 0 ELSE from
toIndex(n, from, to) ==
  IF to - from > n \/ to > n THEN n ELSE IF from < 0 THEN to - from ELSE to

\* Go's zero value of a Selection.
noSelection ==
  [position |-> "", at |-> Newest, num |-> 0, from |-> 0, to |-> 0,
   first |-> 0, last |-> 0, closed |-> FALSE]

\* The line in the middle becomes the reference point.  The last three fields are
\* not sent: the first and last line read, and whether a line of a later time than
\* the reference point was among them.
newSelection(lines, from, to, position) ==
  LET middle == Len(lines) \div 2
      at == lines[middle + 1].at
  IN [position |-> position, at |-> at, num |-> createLogLineNum(lines, middle),
      from |-> from - middle, to |-> to - middle,
      first |-> lines[1].no, last |-> Last(lines).no,
      closed |-> \E i \in DOMAIN lines : lines[i].at > at]

SelectLogs(lines, p) ==
  LET n == Len(lines)
      reference == getLineIndex(lines, p.at, p.num)
      from == fromIndex(n, reference + p.from, reference + p.to)
      to == toIndex(n, reference + p.from, reference + p.to)
  IN IF reference = LINE_INDEX_NOT_FOUND \/ p.to <= p.from \/ n = 0
     THEN [lines |-> <<>>, selection |-> noSelection]
     ELSE [lines |-> [i \in 1 .. to - from |-> lines[from + i].no],
           selection |-> newSelection(lines, from, to, p.position)]

-----------------------------------------------------------------------------
(* The container and what rotates its log.                                 *)

LineWritten(c) ==
  /\ Len(times[c]) < MaxLines[c]
  /\ LET latest == IF times[c] = <<>> THEN 1 ELSE Last(times[c])
     IN \E at \in {latest, latest + 1} \cap 1 .. MaxTime : times' = [times EXCEPT ![c] = Append(@, at)]
  /\ UNCHANGED <<rotated, params, pullEnabled, contents, selection, logData>>

\* The oldest lines are rotated away.
LinesDropped(c) ==
  /\ \E n \in rotated[c] + 1 .. Len(times[c]) : rotated' = [rotated EXCEPT ![c] = n]
  /\ UNCHANGED <<times, params, pullEnabled, contents, selection, logData>>

-----------------------------------------------------------------------------
(* Requests.                                                               *)

pending == [lines |-> <<>>, selection |-> noSelection, done |-> FALSE]
asking == logData.request # NoRequest /\ ~ logData.request.done

\* handleLogs, GetLogDetails
GetLogs ==
  /\ asking
  /\ \E lines \in readRawLogs(params.container, params.position) \cup {errorText} :
       LET answer == SelectLogs(lines, params)
       IN logData' = [logData EXCEPT !.request =
                        [lines |-> answer.lines, selection |-> answer.selection, done |-> TRUE]]
  /\ UNCHANGED <<logFile, params, pullEnabled, contents, selection>>

LogsArrive ==
  /\ logData.request # NoRequest /\ logData.request.done
  /\ contents' = logData.request.lines
  /\ selection' = logData.request.selection
  /\ logData' = resulted(logData, FALSE, pullEnabled)
  /\ UNCHANGED <<logFile, params, pullEnabled>>

\* The pod is not found, or the request fails: the directive has no result.
GetLogsFails ==
  /\ asking
  /\ contents' = <<>> /\ selection' = noSelection
  /\ logData' = resulted(logData, TRUE, pullEnabled)
  /\ UNCHANGED <<logFile, params, pullEnabled>>

PullLogs ==
  /\ logData.timer
  /\ logData' = fired(logData, pending)
  /\ UNCHANGED <<logFile, params, pullEnabled, contents, selection>>

-----------------------------------------------------------------------------
(* The user.                                                               *)

LOG_NEWEST_PARAMS(c) ==
  [container |-> c, position |-> "end", at |-> Newest, num |-> 0,
   from |-> LOG_MAX_SIZE, to |-> LOG_MAX_SIZE + LOG_PER_VIEW, link |-> "newest"]

LOG_OLDEST_PARAMS(c) ==
  [container |-> c, position |-> "beginning", at |-> Oldest, num |-> 0,
   from |-> - LOG_MAX_SIZE - LOG_PER_VIEW, to |-> - LOG_MAX_SIZE, link |-> "oldest"]

beside(from, to, link) ==
  [container |-> params.container, position |-> selection.position, at |-> selection.at,
   num |-> selection.num, from |-> from, to |-> to, link |-> link]

\* The links are hidden while the log is pulled, and disabled while it loads.
\* Without a result older and newer throw.
updatePage(link) ==
  /\ ~ pullEnabled /\ ~ logData.loading
  /\ link \in {"older", "newer"} => ~ logData.error
  /\ params' = CASE link = "oldest" -> LOG_OLDEST_PARAMS(params.container)
                 [] link = "newest" -> LOG_NEWEST_PARAMS(params.container)
                 [] link = "newer" -> beside(selection.to, selection.to + LOG_PER_VIEW, link)
                 [] link = "older" -> beside(selection.from - LOG_PER_VIEW, selection.from, link)
  /\ logData' = refetched(logData, pending)
  /\ UNCHANGED <<logFile, pullEnabled, contents, selection>>

onPullEnabledChange ==
  /\ pullEnabled' = ~ pullEnabled
  /\ params' = LOG_NEWEST_PARAMS(params.container)
  /\ logData' = refetched(logData, pending)
  /\ UNCHANGED <<logFile, contents, selection>>

\* Another resource, pod or container: the reference point of the log that was
\* shown is kept.
selectedContainerChange(c) ==
  /\ c # params.container
  /\ params' = [params EXCEPT !.container = c, !.link = "none"]
  /\ logData' = refetched(logData, pending)
  /\ UNCHANGED <<logFile, pullEnabled, contents, selection>>

-----------------------------------------------------------------------------
PagesInit ==
  /\ times = [c \in Container |-> <<>>] /\ rotated = [c \in Container |-> 0]
  /\ \E c \in Container : params = LOG_NEWEST_PARAMS(c)
  /\ pullEnabled = TRUE
  /\ contents = <<>> /\ selection = noSelection
  /\ logData = refetched(idle, pending)

PagesNext ==
  \/ \E c \in Container : LineWritten(c) \/ LinesDropped(c) \/ selectedContainerChange(c)
  \/ GetLogs \/ LogsArrive \/ GetLogsFails \/ PullLogs
  \/ \E link \in {"oldest", "older", "newer", "newest"} : updatePage(link)
  \/ onPullEnabledChange

PagesSpec == PagesInit /\ [][PagesNext]_pageVars

-----------------------------------------------------------------------------
(* Properties.                                                             *)

\* Whatever the container writes and drops meanwhile, the older page ends where the
\* page that was shown began, and the newer one begins where it ended, or it is as
\* near as what is still read goes: no line is passed over.  The code cannot keep
\* this when the reference point may have been followed by lines of its own time
\* and what is read no longer begins with the same line.
PagesAdjoin ==
  [][LET new == logData.request.lines
         read == logData.request.selection
     IN LogsArrive /\ contents # <<>> /\ new # <<>>
          /\ (selection.closed \/ selection.first = read.first)
        => /\ params.link = "older" =>
                \/ Last(new) = Head(contents) - 1
                \/ Head(new) = read.first /\ Last(new) >= Head(contents)
           /\ params.link = "newer" =>
                \/ Head(new) = Last(contents) + 1
                \/ Head(new) = read.first /\ Head(new) > Last(contents)
                \/ Last(new) = read.last /\ Head(new) <= Last(contents)
    ]_pageVars
=============================================================================
