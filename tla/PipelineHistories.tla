------------------------- MODULE PipelineHistories --------------------------
(***************************************************************************)
(* The list of the runs of a pipeline (modules/pipeline/components/        *)
(* histories and history-table) on the page of the pipeline: it is pulled  *)
(* every five seconds, asked again when a page, an order or a branch is    *)
(* chosen, and asked again after a run was started, deleted, cancelled or  *)
(* replayed.  Other users change the runs meanwhile.                       *)
(*                                                                         *)
(* What a query selects is left out: an answer holds all the runs there    *)
(* are when it is made, and the query it was made for.                     *)
(***************************************************************************)
EXTENDS AsyncData, Integers, FiniteSets

CONSTANTS
  HistoryId,   \* the runs
  Branch,      \* the branches of the pipeline
  NoBranch,    \* null
  PageSize,    \* the sizes that can be chosen
  Page,        \* bound: the pages that can be chosen
  MaxCalls     \* bound: calls of the user at the same time

\* What is chosen, and a request with what it is answered.
Query == [branch : Branch \cup {NoBranch}, page : Page, size : PageSize]
ListRequest == [query : Query, runs : SUBSET HistoryId, made : BOOLEAN]

ASSUME HistoriesAssumption ==
  /\ NoRequest \notin ListRequest
  /\ NoBranch \notin Branch
  /\ 0 \in Page /\ Page \subseteq Nat /\ MaxCalls \in Nat
  /\ PageSize \subseteq Nat \ {0} /\ PageSize # {}

VARIABLES
  made,          \* the runs that were ever started
  stored,        \* the runs on the server
  activeBranch,
  pageSize,
  pageIndex,
  pullInTime,    \* not 0
  histories,     \* the answer that is shown
  list,          \* the directive
  calls,         \* the calls of the user that are under way
  deleted        \* the runs that the user was told are deleted

choice == <<activeBranch, pageSize, pageIndex>>
historyVars == <<made, stored, choice, pullInTime, histories, list, calls, deleted>>

\* The calls that change runs.  Starting and replaying make a run, cancelling
\* and giving an input change one.
Call == [kind : {"delete", "make", "change"}, run : HistoryId, done : BOOLEAN]

query(branch, page, size) == [branch |-> branch, page |-> page, size |-> size]

queryBuilder == query(activeBranch, pageIndex, pageSize)

listRequest(q) == [query |-> q, runs |-> {}, made |-> FALSE]
asksList == list.request # NoRequest /\ ~ list.request.made
hasList == list.request # NoRequest /\ list.request.made

\* The query differs from what is shown, but nothing is asked.
historyRefresh_quiet(branch, page, size) ==
  /\ activeBranch' = branch /\ pageIndex' = page /\ pageSize' = size
  /\ list' = IF branch = activeBranch
             THEN refetched(list, listRequest(query(branch, page, size))) ELSE list

\* historyParams$.next: the parameters are a new object, so the directive
\* refetches whether or not they differ.
historyRefresh(branch, page, size) ==
  /\ activeBranch' = branch /\ pageIndex' = page /\ pageSize' = size
  /\ list' = refetched(list, listRequest(query(branch, page, size)))

\* historyRefresh(true): whatever was chosen is reset, but not the branch.
reset == historyRefresh(activeBranch, 0, pageSize)

-----------------------------------------------------------------------------
(* The server.                                                             *)

StartElsewhere(r) ==
  /\ r \notin made
  /\ made' = made \cup {r} /\ stored' = stored \cup {r}
  /\ UNCHANGED <<choice, pullInTime, histories, list, calls, deleted>>

DeleteElsewhere(r) ==
  /\ r \in stored
  /\ stored' = stored \ {r}
  /\ UNCHANGED <<made, choice, pullInTime, histories, list, calls, deleted>>

ListRuns ==
  /\ asksList
  /\ list' = [list EXCEPT !.request = [query |-> @.query, runs |-> stored, made |-> TRUE]]
  /\ UNCHANGED <<made, stored, choice, pullInTime, histories, calls, deleted>>

\* A call is carried out.
CarryOut(c) ==
  /\ c \in calls /\ ~ c.done
  /\ calls' = (calls \ {c}) \cup {[c EXCEPT !.done = TRUE]}
  /\ stored' = CASE c.kind = "delete" -> stored \ {c.run}
                 [] c.kind = "make" -> stored \cup {c.run}
                 [] OTHER -> stored
  /\ made' = IF c.kind = "make" THEN made \cup {c.run} ELSE made
  /\ c.kind = "make" => c.run \notin made
  /\ UNCHANGED <<choice, pullInTime, histories, list, deleted>>

-----------------------------------------------------------------------------
(* The list.                                                               *)

Show ==
  /\ hasList
  /\ histories' = [query |-> list.request.query, runs |-> list.request.runs]
  /\ list' = resulted(list, FALSE, pullInTime)
  /\ UNCHANGED <<made, stored, choice, pullInTime, calls, deleted>>

\* catchError resets pullInTime, but the directive has its new value only after
\* it has timed one more pull.
ListFails ==
  /\ asksList
  /\ histories' = [histories EXCEPT !.runs = {}]
  /\ list' = resulted(list, TRUE, pullInTime)
  /\ pullInTime' = FALSE
  /\ UNCHANGED <<made, stored, choice, calls, deleted>>

PullList ==
  /\ list.timer
  /\ list' = fired(list, listRequest(queryBuilder))
  /\ UNCHANGED <<made, stored, choice, pullInTime, histories, calls, deleted>>

-----------------------------------------------------------------------------
(* The user.                                                               *)

\* pageChange, and historyParamsChanged: another size resets the page.
PageChange(page, size) ==
  /\ histories.runs # {}
  /\ IF size = pageSize THEN historyRefresh(activeBranch, page, size)
     ELSE historyRefresh(activeBranch, 0, size)
  /\ UNCHANGED <<made, stored, pullInTime, histories, calls, deleted>>

\* sortChange.  The event has no page size, which differs from any size: the
\* order that was chosen is reset at once, and so no query has another order.
SortChange ==
  /\ reset
  /\ UNCHANGED <<made, stored, pullInTime, histories, calls, deleted>>

\* onToggleBranch and onTabSelectedChange of the page, and ngOnChanges of the
\* list.  The page that was chosen stays.
ToggleBranch(branch) ==
  /\ branch # activeBranch
  /\ historyRefresh(branch, pageIndex, pageSize)
  /\ UNCHANGED <<made, stored, pullInTime, histories, calls, deleted>>

\* A call is made: for a run that is shown, or for a new one.
Do(kind, r) ==
  /\ IF kind = "make" THEN r \notin made ELSE r \in histories.runs
  /\ Cardinality(calls) < MaxCalls
  /\ calls' = calls \cup {[kind |-> kind, run |-> r, done |-> FALSE]}
  /\ UNCHANGED <<made, stored, choice, pullInTime, histories, list, deleted>>

\* The call succeeded, but the list waits for its next pull.
Told_waits(c) ==
  /\ c \in calls /\ c.done
  /\ calls' = calls \ {c}
  /\ deleted' = IF c.kind = "delete" THEN deleted \cup {c.run} ELSE deleted
  /\ UNCHANGED <<made, stored, choice, pullInTime, histories, list>>

\* It succeeded: the list is asked again.  After a start, what was chosen is
\* reset; after a replay it is not.
Told(c) ==
  /\ c \in calls /\ c.done
  /\ calls' = calls \ {c}
  /\ deleted' = IF c.kind = "delete" THEN deleted \cup {c.run} ELSE deleted
  /\ \/ historyRefresh(activeBranch, pageIndex, pageSize)
     \/ c.kind = "make" /\ reset
  /\ UNCHANGED <<made, stored, pullInTime, histories>>

\* It failed, before or after it was carried out: nothing is asked.
ToldError(c) ==
  /\ c \in calls
  /\ calls' = calls \ {c}
  /\ UNCHANGED <<made, stored, choice, pullInTime, histories, list, deleted>>

-----------------------------------------------------------------------------
\* ngOnInit has refetched without parameters, which answers at once and times a
\* pull, and ngAfterViewInit has asked for the first page.
HistoriesInit ==
  /\ stored \in SUBSET HistoryId /\ made = stored
  /\ activeBranch = NoBranch /\ pageSize = CHOOSE s \in PageSize : TRUE
  /\ pageIndex = 0
  /\ pullInTime = TRUE
  /\ histories = [query |-> queryBuilder, runs |-> {}]
  /\ list = refetched(resulted(idle, FALSE, TRUE), listRequest(queryBuilder))
  /\ calls = {} /\ deleted = {}

UserNext ==
  \/ \E p \in Page, s \in PageSize : PageChange(p, s)
  \/ SortChange
  \/ \E b \in Branch \cup {NoBranch} : ToggleBranch(b)
  \/ \E r \in HistoryId : \E kind \in {"delete", "make", "change"} : Do(kind, r)

HistoriesNext ==
  \/ \E r \in HistoryId : StartElsewhere(r) \/ DeleteElsewhere(r)
  \/ \E c \in calls : CarryOut(c) \/ Told(c) \/ ToldError(c)
  \/ ListRuns \/ Show \/ ListFails \/ PullList
  \/ UserNext

HistoriesSpec == HistoriesInit /\ [][HistoriesNext]_historyVars

-----------------------------------------------------------------------------
(* Properties.                                                             *)

\* Whatever order answers, pulls and choices come in, what is shown is the
\* answer to what is chosen, unless the list says that it is loading or failed.
ListAnswersQuery ==
  ~ list.loading /\ ~ list.error => histories.query = queryBuilder

\* A run that the user was told is deleted does not come back into the list, be
\* it from a request that was under way.
DeletedIsGone ==
  ~ list.loading => histories.runs \cap deleted = {}

\* A run that somebody else starts is listed without doing anything, until a
\* request has failed: then pulling has ended.
RunIsListed ==
  \A r \in HistoryId :
    r \in stored ~> r \notin stored \/ r \in histories.runs \/ ~ pullInTime
=============================================================================
