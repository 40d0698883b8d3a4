----------------------------- MODULE AsyncData ------------------------------
(***************************************************************************)
(* The directive *aloAsyncData (shared/directives/async-data.directive.ts) *)
(* as operators on its state: the request its switchMap waits for, the     *)
(* timer of the next pull, and the context it shows.  The component that   *)
(* uses it gives the handler, which is called where a request is started.  *)
(***************************************************************************)
CONSTANT NoRequest   \* nothing is asked

\* The directive before ngOnInit, and after ngOnDestroy.
idle == [request |-> NoRequest, timer |-> FALSE, loading |-> FALSE, error |-> FALSE]

\* refetch: a request under way is dropped.  A timer that runs goes on.
refetched(d, request) == [d EXCEPT !.request = request, !.loading = TRUE, !.error = FALSE]

\* After an error there is no next pull.
resulted_once(d, error, pull) ==
  [request |-> NoRequest, timer |-> pull /\ ~ error, loading |-> FALSE, error |-> error]

\* The pull is timed once, not after every answer.
resulted_untimed(d, error, pull) ==
  [request |-> NoRequest, timer |-> d.timer, loading |-> FALSE, error |-> error]

\* result$ and pull$: what the handler answers is shown, and the next pull is
\* timed if pullIn is not 0 by then.  A timer that runs is dropped.
resulted(d, error, pull) ==
  [request |-> NoRequest, timer |-> pull, loading |-> FALSE, error |-> error]

\* ngOnChanges of pullIn: from 0 to more, it refetches at once.
pulls(before, after) == ~ before /\ after

\* The timer fires.
fired(d, request) == [refetched(d, request) EXCEPT !.timer = FALSE]
=============================================================================
