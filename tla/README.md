# TLA+ models of Diablo, the Alauda DevOps dashboard

Diablo is a web dashboard for DevOps on Kubernetes: a Go backend that began as a
fork of the Kubernetes dashboard (`src/src/backend`) and an Angular frontend
(`src/src/frontend/app`). This directory holds models of the parts of it that
keep state and have more than one actor, the TLC configurations that check them
on small instances, and theorems checked by TLAPS for every instance.

`PROJECT.json` lists the components, the runs, the mutants that show each
property can fail, the source lines behind each definition, the hazards of the
code and the findings. Below, *FE* stands for `src/src/frontend/app`, *VE* for
`FE/modules/pipeline/components/visual-editor` and *BE* for `src/src/backend`.

To check: `tlc -config MCParts.cfg MCParts` (and so on, see *Runs*), and
`tlapm PipelineStoreProofs.tla`.

## 1. Inventory

### Frontend

| Component | State | Operations | What is hard | Correct when |
|---|---|---|---|---|
| Undoable reducer, `FE/utils/redux/undoable.ts` | a stack of states, an index | undo, redo, reset, reset head, ignored and recorded actions | a full stack, a push after an undo | index inside the stack; it is a past/present/future history |
| Entity adapter, `FE/utils/redux/entity-adapter.ts` | `ids`, `entities` | reset, insertAfter, append, remove, update | the list and the dictionary change separately | they agree, and no id is listed twice |
| Pipeline editor, reducers, `VE/store/reducers` | parallels, forks, stages, their forms, the selection | reset, add, remove, rename, change values, receive options, select | slices reduced one by one, cascading removals, stale paths | the slices describe one diagram; what can be saved is shown again as it was |
| Dynamic stage form, `VE/store/utils`, `VE/dynamic-forms` | values, options and errors of a form | change values, receive options, snapshot, conversion to text and back | chains of related fields, resolvers that look at other fields too, visibility that depends on values, conversions that keep less than they are given | no stale options; required fields are filled; what is saved is read again |
| Pipeline editor, epics and forms, `VE/store/epics`, `VE/*/component.ts` | debounced inputs, requests under way | type, flush, load, answer | debounce, `switchMap`, rebuilt forms, late answers, an epic that dies | the store changes only as its reducers allow; loading ends |
| Pipeline editor, diagram | nothing (derived) | click | its paths must exist | covered by the reducers |
| Async data directive, `FE/shared/directives/async-data.directive.ts` | a request, a timer, the context it shows | refetch, answer, error, pull, destroy | a refetch drops the request under way but not the timer | as its users: below |
| Run and scan log viewers, `FE/modules/pipeline/components/{logs,scan-logs,history-detail-log,history-step}` | text, where the next piece starts, whether there is more, errors | pull a piece, answer, fail, show, unfold, give an input | refetches made by the answer itself, hiding while a request is under way, giving up | pieces in order and once; the end of the run is shown |
| List of runs, `FE/modules/pipeline/components/{histories,history-table}` | page, size, branch, whether it pulls, the answer | pull, page, sort, branch, delete, replay, cancel, start | answers to an earlier query, deletion during a pull, a failure | the list answers the query; what was deleted stays away; new runs appear |
| Log of a container, `FE/modules/application/components/application-log` with `BE/resource/{logs,container/logs.go}` | what is asked for, the page that was answered | follow the log, go to the oldest, older, newer and newest page, choose a container | lines are written and rotated while a page is asked for by its distance from a named line | no line is passed over between pages |
| Pages of a pipeline and of a run, `FE/features/pipelines/{detail,history-detail}` | interval, two requests of a tick, permissions | poll, slow down, end, reload | every tick drops the requests of the one before; a report that fails; permissions that come late or not at all | polling ends only with a final answer, shown once the permissions are there |
| Application form, `FE/modules/application/components/application-create/by-image` | list of components, a buffer of it, the one being edited | add, edit, cancel, delete, send, and what comes back | editing takes a component out of the list | none is lost or doubled, names differ |
| Pipeline forms, `FE/modules/pipeline/components/{create,update,forms}`, `FE/api/pipeline/utils.ts` | triggers; source, repository, branch, with their validators | create, copy, update, choose, go from step to step, send | validators taken away and put back; conversions in two directions; a copy that is read while the form is used | what is enabled is stored with something to go by; an update that changes nothing keeps the triggers the form knows, and the source |
| Other features | that of one page | REST calls | double submits, OAuth pop-ups | not modelled |
| Paginated list adapter | pages | - | nothing imports it | not modelled |

The editor is one Redux store per editor component. Components dispatch actions;
the root reducer reduces every slice from the same action and then, for
removals, the slices that depend on it; two epics turn actions into further
actions after a delay or a request; forms subscribe to selectors and are built
anew when what they show changes. The directive `*aloAsyncData` is given a function
that asks, an interval and a callback by the viewers and the list of runs; the
callback of a viewer may change what the directive is bound to, which makes it
ask again at once.

### Backend

| Component | State | Operations | What is hard | Correct when |
|---|---|---|---|---|
| Settings manager, `BE/settings` | `rawSettings`, `settings`, shared by all requests; the config map | get, save, with load and restore inside | requests interleave without a lock; the read comes from a cache; other replicas write | a save keeps what it did not mean to change; conflicts are noticed; answers are current |
| Terminal, `BE/handler/terminal.go` | map of sessions, `bound` and `sizeChan` of each | open, frames, start shells, close | four kinds of goroutine and a map without an effective lock | keys in order; first shell sized; the end is shown |
| Secret synchronizer, poller, Overwatch, `BE/sync` | channels, watcher, cached secret | start, watch, poll, restart | channels made late, closed twice, watchers used again | a failing synchronizer is restarted and works again |
| JWE key holder and token manager, `BE/auth/jwe` | RSA key and its secret | init, update, recreate | replicas race to create the secret | all replicas come to use one key; a stored key stays |
| Cluster configuration cache, `BE/resource/asmConfig` | map of items with lifespans | get, put, vacuum | check and use under separate locks | what has expired is evicted |
| Projects of the registries of a namespace, `BE/handler/apihandler_image.go` | one slice and one count, shared by a goroutine per binding; two locked maps | claim, list, add | appends without a lock, several bindings of one registry | no project is listed twice; none is missing |
| Other fan-out (tool chain bindings, statistics, configuration loader, resource channels) | a variable or channel per result | list | - | not modelled: nothing else is shared |
| Deployment and application operations | none; several API objects | create, update | a later step fails | not modelled |
| Authentication, client and metric managers; REST routes; resource lists; data selection; validation, errors, certificates, arguments | none, or fixed at start | one call each | - | not modelled |

The synchronizer, the key holder and the metric manager are not wired into
`BE/dashboard.go` at this commit: they are a library with tests.
The handlers of `BE/handler` hold no state; every request gets its own clients,
and the state shared by requests is the settings manager's, the sessions of the
terminal and the cache of cluster configurations.

## 2. Modules

| Module | Models | Uses |
|---|---|---|
| `EditHistory` | what a history promises: past, present, future (abstract) | |
| `UndoableHistory`, `UndoableProofs` | `undoable.ts` | implements `EditHistory` |
| `EntityAdapter` | the operations of `entity-adapter.ts`, as operators | |
| `DynamicForm` | visibility, required and related fields, options and what their resolvers look at, defaults, conversion to text and back | |
| `PipelineDiagram` | what the user edits: a sequence of non-empty groups (abstract) | |
| `PipelineStore`, `PipelineStoreProofs` | the reducers, one action per Redux action | implements `PipelineDiagram` |
| `PipelineEditor`, `EditorProofs` | forms, debounce, epics and requests around the store | implements `PipelineStore` |
| `AsyncData` | the directive, as operators on its state | |
| `RunLog`, `PolledDetail` | the log viewers; the two polled pages | `AsyncData` in `RunLog` |
| `ContainerLog` | the log of a container, from the lines that are read to the page | `AsyncData` |
| `PipelineHistories` | the list of runs | `AsyncData` |
| `ViewerProofs` | theorems about these four | |
| `ApplicationForm` | the form of applications from images | |
| `PipelineTriggerForm`, `PipelineSourceForm` | the triggers and the source of a pipeline | |
| `FormProofs` | theorems about these three | |
| `SettingsManager` | requests, manager, config map, cache, other replicas | |
| `RegistryProjects` | the goroutines of one request, down to the words of the slice they share | |
| `RequestProofs` | theorems about these two | |
| `TerminalSession` | one terminal: component, connection, goroutines, shells | |
| `KeySynchronizer` | replicas: key holder, synchronizer, poller, Overwatch, the secret and its cache | |
| `BackendProofs` | theorems about these two | |
| `ClusterConfigCache` | the cache, its requests, its vacuum | |
| `InductionLemmas` | induction over numbers and sequences, for the proofs | |
| `MC...` | instances for TLC | |

Three pairs are refinements: the reducer with its stack and index implements a
history; the four normalised slices implement a sequence of groups with a
cursor; and the editor, with its timers and requests, implements the reducers'
own specification, so a late edit or answer does to the store nothing that an
immediate one could not have done.

### State and actions

**UndoableHistory.** `stack` and `index` are those of `undoable.ts`. The actions
are its branches: `UNDO`, `REDO`, `RESET_HEAD`, `RESET`, `IGNORED` (a filtered
action, which replaces the active state) and `RECORDED`. The wrapped reducer is
any function of states: its result is any member of `State`. The editor's own
stack has size 1, so its active state is the only one and `PipelineStore` holds
it directly.

**PipelineStore.** `parallels`, `forks`, `stages`, `stageForms` and `selected`
are the slices; `settingsOk` is what `selectValid` reads of the form of settings,
and `nextId` stands for `uuid()`: ids never drawn before. An action of the module
is a whole dispatch with the cascade of `internalReducer` in it, so
`REMOVE_STAGE` removes the stage, its form, its place in the fork and, when it
was the last, the fork and the parallel. The actions `Open`, `Select`, `PickTask`,
`RemoveSelected` and `Edit` are the component handlers that dispatch them, with
the guards of those handlers. Names, fields and values are model values.

**DynamicForm.** `Kind`, `Input`, `Related`, `Resolved`, `Required`, `Relations` and
`Default` are what a task template and the control configs define. `Relations` has
what `whenExpression` evaluates: relations that show or hide, on all or any of some
pairs of a field and a value. The type of an action is `show | hide`
(`FE/modules/pipeline/components/models/form.ts:24-27`), but the code looks for
`hidden`, and so does the model. The value of a pair is read as the text `R.toString`
makes of it, so a relation on a field of strings never holds.
`Reads` and `Needs` are the fields a resolver looks up in the state beside its related
value, and those without which it answers nothing (`VE/dynamic-forms/resolvers.ts`:
applications and containers read the cluster and the namespace, branches the
repository). `resolve` names the options by all the values they are for, which is
what the model needs to tell old options from new ones.

`serialize` and `deserialize` are the conversions by kind of control
(`datasource.ts:387-442`, `dynamic-form.ts:39-44` and the configs), which is where the
model is not the identity: a missing switch is off, so the default of a switch never
applies; the text of null is no JSON; a repository that is not of the platform is stored
without its binding; a secret of another namespace is read again by its text alone,
since `fromCredentialId` looks for the project in front of the hyphen. No other
namespace or name is taken to start with the project's own name.

**PipelineEditor.** `typedName` and `typedValues` are what was typed less than
200 ms ago and not dispatched; `loads` is the request that `switchMap` keeps,
with the items it will answer and a number (`newNumber`) that tells it from the one it
replaced; `Answered` is its answer; `epicsAlive` becomes false when a reducer throws
under an epic, which ends the stream of the root epic (`OptionsArrive` for a
stage that is gone). Every action of the store has its counterpart that also
does what components and epics do with it: close or rebuild forms, drop drafts,
start or replace requests.

**AsyncData, RunLog, PipelineHistories.** A directive is a record: the request
`switchMap` waits for, the timer of the next pull, what it shows. `refetched`
replaces the request and leaves the timer; `resulted` answers, and times the next
pull whether there was an error or not. In `RunLog` one module stands for four viewers,
told apart by `viewer`; `Arrive` is the callback of each with the changes of
bindings that follow from it, so the request it makes at once is part of it. The
log is a sequence of numbered pieces and a request is made with `next`, and
answered (`Serve`) at some later time with what is there by then. In
`PipelineHistories` a request remembers the query it was made for; the calls of
the user (`Do`, `CarryOut`, `Told`, `ToldError`) are under way while the list is
pulled, and other users start and delete runs.

**PolledDetail.** `interval` is `pullInterval$`, `first` and `second` the two requests
of a tick. `Tick` drops both; `FirstArrives` and `SecondArrives` restart or end the
interval; `ReportFails` is the error handler of the report; `Reload`, after an input was
given to a step, makes the stream anew with whatever interval there is (`cut`).
`latest` is what was polled last and `detail` what is shown: `combineLatest` waits for
the permissions (`PermissionsArrive`, `PermissionsFail`), while the interval does not, so
it may end before anything is shown. `ends` has the versions that are ready or finished.
A run is over then; a pipeline that is ready may be updated (`Change`), and the page,
which polls no more, does not notice. The page of a pipeline that has no template
(`templated`) reads the kind of a missing one, which throws and ends the stream
(`FE/features/pipelines/detail/pipeline-detail.component.ts:213`).

**ContainerLog.** A line is its number and its time; `times` has all that were
written, `rotated` says how many are gone. `GetLogs` is the handler: `readRawLogs` reads
the lines from one end up to a limit, or answers the error as if it were the log
(`container/logs.go:99`), and `SelectLogs` finds the line that is named, cuts the page
out and names the line in the middle of what was read, for the next request to refer
to. `updatePage` stands for the four links, which are hidden while the log is pulled.

**ApplicationForm.** `componentList`, `componentListBuffer`, `model` and the flags are
the fields of the component with those names; each handler is an action. A
component is its name, which is read-only for a single component that is stored.
`Type` is the template's input; where a component was sent alone, the form changes the
very object that is in the list. `Reports` and `Errors` are the two ways in which a
submission comes back; `twice` marks the one case in which the form itself adds a
component that is already there. `listed` is a history variable: the list as it was
last shown.

**PipelineTriggerForm, PipelineSourceForm.** What is stored, the controls of the form
and the state of their validators. Validity is kept where Angular computes it from
a change and not from the value (`branchValid`). `mapPipelineTrigger`, `toRepoModel`,
`toRepoResource` and their likes are the conversions of `FE/api/pipeline/utils.ts`,
applied when a form is opened and when it is sent. `untouched` and `unchanged` say
that nothing was changed since. A copy opens a new form (`Copy`) while what it copies is
read; the answer is put over what was chosen meanwhile (`CopyRead`), or dropped
(`CopyFails`), as when `getTemplateStep` throws for a pipeline of no template. Triggers are
the third step of the form and the request is made when it opens, so the model enables
the time trigger and changes its type only when nothing is read any more; of the
source, nothing is typed before that answer. What is stored may have triggers of a type
the form does not know (`imageChange`), which an update drops.

**SettingsManager.** The config map has a version, as in the API server, where an
update with an old version is refused (`accepts`, external). `cached` is what a
read with `resourceVersion=0` may return and lags behind. Requests of any number
of clients run the steps of `load`: the read and the comparison (`Load`),
`Restore` of a missing config map, the assignment of `rawSettings` (`Adopt`), the
start of the range over it (`StartRange`), one key at a time (`Unpack`), and then the
answer of a GET (`Get`) or the three ends of a save (`Refuse`, `Save`, `Fail`).
They interleave at each of them, because nothing in `manager.go` locks.
`Elsewhere` and `Delete` are other replicas and administrators.

**TerminalSession.** `view` and `client` are the component's; `server`, `entry`,
`handler`, `waiter`, `shell` and `reader` are the backend's: one state per place
where a goroutine can be preempted with an effect others see. The send on `bound`
is a rendezvous and comes before `Set`; each stream copies the session from the
map when it is started; the loop that reads for a shell that failed goes on
reading until it has a frame to write. `LinkLost` loses a connection without an
event for the client; a nil dereference or a concurrent map access ends the
backend (`crash`, `MapRace`). What shells print, toasts (never sent), and themes
are left out. So is the connection a component may open a second time after a
failure.

**KeySynchronizer.** `secret` is what the API server stores and `cached` what its
cache answers. Each replica has the key holder's `key`, the synchronizer's copy
(`local`), the watcher (`stopped`), its polling goroutines, Overwatch's goroutine
(`monitor`) and three threads: the one that makes the key holder, the one of
`Start`, and a request that cannot decrypt its token. `Create` may find the secret
there, `Repair` updates one that holds no key; a read keeps its copy before it uses it
(`keepRead`), an event after its handlers (`keepHandled`); `Meddle` is an administrator who
deletes or damages it, `Failed` an answer that is an error. A replica ends when a
poller sends on the channel that `Stop` has closed (`SendOnClosed`). Nothing registers
the synchronizer yet; `Restart` is what Overwatch would do with one that is.

**ClusterConfigCache.** A method of the cache holds its lock throughout and is one
action; `GetClusterConfig` calls `IsExist`, `GetCached` and `Put` one after the other, and
the vacuum calls `expiredKeys` and then `clearItems`. The lifespan that is given, 600,
is in nanoseconds (`clusterConfig.go:82`), so an item may expire before anything else
happens.

**RegistryProjects.** An array is a sequence of elements or `Nowhere`; `slice` is the
shared `Items`, `arrays` all arrays that were ever behind it. Appending is `ReadSlice`,
`Write` (in the array, or in a new one), `Store` of each word of the slice in any
order, `ReadTotal` and `Increment`; goroutines interleave at each. `MapRace` is the
print of the map without its lock, at which the runtime may end the program.

## 3. Runs

| Run | Instance | Properties |
|---|---|---|
| `editor_graph` | 4 ids, one name, no fields | `TypeOK`, `EntitiesInStep`, `EveryStageInOneFork`, `SelectedExists`, `DiagramSpec` |
| `editor_save` | 2 ids, two names, a switch that is on by default, three repositories; opens a fork, a line or one stage | `SavedUnderOwnName`, `RoundTrip` |
| `editor_forms` | 2 ids, chain of three related fields, the third of which also asks for the first | `OptionsFresh` |
| `editor_required` | a required field shown on another's value | `RequiredFilled` **fails** |
| `editor_async` | 2 ids, one name, two related fields, fairness | `SelectedIsLoading`, `StoreSpec`, `TypedNameKept`, `LoadingEnds` |
| `requests` | settings: 2 users, 3 writes; projects: 2 bindings, 2 registries, 2 projects, 2 suffixes; log of a container: 6 lines of 3 times, pages of 2, 5 lines read, another container without lines | `SaveKeepsOtherKeys`; `ProjectsOnce`, `CompleteInTurn`; `PagesAdjoin` |
| `settings_stale` | as the settings above | `GetsCurrent` **fails** |
| `settings_lost` | 2 users, no other writer, current cache | `ConcurrentChangeRefused` **fails** |
| `backend_parts` | terminal: 2 shells, 2 sizes, 2 keys, 2 frames; keys: 2 replicas, 2 keys, 1 trouble; fairness | `TypeOK`, `KeysArrive`, `KeysInOrder`, `FirstShellSized`, `DeadConnectionCloses`, `EndIsShown`; `KeyTypeOK`, `StoredKeyStays`, `KeysConverge` |
| `terminal_unbound` | as the terminal above | `StartedBound` **fails** |
| `sync_restart` | as the keys above, fairness | `RestartedPolls` **fails** |
| `small_parts` | eight small parts, fairness | `HistorySpec`; `LogInOrder`, `LogFollowsRun`; `ListAnswersQuery`, `DeletedIsGone`, `RunIsListed`; `DetailIsFinal`, `DetailShowsEnd`; `NamesDistinct`, `CancelBringsBack`; `UpdateKeepsTriggers`, `EnabledIsStored`; `UpdateKeepsSource`, `BranchGiven`; `ExpiredIsEvicted` |

`requests`, `backend_parts` and `small_parts` (`MCRequests`, `MCBackend`,
`MCParts`) check several parts that share no state. A variable `part`, which never
changes, names the one that steps; the others stay in one of their initial states.
No action of a part reads a variable of another, so the behaviours of a part in
such a run are its own, and interleaving the parts would show nothing more. The
fairness conditions name the part they are for; those of the others, which are
disabled, hold vacuously. `small_parts` has 158,000 states (88 s), `backend_parts`
944,000 (134 s), `requests` 6.1 million (148 s).

Runs whose system may stop (the editor at its last id, a closed terminal, a replica that
has ended, a form that was sent) do not check deadlock. `requests` does, with a step of
its own for a request that has been answered.

### Bounds

- `StackSize` 3 with 4 states: a full stack that is pushed on with undone states
  above the index needs three places and a fourth state.
- `MaxId` 4 (graph): a group of two stages, one of which was removed, beside
  another group, is the smallest diagram where a cascade can go wrong; the fourth
  id is the stage added after a removal. 2 with fields or requests: what a form does
  depends on one stage, and the other is there to be selected or removed meanwhile.
  2 in `editor_save`, too, where two stages show every collision of two names; the
  pipelines that are opened there bring stages of their own.
- `MaxTasks` 1 or 2: how many stages a saved group may have when it is opened.
- Three fields in a chain: a change must reach the field two steps away.
- Three repositories: one of the platform with a secret of the project, one that is not
  of the platform with a secret of another namespace, and what the latter is read as.
- `MaxVersion` 3 (4 where nothing else writes): the config map that was there, a
  write that a request does not see, and one more. Two keys (settings and devops
  settings) are those of the code.
- `Shells` 2: one that fails and one after it. `Buffer = Paste = 2`: a Read takes a
  whole frame; with `Buffer < Paste` `KeysArrive` does not hold, because `Read` drops
  what does not fit (`terminal.go:91`). `MaxQueue` 2: nobody types with two frames
  under way, which bounds the queue and forbids nothing else.
- Replicas and keys 2: one that stores its key and one that loses. `Pollers` 1: one
  goroutine of `Poll` for each replica. `MaxTrouble` 1: one
  failure or one deletion; the races that follow from it need no second one.
- Logs: `MaxLog` 2 (a piece, and one that comes while the first is asked for);
  `Patience` 1 of 5, with `MaxErrors` 3, so that giving up, and failing once more
  afterwards, happen.
- Log of a container: pages of `LOG_PER_VIEW` 2 (100) of what `lineReadLimit` 5 (5000)
  lines reach, `MaxLines` 6 and `MaxTime` 3. So what is read is longer than two pages and
  shorter than the log, the two ends of the log are read differently, and the line
  that is named has lines of its own time on both sides and a later one behind them.
- List of runs: one run and one branch; two pages and two sizes, so that a change of
  size resets the page; two calls under way at the same time.
- Polled pages: `MaxVersion` 2 changes and `MaxFailures` 2. Application form: three
  names and lists of up to three, to edit one of two while a third is added.
- Cache: two clusters and two requests. Projects: two goroutines for one registry or
  two, new arrays with room for one more (`Spare` {1}): an append in place and one
  in a new array both happen, and the goroutines overwrite each other's words.

### Fairness

- `FairEditorSpec`: a request that is not replaced is answered, since `catchError`
  turns a failure into an empty answer. A request that takes the place of another
  starts from the beginning, so the fairness is of each number and a user who selects
  or changes for ever starves them all; `LoadingEnds` excepts just that (`Replaced`). No
  debounce is assumed to fire, because it does not under a user who goes on typing.
- `Fairness` of the terminal: the timers of the browser fire (`SendPing` every 5 s,
  `PingFails` after 10 s), a frame that has arrived is handled, and the goroutine
  of `WaitForTerminal` is scheduled. Nothing is assumed of the network, of close
  events, of shells or of the user.
- `KeyFairness`: goroutines run, requests end, the cache of the API server catches
  up. Nobody has to start a replica or send a token, and trouble is finite.
- `LogFairness`: requests end, timers fire; a run need not end.
- `HistoriesFairness`: so it is with the list; and an answer is shown if again and
  again there is one (strong fairness): the user does not choose something else
  before every single answer.
- `DetailFairness`: the interval ticks. Every tick drops the requests before it, so
  weak fairness would show nothing; strong fairness says that now and then a
  request is answered within an interval (5 s or more). Requests that are always
  slower than that are never shown, which is how the code is. Nothing is assumed of a
  user who always makes the page anew: `DetailShowsEnd` excepts it.
- `CacheFairness`: the goroutine of the vacuum runs.

## 4. What the runs show

**The store.** Whatever the order of adding, removing, renaming and selecting, the
slices agree with one another and describe a sequence of non-empty groups; an open
side form is always about something that exists; what passes validation is saved
without losing a stage and is shown again in the same order under the same
names, with the values as the conversions leave them (`valueAgain`); and no dropdown
keeps options for a value that has changed, however long the chain of related
fields, where its resolver looks at nothing but fields it is related to, at once or along
the chain (`announced`). A resolver that looks up another field keeps the options of
that field's old value; nothing in the repository promises otherwise.

**The editor.** Debounce, rebuilt forms and requests preserve all that, because the
editor implements the store's specification. While the epics live, a form that waits for
options is being loaded, and it stops waiting unless the user goes on for ever replacing
its requests. A name that was typed does not vanish when options arrive. Values typed in
the last 200 ms may: the model has that step, and nothing in the code promises
otherwise.

**Logs.** Requests are dropped, repeated, fail, and logs are hidden and shown again:
the pieces shown are still each piece once and in order, and a viewer that stays
open shows the end of the run or gives up after too many errors.

**The log of a container.** Between two answers the container writes and lines are
rotated away, and still the older page ends where the page before it began, the newer
one begins where it ended, or both are as near as what is read goes. The comment at
`BE/resource/logs/logs.go:121` calls the name of a line immune to addition and deletion;
it is immune to one of them at a time. A line of the latest time is counted from the
first of that time, so if lines of that very time are rotated away, its name finds a later
line, and a page may pass over lines that are kept. `PagesAdjoin` excepts just this:
that no later time was read (`closed`) and that the first line read has changed.

**The list of runs.** What is shown answers what is chosen, unless the list says that
it is loading or has failed; a deleted run does not come back, though pulls that
still list it are under way; and new runs are listed until a request fails, after
which the list is no longer pulled (`histories/component.ts:129`).

**Pages.** A page ends its polling only with a final answer, which it shows once the
permissions are there, and a page that stays open shows it, or an error. Of a run it is
the last answer there will be; a pipeline that was ready may since have been updated. A
report that cannot be read neither ends the polling early nor keeps the page from
ending. The exception is a page made anew after the interval had ended (`cut`): nothing
asks any more.

**Forms.** No application has two components of a name, except where the one that
was sent alone is added to the list a second time after an error (`twice`). Whoever comes
back to the list finds it as it was shown before, with the component that was edited at
its place, or with the new one at its end. Enabled triggers are stored with something
to go by. Updates that change nothing keep the source, and the triggers of the types
the form knows; others are dropped by any update. The
properties name the exceptions the code has: the validator of days and times that is
lost by going to the rule and back while the trigger is disabled; the branch of an
svn repository, which is not read back; the empty branch that counts as valid after
a change from svn.

**Settings.** With stale caches and other writers, a successful save replaces only
its own key of exactly the data its request compared with.

**The terminal.** Until the connection or the first shell ends every key arrives in
order; later shells get keys neither twice nor out of order; the first shell has
the size of the terminal; and a connection that is dead, or that opened after the
component was destroyed, is closed by the ping.

**Keys.** However replicas race to create the secret, a stored key gives way only
where a replica read a secret without one, and in the end every replica whose
synchronizer has not failed uses the stored key.

**Projects.** Appends without a lock may lose projects and miscount, but list none
twice and none beside a repository of it; and if no two goroutines append at the
same time the answer is complete and counted.

**The cache.** What has expired is evicted or renewed.

### Findings

1. `editor_required`. Which fields are required is decided when the form group is
   built; the errors sent with an edit that affects no field are those of the old
   validators. A required field which that very edit makes visible stays empty and
   the pipeline counts as valid (`VE/stage/component.ts:179`).
2. `settings_stale`. `load` assigns `rawSettings` and then unpacks it without a
   lock. A slow unpacking of older data may be the last; from then on nothing is
   found different, and the older settings are answered (`BE/settings/manager.go:57`).
3. `settings_lost`. Whether settings were modified concurrently is judged by what
   the manager saw last, whichever user that was for. Another user's GET between
   a change and a save makes the change go unnoticed, and the save replaces it
   (`manager.go:92`). The test `settings/manager_test.go:34-55` describes a
   related effect: the first save of a fresh manager is refused.
4. `terminal_unbound`. The handler sends on `bound` before it stores the session
   that has the connection, so a shell may be started with a session that has
   none, and its first Read dereferences nil (`BE/handler/terminal.go:210`).
5. `sync_restart`. `Start` stops the watcher when it returns, and the poller has only
   one, which every later `Start` uses again: its watch ends at once. Overwatch
   restarts the synchronizer every two seconds and it never polls again
   (`BE/sync/secret.go:70`, against `BE/sync/overwatch.go:25`).

## 5. What is proved

| Theorem | For every |
|---|---|
| `UndoableProofs!IndexInStackAlways`, `HistoryImplemented` | set of states, stack size |
| `PipelineStoreProofs!TypeOKAlways`, `EveryStageInOneForkAlways`, `EntitiesInStepAlways`, `SelectedExistsAlways` | set of names and fields, saved pipeline, number of stages |
| `PipelineStoreProofs!DiagramAlways` | the same: the slices implement the sequence of groups |
| `PipelineStoreProofs!SavedUnderOwnNameAlways`, `RoundTripAlways` | names, fields and kinds of their controls, values, number and shape of groups |
| `PipelineStoreProofs!OptionsFreshAlways` | fields, relations, resolvers, requests that fail |
| `EditorProofs!EditorImplementsStore` | the same, and times of typing, selecting and answering, where resolvers look only at fields they are related to |
| `EditorProofs!SelectedAlwaysLoading`, `TypedNameAlwaysKept` | names, fields and resolvers, without that hypothesis |
| `RequestProofs!SaveKeepsOtherKeysAlways`, `SettingsTypeOK` | set of users and values, number of writes |
| `RequestProofs!ProjectsOnceAlways`, `CompleteInTurnAlways` | bindings, registries, projects, listings, capacities of arrays |
| `BackendProofs!TerminalTypeCorrect`, `KeysStayInOrder`, `FirstShellIsSized` | shells, sizes, keys, buffers, frames under way |
| `BackendProofs!EveryKeyArrives` | the same, where a paste fits the buffer |
| `BackendProofs!KeyTypeOKAlways`, `StoredKeyStaysAlways` | number of replicas, keys and troubles |
| `ViewerProofs!LogInOrderAlways`, `DetailIsFinalAlways` | length of the log, number of changes and failures |
| `ViewerProofs!PageInLines`, `NameKeepsLine` | number of lines, offsets, lengths of a row of lines of one time |
| `ViewerProofs!PagesAdjoinAlways` | containers, lengths of logs, times, sizes of pages, limits of reading |
| `ViewerProofs!ListAnswersQueryAlways`, `DeletedIsGoneAlways` | runs, branches, pages, calls under way |
| `FormProofs!UpdateKeepsTriggersAlways`, `EnabledIsStoredAlways`, `UpdateKeepsSourceAlways`, `BranchGivenAlways` | way through the forms |
| `FormProofs!NamesDistinctAlways`, `CancelBringsBackAlways` | names of components, lengths of the list |

Every safety property of a passing run is stated by a theorem. The theorems assume what
the modules state of their constants (`UndoableAssumption`,
`DynamicFormAssumption`, `PipelineStoreAssumption`, `SettingsAssumption`,
`RunLogAssumption`, `ProjectsAssumption`, ...), which the runs evaluate. Three theorems
have a hypothesis more, each from the code. `AllAnnounced`: every resolver looks only at
fields it is related to, at once or along the chain, as those of a cluster, a namespace,
an application and its containers do; the options of others are not loaded again when
what they depend on changes, so that a late answer may be one the reducers' own
specification does not have. `Paste <= Buffer`: what is pasted fits the buffer of
`Read`, which drops the rest (`terminal.go:91`). And `ContainerLogAssumption` wants
`lineReadLimit > 1`: of a log that is read by single lines, the line in the middle may
be the one that is cut in its timestamp, and its name says nothing.

**The history.** `IndexInStack`, which no run lists, is inductive as it stands.
`HistoryImplemented` maps each branch of the reducer to one step or a stutter of
`EditHistory`; the work is in `Pushed`, which says what `takeLast` leaves of a stack
that was cut at the index.

**The store.** That every stage is in one fork is not inductive alone. `ADD_STAGE`
and `ADD_PARALLEL_BY_STAGE` insert at the path that was clicked, so the path
must exist (`SelectedExists`); the new id must be in no list (`Fresh`); a
parallel is inserted in a list which must agree with its dictionary
(`inStep(parallels)`), and a path leads to a form when forms and stages have the
same domain (`FormsOfStages`). `IInv` is the conjunction of these with `TypeOK`.
The lemmas are: what `insertAfter`, `append`, `remove` and `put` do to the adapter;
one preservation lemma per action (`AddParallelPreserves`, `RemoveStagePreserves`,
...); and for `Open`, that the rows of a saved pipeline get disjoint ranges of
numbers (`RowsDoNotOverlap`, `PlaceIsUnique`, `LoadedGraph`), so that the loaded
graph is a partition too. The number of stages is bounded in no proof: `MaxId` is
any natural number.

`EntitiesInStep` adds `Listed`: stages and forms are listed alike, each id once. It
needs induction, because the stages of a fork are removed one by one in a fold
(`WithoutAllProperties`) and a pipeline is opened by joining the lists of its rows
(`JoinedOnce`, `FlowStagesOnce`). `OptionsFresh` adds `FreshForms`: every form, not only
the one shown, offers for a field that does not wait what the values its resolver looks
at give; the lemma `AffectedClosed` says that the recursion, stopped after as many steps
as there are fields, has reached the whole chain, so whatever is related to a changed
field is among the fields that are reset (`RelatedAffected`). `SavedUnderOwnName`
follows from the state alone: a stage stands at one place (`FlowStagesOnce`), and names
that passed `selectValid` differ, so what is saved under a name is that stage's. So does
`RoundTrip`, with `PlaceFound`, which says that the number a stage gets when the saved
rows are numbered leads back to its row and place, and with `TextReadAgain`, which says
for every kind of control what a value is after it was written as text and read
(`SecretAgain`, `RepositoryAgain`).

For `DiagramSpec` the mapping reads the forks in the order of `parallels`. `Drawn` says
that this is a sequence of non-empty groups with every stage in it, and one lemma per
action of the diagram shows the step: `OpenShown`, `SelectShown`, `AddParallelShown`,
`AddStageShown`, `RemoveStageShown`, `RemoveParallelShown`, `RenameShown`. Values, options,
settings and the names of parallels are stutters (`NothingChanges`).

**The editor.** `EInv` is the store's invariant with: drafts are for what is selected,
and typed values touch no hidden field (`NameDraft`, `ValuesDraft`); at most one request
is under way, and if its stage is still there it asks for just what that form waits for,
with answers for the values the form has now (`Loads`, `Suits`); options are kept for
fields only (`OptionsOfFields`). The last makes a late answer a step of the store:
`Suits` is kept because a form that changes what it waits for starts a new request,
which replaces the one under way, and because the values its resolvers look at have not
changed if the form waits for the same (`AnswerStands`). That a form which is shown is
being loaded (`SelectedIsLoading`) is part of the invariant, and a typed name leaves
only by dispatch, or with the form (`TypedNameKept`).

**The settings.** `SaveKeepsOtherKeys` speaks of data, the API server compares
versions. `IInv` says that versions identify data: no write has a version greater
than the last (`VersionsGrow`), a config map read earlier and still of the stored
version has the stored data (`Seen`, of the cache and of every request), and a
request that may update has read the data known when it began
(`ComparedWithOld`). `TypeOK` is inductive together with `Ready`: a request that
takes over or unpacks data has read them.

**The keys.** `KeyTypeOK` is inductive: its deep part is that a replica never keeps a
failed answer as its secret (`KeptIsSecret`), and its lemmas say what each helper
(`goto`, `done`, `take`) leaves of it. `StoredKeyStays` holds of every step alone: a key
is replaced by a key neither by `Create`, which finds it there, nor by anything else but
`Repair`.

**The list of runs.** `ListAnswersQuery` needs that the request under way, when there
is one, is for what is chosen (`AsksForChoice`). `DeletedIsGone` needs that a deleted
run is gone from the server for good (`DeletedForGood`), and that telling the user
and dropping the request under way are one step.

**The terminal.** `Shape` is the type with what frames carry and the order in which a
goroutine comes to its states: a size or a key is taken only by a loop whose shell
was started, and shells are started one after another. `KeysInOrder` needs
`Ordered`: what a shell was given comes before what its loop holds, this before what
is under way, and an earlier shell's keys before a later one's. A reader whose shell has
ended still takes frames from the connection, and `Ordered` lets it lose them.
`KeysArrive` needs `Arriving`: while the first shell runs, what it was given, what its
loop holds and what is under way is, in this order, all that was typed.
`FirstShellSized` needs `SizeComes`: the size of the terminal is that of the last resize
under way, or the first loop holds it, or the first shell has it. Keys in a
sequence of frames are a recursive function (`keysIn`), so their lemmas
(`KeysInAppended`, `KeysInTail`) are by induction.

**The viewers.** `LogInOrder` needs that a request starts where the text ends
(`StartsAtEnd`): an answer may change where the next one starts, and only with it.
`DetailIsFinal` needs that whatever ended the interval was a final answer
(`EndedByFinal`), that a run that has finished stays as it is (`FinishedStays`), and that what
was polled is shown as soon as the permissions are there (`ShownIfPermitted`).
`PageInLines` and `NameKeepsLine` are about operators and need no invariant: a page lies
inside the lines whatever is asked for, although the code slices without a check; and if
the lines of one time stand in a row (`Row`), a name says how many come before or after
the line (`NameInRow`), and what is read later is searched for the line with as many
(`LineOfName`), which is the promise of the comment with the exception above.

`PagesAdjoin` speaks of two answers and all that happens between them. A page is a cut
of a *reading*: the lines between two ends, perhaps with the beginning of one more
(`PageRead`). Its ends may be those of an earlier moment, but neither end of what is read
ever goes back while lines are written and rotated (`WasRead`, `PageStays`). The
invariant says: what was answered, and what is shown unless another log is being
asked for, is such a page, or the error shown as a log, or empty (`PagesOfLog`); an older
or newer page is asked for beside the page that is shown and nothing is pulled
behind it, because the links are disabled while something is asked and a timer ends
with the pulling (`AskedOnce`); and what was answered adjoins (`AnswerAdjoins`). The last is
established by `GetLogs`: `FoundAgain` says that the line named in the first reading is
found in the second as that line, or not at all, if a line of a later time was read
with it or both begin with the same line; the arithmetic of the cut does the
rest (`NewerBeside`, `OlderBeside`).

**The forms.** `SourceInv` says that a branch is checked for the repository that is
chosen, or else was svn's (`BranchChecked`), that the last step was reached with a
valid branch (`LastStepValid`), and that a form that nobody changed holds what is
stored (`FormIsStored`). `TriggerInv` says the latter of triggers
(`FormHasTriggers`), for a form that was opened for an update and so could read them.

Of the form of an application, `ApplicationInv` has `NamesDistinct` with `ListShown`
(there is a list only of several components, and it is not empty but for `twice`),
`ModelAlone` (before there are several, what is in the list is the component of the
form) and `CopyIsList`: as long as the form of one of several is shown, the copy that
cancelling brings back is the list that was shown last. The list is filtered by
`SelectSeq`; `OthersLeft` says that what is left has the other names, each once if they
were.

**The projects.** Goroutines may write over one another in the arrays, so what is in
the slice is no invariant of one goroutine. `IInv` says: the map has every project
that is in an array (`Grown`, `ArraysOnce`); and a project that a goroutine has
claimed and not yet written is in no array and with no other goroutine
(`CarriedOnce`). Then no array ever has a project twice, and whichever array and
length the torn slice ends with, its elements differ. `CompleteInTurn` adds that the map
has what the goroutines have come to (`Reaching`), and, as long as no two were appending at
the same time, how far the one that appends is: the slice has all that is in the map
and written, and the count lags behind it just while it writes (`InTurn`, `TurnOf`).

**Induction.** The library's induction theorems take a predicate as a parameter, which
the provers cannot instantiate. `InductionLemmas` derives from `<` being well-founded
that a set of numbers with 0 and all successors has every number (`SetInduction`), and
that a function defined by recursion over `1 .. n` exists (`RecursionExists`); for each
claim the set of the numbers for which it holds is given. So the lemmas about sequences
above, whatever their length, rest on nothing but the library's theorems on
well-founded relations, finite sets and sequences.

**Only model-checked**: liveness, that is `LoadingEnds`, `LogFollowsRun`, `RunIsListed`,
`DetailShowsEnd`, `KeysConverge`, `ExpiredIsEvicted`, `DeadConnectionCloses` and
`EndIsShown`, since neither fairness nor ENABLED is in the provers' reach; and the five
properties that fail, which are the findings.

## 6. What is not modelled

- The slices `navigator` and `tasks` and the flags `edited` and `nameEdited`: no
  other slice reads them. `clearPipeline` is never dispatched.
- Patterns and maximal lengths of fields, the conversion of images; geometry.
- Saving the editor's pipeline over HTTP: `savePipeline` reads the store while what was
  typed in the last 200 ms is not in it (`VE/component.ts:151`), and a second save
  while the first is under way is not prevented (`:200`).
- The authentication settings (`SaveAuthSettings` keeps new data as raw settings
  though its update failed, `BE/settings/manager.go:259`); `SaveDevopsSettings`, which
  has no route. `rawSettings` is not updated by a save, so that the same user's next
  save is refused unless somebody reads in between: the model has it, and no document
  promises otherwise.
- The terminal's page stays at *connecting* when the connection fails before it opens
  (`shell.component.ts:300`).
- Of the list of runs, what a query selects, and the sort order; of the page of a run,
  the steps of an earlier stage that may arrive late; of the repository form, the
  branches of an earlier repository.
- A failed update of an application whose single component was pushed to the list
  before is modelled (`twice`); a deployment that fails half-way
  (`BE/resource/deployment/deploy.go`) is not rolled back and not modelled.
- Of the log of a container, the flags `truncated` and `lastPage`, which the frontend does
  not read, the dates of a page, and downloads. Times are those of the container runtime
  and do not decrease.
- Tool chain bindings, statistics, resource channels: every result has a variable or a
  channel of its own, read after it was written. The configuration loader is created
  nowhere. (`toolchain/list.go` answers the critical error of the repository bindings
  where that of the quality bindings is meant: a slip without interleaving.)
- `NeverRestart`, `Delete` of synchronizers, other pollers; tokens and cryptography.
- The remaining features of the frontend are lists and forms without state beyond one
  request, and translations between what is stored and shown; the remaining handlers
  of the backend make one call each. They are most of the code, and there is little in
  them that a model checker sees and a reader does not. `PROJECT.json` lists them.

## 7. Plan

Done, in this order: the editor (reducers, forms, epics), the settings, the terminal;
then the synchronizer with the key holder, the directive and what is built on it, the
polled pages, the forms of applications and pipelines, the cache, the projects of
registries and the log of a container; and the proofs of section 5.

Next would be:

1. The editor's save over HTTP on `PipelineEditor`: drafts, double save, failure; the
   authentication settings on `SettingsManager`.
2. Deployment: creations that are not rolled back, and a second attempt.
3. Pure algorithms: paging, sorting and filtering of `dataselect`.
4. Proofs: that the exceptions the properties name (`closed` of a page, `cut`, `twice`) are
   the only ones, by a theorem that each can be dropped where its cause is.
