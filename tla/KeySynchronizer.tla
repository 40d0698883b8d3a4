-------------------------- MODULE KeySynchronizer ---------------------------
(***************************************************************************)
(* Replicas of the dashboard that share the key of their tokens through a  *)
(* secret: the key holder and the token manager (backend/auth/jwe), the    *)
(* synchronizer and its poller, and Overwatch, which restarts it           *)
(* (backend/sync).  Each request to the API server, each meeting on a      *)
(* channel and each use of a field that goroutines share is an action.     *)
(*                                                                         *)
(* A replica has three threads that use the synchronizer: `init`, which    *)
(* makes the key holder, `sync`, the goroutine of Start, and `request`,    *)
(* which decrypts a token.  Nothing in the repository registers the        *)
(* synchronizer yet.  The map of handlers has no lock, so it can only be   *)
(* registered once the key holder, which adds its handlers, is there.      *)
(***************************************************************************)
EXTENDS Integers

CONSTANTS
  Replica,     \* the running dashboards
  Key,         \* the keys that can be generated
  Tampered,    \* the content of a secret that holds no key
  Nothing,     \* nil, and a secret that does not exist
  Failed,      \* an event for a request that failed
  Pollers,     \* bound: goroutines of Poll at the same time
  MaxTrouble   \* bound: how often a request fails, or somebody else deletes or
               \* tampers with the secret

ASSUME KeyAssumption ==
  /\ Key # {}
  /\ {Tampered, Nothing, Failed} \cap Key = {}
  /\ Tampered # Nothing /\ Tampered # Failed /\ Nothing # Failed
  /\ Pollers \in Nat /\ MaxTrouble \in Nat

Secret == Key \cup {Tampered, Nothing}
Thread == {"init", "sync", "request"}
Slot == 1 .. Pollers

VARIABLES
  secret,   \* the secret that is stored
  cached,   \* and as the cache of the API server has it
  trouble,  \* how often a request failed or somebody meddled
  fresh,    \* the keys not generated yet
  alive,       \* whether the replica runs
  key,      \* rsaKeyHolder.key
  local,    \* secretSynchronizer.secret
  pc,       \* where each thread is
  monitor,  \* where the goroutine of monitorSynchronizerStatus is
  stopped,  \* PollWatcher.stopped
  poller    \* the goroutines of Poll, with the event they are to send

cluster == <<secret, cached, trouble>>
replica == <<alive, pc, monitor>>
watcher == <<stopped, poller>>
keyVars == <<cluster, fresh, key, local, replica, watcher>>

at(r, t, place) == alive[r] /\ pc[r][t] = place
goto(r, t, place) == pc' = [pc EXCEPT ![r][t] = place]

\* A request to the API server fails, or it does not.
fault == trouble < MaxTrouble /\ trouble' = trouble + 1
noFault == UNCHANGED trouble

\* A panic outside of a request ends the process.
exit(r) == alive' = [alive EXCEPT ![r] = FALSE]

noPoller == [p \in Slot |-> [pc |-> "none", event |-> Nothing]]

-----------------------------------------------------------------------------
(* The cluster.                                                            *)

Meddle ==
  /\ secret # Nothing
  /\ fault
  /\ secret' \in {Nothing, Tampered} \ {secret}
  /\ UNCHANGED <<cached, fresh, key, local, replica, watcher>>

CacheCatchesUp ==
  /\ cached # secret
  /\ cached' = secret
  /\ UNCHANGED <<secret, trouble, fresh, key, local, replica, watcher>>

\* A pod is started: NewRSAKeyHolder generates a key and registers its handlers.
Boot(r) ==
  /\ ~ alive[r] /\ fresh # {}
  /\ alive' = [alive EXCEPT ![r] = TRUE]
  /\ LET k == CHOOSE x \in fresh : TRUE IN
       key' = [key EXCEPT ![r] = k] /\ fresh' = fresh \ {k}
  /\ local' = [local EXCEPT ![r] = Nothing]
  /\ pc' = [pc EXCEPT ![r] = [init |-> "get", sync |-> "none", request |-> "none"]]
  /\ monitor' = [monitor EXCEPT ![r] = "none"]
  /\ stopped' = [stopped EXCEPT ![r] = FALSE]
  /\ poller' = [poller EXCEPT ![r] = noPoller]
  /\ UNCHANGED cluster

-----------------------------------------------------------------------------
(* What the threads of a replica do with the secret.                       *)

\* The thread has done what it had to; the synchronizer receives the next event.
done(r, t) == goto(r, t, IF t = "sync" THEN "recv" ELSE "none")

\* handleEvent keeps what was handled as the local copy, after the handlers.
keepHandled(r, t, copy) ==
  local' = IF t = "sync" THEN [local EXCEPT ![r] = copy] ELSE local

\* Get and Refresh keep what they read before it is used, and handleEvent when no
\* handler is left.
keepRead(r, t, s) ==
  local' = IF t = "sync" /\ s \notin Key THEN local ELSE [local EXCEPT ![r] = s]

\* The key of the replica is kept.
take_init(r, t, s) ==
  /\ keepRead(r, t, s)
  /\ IF s \in Key
     THEN done(r, t) /\ key' = IF t = "init" THEN [key EXCEPT ![r] = s] ELSE key
     ELSE goto(r, t, "repair") /\ UNCHANGED key

\* rsaKeyHolder.update: the key of the secret is taken over; a secret without one
\* has to be replaced.
take(r, t, s) ==
  /\ keepRead(r, t, s)
  /\ IF s \in Key
     THEN done(r, t) /\ key' = [key EXCEPT ![r] = s]
     ELSE goto(r, t, "repair") /\ UNCHANGED key

\* Get, called by init before there is a local copy.  Without a secret, init
\* goes on to Create.
Get(r) ==
  /\ at(r, "init", "get")
  /\ \/ noFault /\ cached # Nothing /\ take(r, "init", cached)
     \/ /\ IF cached = Nothing THEN noFault ELSE fault
        /\ goto(r, "init", "create")
        /\ UNCHANGED <<key, local>>
  /\ UNCHANGED <<secret, cached, fresh, alive, monitor, watcher>>

\* What the failed read answers is kept.
Refresh_keepsFailed(r) ==
  /\ at(r, "request", "none") /\ at(r, "init", "none")
  /\ \/ noFault /\ cached # Nothing /\ take(r, "request", cached)
     \/ /\ IF cached = Nothing THEN noFault ELSE fault
        /\ goto(r, "request", "repair")
        /\ local' = [local EXCEPT ![r] = Failed]
        /\ UNCHANGED key
  /\ UNCHANGED <<secret, cached, fresh, alive, monitor, watcher>>

\* Refresh, when a token does not decrypt.  When the read fails the local copy is
\* taken; and when there is none, the request ends with a panic.
Refresh(r) ==
  /\ at(r, "request", "none") /\ at(r, "init", "none")
  /\ \/ noFault /\ cached # Nothing /\ take(r, "request", cached)
     \/ /\ IF cached = Nothing THEN noFault ELSE fault
        /\ local[r] # Nothing
        /\ take(r, "request", local[r])
  /\ UNCHANGED <<secret, cached, fresh, alive, monitor, watcher>>

\* The rest of update: Update writes whatever is stored by then, and when it
\* fails the thread panics.
Repair(r, t) ==
  /\ at(r, t, "repair")
  /\ \/ /\ noFault /\ secret # Nothing
        /\ secret' = key[r]
        /\ UNCHANGED alive
     \/ /\ IF secret = Nothing THEN noFault ELSE fault
        /\ IF t = "request" THEN UNCHANGED alive ELSE exit(r)
        /\ UNCHANGED secret
  /\ done(r, t) /\ keepHandled(r, t, Tampered)
  /\ UNCHANGED <<cached, fresh, key, monitor, watcher>>

\* The secret that exists is replaced.
Create_replaces(r, t) ==
  /\ at(r, t, "create")
  /\ noFault
  /\ secret' = key[r]
  /\ done(r, t) /\ keepHandled(r, t, Nothing)
  /\ UNCHANGED <<cached, fresh, key, alive, monitor, watcher>>

\* init, and recreate, which ignores what Create answers.  A secret that exists
\* stays as it is, and so does the key of the replica.
Create(r, t) ==
  /\ at(r, t, "create")
  /\ \/ /\ noFault
        /\ secret' = IF secret = Nothing THEN key[r] ELSE secret
        /\ UNCHANGED alive
     \/ /\ fault
        /\ IF t = "init" THEN exit(r) ELSE UNCHANGED alive
        /\ UNCHANGED secret
  /\ done(r, t) /\ keepHandled(r, t, Nothing)
  /\ UNCHANGED <<cached, fresh, key, monitor, watcher>>

-----------------------------------------------------------------------------
(* The synchronizer and its poller.                                        *)

\* Start and watch: there is one poller with one watcher, however often it runs.
start(r) ==
  /\ goto(r, "sync", "recv")
  /\ \E p \in Slot :
       /\ poller[r][p].pc = "none"
       /\ \A q \in Slot : q < p => poller[r][q].pc # "none"
       /\ poller' = [poller EXCEPT ![r][p].pc = "check"]

\* IsStopped, and getSecretEvent, which does not read from the cache.
Poll(r, p) ==
  /\ alive[r] /\ poller[r][p].pc = "check"
  /\ \/ /\ stopped[r]
        /\ poller' = [poller EXCEPT ![r][p].pc = "none"]
        /\ noFault
     \/ /\ ~ stopped[r]
        /\ \/ noFault /\ poller' = [poller EXCEPT ![r][p] = [pc |-> "send", event |-> secret]]
           \/ fault /\ poller' = [poller EXCEPT ![r][p] = [pc |-> "send", event |-> Failed]]
  /\ UNCHANGED <<secret, cached, fresh, key, local, replica, stopped>>

\* The event is handed over, and handleEvent runs the handlers of its type.
HandleEvent(r, p) ==
  LET event == poller[r][p].event IN
  /\ at(r, "sync", "recv") /\ ~ stopped[r] /\ poller[r][p].pc = "send"
  /\ poller' = [poller EXCEPT ![r][p] = [pc |-> "check", event |-> Nothing]]
  /\ IF event \in {Nothing, Failed}
     THEN /\ goto(r, "sync", IF event = Failed THEN "fail" ELSE "create")
          /\ UNCHANGED <<key, local>>
     ELSE take(r, "sync", event)
  /\ UNCHANGED <<cluster, fresh, alive, monitor, stopped>>

\* ResultChan is closed: "watch ended with timeout".
WatchEnded(r) ==
  /\ at(r, "sync", "recv") /\ stopped[r]
  /\ goto(r, "sync", "fail")
  /\ UNCHANGED <<cluster, fresh, key, local, alive, monitor, watcher>>

\* The deferred watcher.Stop.
Stop(r) ==
  /\ at(r, "sync", "stop")
  /\ stopped' = [stopped EXCEPT ![r] = TRUE]
  /\ goto(r, "sync", "none")
  /\ UNCHANGED <<cluster, fresh, key, local, alive, monitor, poller>>

\* A poller that was past IsStopped when the channel was closed.
SendOnClosed(r, p) ==
  /\ alive[r] /\ stopped[r] /\ poller[r][p].pc = "send"
  /\ exit(r)
  /\ UNCHANGED <<cluster, fresh, key, local, pc, monitor, watcher>>

-----------------------------------------------------------------------------
(* Overwatch, with the policy AlwaysRestart.                               *)

\* RegisterSynchronizer: Start, and a goroutine that may ask for Error() before
\* Start has made the channel.  It is nil then, and nothing ever comes from nil.
Register(r) ==
  /\ at(r, "init", "none") /\ monitor[r] = "none"
  /\ \E place \in {"recv", "stuck"} : monitor' = [monitor EXCEPT ![r] = place]
  /\ start(r)
  /\ UNCHANGED <<cluster, fresh, key, local, alive, stopped>>

\* The error is handed over; the synchronizer ends while the monitor sleeps.
Error(r) ==
  /\ at(r, "sync", "fail") /\ monitor[r] = "recv"
  /\ monitor' = [monitor EXCEPT ![r] = "sleep"]
  /\ goto(r, "sync", "stop")
  /\ UNCHANGED <<cluster, fresh, key, local, alive, watcher>>

\* monitorRestartEvents.  RestartDelay is longer than the deferred calls take.
Restart(r) ==
  /\ at(r, "sync", "none") /\ monitor[r] = "sleep"
  /\ start(r)
  /\ monitor' = [monitor EXCEPT ![r] = "recv"]
  /\ UNCHANGED <<cluster, fresh, key, local, alive, stopped>>

-----------------------------------------------------------------------------
\* No replica runs yet; there may be a secret that an earlier one has left.
KeyInit ==
  /\ secret \in {Nothing, Tampered, CHOOSE k \in Key : TRUE}
  /\ cached = secret
  /\ trouble = 0
  /\ fresh = Key \ {secret}
  /\ alive = [r \in Replica |-> FALSE]
  /\ key = [r \in Replica |-> Nothing]
  /\ local = [r \in Replica |-> Nothing]
  /\ pc = [r \in Replica |-> [t \in Thread |-> "none"]]
  /\ monitor = [r \in Replica |-> "none"]
  /\ stopped = [r \in Replica |-> FALSE]
  /\ poller = [r \in Replica |-> noPoller]

HolderNext(r) ==
  \/ Get(r) \/ Refresh(r)
  \/ \E t \in Thread : Repair(r, t) \/ Create(r, t)

SyncNext(r) ==
  \/ WatchEnded(r) \/ Stop(r) \/ Register(r) \/ Error(r) \/ Restart(r)
  \/ \E p \in Slot : Poll(r, p) \/ HandleEvent(r, p) \/ SendOnClosed(r, p)

KeyNext ==
  \/ Meddle \/ CacheCatchesUp
  \/ \E r \in Replica : Boot(r) \/ HolderNext(r) \/ SyncNext(r)

KeySpec == KeyInit /\ [][KeyNext]_keyVars

\* Goroutines are scheduled, timers fire, requests end and the cache follows.
\* Nobody has to start a replica, register a synchronizer or send a token.
KeyFairness ==
  /\ WF_keyVars(CacheCatchesUp)
  /\ \A r \in Replica :
       /\ WF_keyVars(Get(r))
       /\ \A t \in Thread : WF_keyVars(Repair(r, t) \/ Create(r, t))
       /\ WF_keyVars(WatchEnded(r) \/ Stop(r) \/ Error(r) \/ Restart(r))
       /\ \A p \in Slot : WF_keyVars(Poll(r, p) \/ HandleEvent(r, p) \/ SendOnClosed(r, p))

KeyFairSpec == KeySpec /\ KeyFairness

-----------------------------------------------------------------------------
(* Properties.                                                             *)

\* The shape of the state.
KeyTypeOK ==
  /\ secret \in Secret /\ cached \in Secret
  /\ trouble \in 0 .. MaxTrouble
  /\ fresh \subseteq Key
  /\ alive \in [Replica -> BOOLEAN]
  /\ key \in [Replica -> Key \cup {Nothing}]
  /\ local \in [Replica -> Secret]
  /\ pc \in [Replica -> [Thread -> {"none", "get", "repair", "create", "recv", "fail", "stop"}]]
  /\ monitor \in [Replica -> {"none", "recv", "stuck", "sleep"}]
  /\ stopped \in [Replica -> BOOLEAN]
  /\ poller \in [Replica -> [Slot -> [pc : {"none", "check", "send"}, event : Secret \cup {Failed}]]]

\* Replicas that start together, or recreate a secret that was deleted, do not
\* overwrite each other's key: a key that is stored gives way to another only
\* where a replica has read a secret without one.
StoredKeyStays ==
  [][secret # secret' /\ {secret, secret'} \subseteq Key =>
       \E r \in Replica, t \in Thread : at(r, t, "repair")]_keyVars

\* However replicas race to create the secret, whatever they read from a stale
\* cache and whoever deletes or damages it: in the end every replica whose
\* synchronizer has not failed uses the key that is stored.
KeysConverge ==
  <>[] \A r \in Replica :
    (alive[r] /\ ~ stopped[r] /\ pc[r].sync \in {"recv", "repair", "create"})
      => key[r] = secret

\* overwatch.go:25: in case of error the synchronizer is restarted.  So when
\* Overwatch waits for its error, it polls again some time after it failed.
RestartedPolls ==
  \A r \in Replica :
    (at(r, "sync", "fail") /\ monitor[r] = "recv") ~> ~ alive[r] \/ (at(r, "sync", "recv") /\ ~ stopped[r])
=============================================================================
