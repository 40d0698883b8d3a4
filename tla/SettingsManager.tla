-------------------------- MODULE SettingsManager ---------------------------
(***************************************************************************)
(* The settings of the dashboard (backend/settings): a config map of the   *)
(* cluster and the manager that keeps the last data it saw of it.  Every   *)
(* request runs in a goroutine of its own and the manager has no lock, so  *)
(* each access to the manager or to the API server is an action.           *)
(*                                                                         *)
(* The copy of the manager that serves the settings endpoints is the one   *)
(* modelled; the other copies and replicas change the config map elsewhere.*)
(***************************************************************************)
EXTENDS Integers, FiniteSets

CONSTANTS
  Client,      \* the users, each with one request at a time
  Value,       \* what can be saved under a key
  Default,     \* the default settings
  Nothing,     \* nil
  MaxVersion   \* bound: how often the config map is written

ASSUME SettingsAssumption ==
  /\ Default \in Value /\ Nothing \notin Value
  /\ MaxVersion \in Nat \ {0}

\* GlobalSettingsKey and SettingsDevopsDomainGlobalConfigKey
Key == {"global", "devops"}
Data == [Key -> Value]
ConfigMap == [version : 1 .. MaxVersion, data : Data]
\* What the routes of handler.go ask for; none of them saves the devops settings.
Operation ==
  [kind : {"get"}, key : Key, value : {Nothing}]
    \cup [kind : {"save"}, key : {"global"}, value : Value]

VARIABLES
  stored,   \* the config map, Nothing when it has been deleted
  version,  \* the resource version of the last write
  cached,   \* the config map as the cache of the API server has it
  raw,      \* sm.rawSettings
  current,  \* sm.settings and sm.devopsSettings
  request,  \* what the goroutine of each client is doing, with its locals
  shown     \* the settings a client was answered last

server == <<stored, version, cached>>
manager == <<raw, current>>
vars == <<server, manager, request, shown>>

\* GetDefaultSettingsConfigMap, with the hook of the devops settings.
defaultData == [k \in Key |-> Default]

\* The locals of a request: what sm.rawSettings was when it began, the config
\* map it got, the data to take over and the keys of it still to unpack.
Idle == [pc |-> "idle", op |-> Nothing, old |-> Nothing, configMap |-> Nothing,
         different |-> FALSE, data |-> Nothing, todo |-> {}]

Request ==
  [pc : {"idle", "load", "restore", "adopt", "range", "unpack", "ready"},
   op : Operation \cup {Nothing}, old : Data \cup {Nothing},
   configMap : ConfigMap \cup {Nothing}, different : BOOLEAN,
   data : Data \cup {Nothing}, todo : SUBSET Key]

at(c, pc) == request[c].pc = pc
goto(c, r) == request' = [request EXCEPT ![c] = r]

\* Bound: every save that has begun and every restore can still write.
room ==
  version + Cardinality({c \in Client : ~ at(c, "idle") /\ request[c].op.kind = "save"})
          + (IF stored = Nothing THEN 1 ELSE 0) < MaxVersion

-----------------------------------------------------------------------------
(* The cluster.                                                            *)

write(data) ==
  /\ version < MaxVersion
  /\ version' = version + 1
  /\ stored' = [version |-> version + 1, data |-> data]

\* Somebody else: kubectl, or another replica of the dashboard.
Elsewhere ==
  /\ room /\ stored # Nothing
  /\ \E k \in Key, v \in Value : write([stored.data EXCEPT ![k] = v])
  /\ UNCHANGED <<cached, manager, request, shown>>

Delete ==
  /\ room /\ stored # Nothing
  /\ stored' = Nothing
  /\ UNCHANGED <<version, cached, manager, request, shown>>

CacheCatchesUp ==
  /\ cached # stored
  /\ cached' = stored
  /\ UNCHANGED <<stored, version, manager, request, shown>>

-----------------------------------------------------------------------------
(* load and what it is called for.                                         *)

\* sm.rawSettings is passed to loadConfigMap before the Get.
Call(c, op) ==
  /\ at(c, "idle")
  /\ goto(c, [Idle EXCEPT !.pc = "load", !.op = op, !.old = raw])
  /\ UNCHANGED <<server, manager, shown>>

\* loadConfigMap.  When the Get fails, the config map the client returns is not
\* nil but empty, and isDifferent is false.
Load(c) ==
  /\ at(c, "load")
  /\ \/ /\ cached = Nothing
        /\ goto(c, [request[c] EXCEPT !.pc = "restore"])
     \/ /\ cached # Nothing /\ cached.data = request[c].old
        /\ goto(c, [request[c] EXCEPT !.pc = "ready", !.configMap = cached])
     \/ /\ cached # Nothing /\ cached.data # request[c].old
        /\ goto(c, [request[c] EXCEPT !.pc = "adopt", !.configMap = cached,
                                      !.different = TRUE, !.data = cached.data])
  /\ UNCHANGED <<server, manager, shown>>

\* restoreConfigMap: Create fails when the config map exists after all.
Restore(c) ==
  /\ at(c, "restore")
  /\ \/ /\ stored = Nothing
        /\ write(defaultData)
        /\ goto(c, [request[c] EXCEPT !.pc = "adopt", !.data = defaultData])
     \/ /\ stored # Nothing
        /\ goto(c, [request[c] EXCEPT !.pc = "ready"])
        /\ UNCHANGED <<stored, version>>
  /\ UNCHANGED <<cached, manager, shown>>

Adopt(c) ==
  /\ at(c, "adopt")
  /\ raw' = request[c].data
  /\ goto(c, [request[c] EXCEPT !.pc = "range"])
  /\ UNCHANGED <<server, current, shown>>

\* restoreFromRaw reads sm.rawSettings again.
StartRange(c) ==
  /\ at(c, "range")
  /\ goto(c, [request[c] EXCEPT !.pc = "unpack", !.data = raw, !.todo = Key])
  /\ UNCHANGED <<server, manager, shown>>

\* The keys of a map come in any order.
Unpack(c) ==
  /\ at(c, "unpack")
  /\ \E k \in request[c].todo :
       /\ current' = [current EXCEPT ![k] = request[c].data[k]]
       /\ LET rest == request[c].todo \ {k} IN
          goto(c, [request[c] EXCEPT !.todo = rest, !.pc = IF rest = {} THEN "ready" ELSE "unpack"])
  /\ UNCHANGED <<server, raw, shown>>

\* GetGlobalSettings and GetDevopsSettings
Get(c) ==
  LET k == request[c].op.key IN
  /\ at(c, "ready") /\ request[c].op.kind = "get"
  /\ shown' = [shown EXCEPT ![c][k] = IF current[k] = Nothing THEN Default ELSE current[k]]
  /\ goto(c, Idle)
  /\ UNCHANGED <<server, manager>>

\* Whether isDiff lets a save go on to its Update.
mayUpdate(c) ==
  /\ at(c, "ready") /\ request[c].op.kind = "save"
  /\ ~ request[c].different

\* SaveGlobalSettings: isDiff
Refuse(c) ==
  /\ at(c, "ready") /\ request[c].op.kind = "save" /\ request[c].different
  /\ goto(c, Idle)
  /\ UNCHANGED <<server, manager, shown>>

\* The API server takes a config map only with the version it has stored.
accepts(configMap) ==
  configMap # Nothing /\ stored # Nothing /\ configMap.version = stored.version

\* Neither are the data that were read nor is their version sent back.
Save_blind(c) ==
  LET op == request[c].op IN
  /\ mayUpdate(c) /\ stored # Nothing
  /\ write([defaultData EXCEPT ![op.key] = op.value])
  /\ shown' = [shown EXCEPT ![c][op.key] = op.value]
  /\ goto(c, Idle)
  /\ UNCHANGED <<cached, manager>>

\* The response of a save that succeeds is what was saved; sm.rawSettings is
\* left as it was.
Save(c) ==
  LET op == request[c].op IN
  /\ mayUpdate(c) /\ accepts(request[c].configMap)
  /\ write([request[c].configMap.data EXCEPT ![op.key] = op.value])
  /\ shown' = [shown EXCEPT ![c][op.key] = op.value]
  /\ goto(c, Idle)
  /\ UNCHANGED <<cached, manager>>

\* Update fails; or the config map has no data, and assigning to a nil map ends
\* the request with a panic.
Fail(c) ==
  /\ mayUpdate(c) /\ ~ accepts(request[c].configMap)
  /\ goto(c, Idle)
  /\ UNCHANGED <<server, manager, shown>>

-----------------------------------------------------------------------------
Init ==
  /\ stored \in {Nothing, [version |-> 1, data |-> defaultData]}
  /\ version = 1
  /\ cached = stored
  /\ raw = Nothing
  /\ current = [k \in Key |-> Nothing]
  /\ request = [c \in Client |-> Idle]
  /\ shown = [c \in Client |-> [k \in Key |-> Nothing]]

\* A user saves what has been shown and edited.
Ask(c) ==
  \E op \in Operation :
    /\ op.kind = "save" => shown[c][op.key] # Nothing /\ room
    /\ Call(c, op)

Step(c) ==
  \/ Load(c) \/ Restore(c) \/ Adopt(c) \/ StartRange(c) \/ Unpack(c)
  \/ Get(c) \/ Refuse(c) \/ Save(c) \/ Fail(c)

Next ==
  \/ \E c \in Client : Ask(c) \/ Step(c)
  \/ Elsewhere \/ Delete \/ CacheCatchesUp

Spec == Init /\ [][Next]_vars

\* The dashboard has the config map to itself, and its cache is always current.
Undisturbed ==
  \/ \E c \in Client : (cached = stored /\ Ask(c)) \/ Step(c)
  \/ CacheCatchesUp

UndisturbedSpec == Init /\ [][Undisturbed]_vars

-----------------------------------------------------------------------------
(* Properties.                                                             *)

\* The shape of the state.
TypeOK ==
  /\ stored \in ConfigMap \cup {Nothing}
  /\ cached \in ConfigMap \cup {Nothing}
  /\ version \in 1 .. MaxVersion
  /\ raw \in Data \cup {Nothing}
  /\ current \in [Key -> Value \cup {Nothing}]
  /\ request \in [Client -> Request]
  /\ shown \in [Client -> [Key -> Value \cup {Nothing}]]

\* However stale the cache, and whoever else writes: a save replaces exactly
\* the data the manager knew when the request began, and only under its key.
SaveKeepsOtherKeys ==
  [][\A c \in Client :
       Save(c) =>
         /\ stored.data = request[c].old
         /\ \A k \in Key \ {request[c].op.key} : stored'.data[k] = stored.data[k]]_vars

\* settings/api/types.go:56: GetGlobalSettings gets current global settings
\* from the config map.  When every request has been answered and the manager
\* knows the data of the config map, those are the settings it goes on
\* answering with: it unpacks them only when the data have changed.
GetsCurrent ==
  (stored # Nothing /\ raw = stored.data /\ \A c \in Client : at(c, "idle"))
    => current = stored.data

\* settings/api/types.go:41: a save is refused if the settings were modified
\* concurrently.  So no save that succeeds replaces settings that the user it is
\* for has not been shown.
ConcurrentChangeRefused ==
  \A c \in Client :
    (mayUpdate(c) /\ accepts(request[c].configMap))
      => stored.data[request[c].op.key] = shown[c][request[c].op.key]
=============================================================================
