--------------------------- MODULE RequestProofs ----------------------------
(***************************************************************************)
(* A save of the settings keeps what it did not mean to change, for any    *)
(* number of clients.  No project of a registry is in the answer twice,    *)
(* for any number of goroutines that overwrite each other's slices, and    *)
(* any capacities of arrays; and the answer is complete when no two of     *)
(* them were appending at the same time.                                   *)
(***************************************************************************)
EXTENDS SettingsManager, RegistryProjects, FiniteSetTheorems, TLAPS

(* The settings.                                                           *)

\* The last write has the greatest version.
VersionsGrow ==
  /\ version \in Int
  /\ stored # Nothing =>
       stored.version \in Int /\ stored.version <= version /\ DOMAIN stored.data = Key

\* A config map that was read is an old one, or the one that is stored.
Seen(configMap) ==
  configMap # Nothing =>
    /\ configMap.version \in Int /\ configMap.version <= version
    /\ DOMAIN configMap.data = Key
    /\ (stored # Nothing /\ configMap.version = stored.version)
         => configMap.data = stored.data

\* A request that may update read the data the manager knew when it began.
ComparedWithOld(r) ==
  (r.configMap # Nothing /\ ~ r.different) => r.configMap.data = r.old

Fields == {"pc", "op", "old", "configMap", "different", "data", "todo"}

\* The data of a save are compared with what is stored through the version.
SettingsInv ==
  /\ VersionsGrow
  /\ Seen(cached)
  /\ DOMAIN request = Client
  /\ \A c \in Client :
       /\ DOMAIN request[c] = Fields
       /\ Seen(request[c].configMap)
       /\ ComparedWithOld(request[c])

LEMMA SettingsInitEstablishes == Init => SettingsInv
  <1>. SUFFICES ASSUME Init
                PROVE  SettingsInv
    OBVIOUS
  <1>1. VersionsGrow /\ Seen(cached)
    BY DEF Init, VersionsGrow, Seen, defaultData
  <1>2. DOMAIN Idle = Fields /\ Idle.configMap = Nothing
    BY DEF Idle, Fields
  <1>3. \A c \in Client : request[c] = Idle
    BY DEF Init
  <1>4. \A c \in Client : Seen(request[c].configMap) /\ ComparedWithOld(request[c])
    BY <1>2, <1>3 DEF Seen, ComparedWithOld
  <1>. QED
    BY <1>1, <1>2, <1>3, <1>4 DEF Init, SettingsInv

\* A step of one request that leaves the server alone.
LEMMA RequestPreserves ==
  ASSUME SettingsInv, NEW c \in Client, NEW r, goto(c, r), UNCHANGED server,
         DOMAIN r = Fields, Seen(r.configMap), ComparedWithOld(r)
  PROVE  SettingsInv'
  <1>1. UNCHANGED <<stored, version, cached>>
    BY DEF server
  <1>2. /\ DOMAIN request' = Client
        /\ request'[c] = r
        /\ \A d \in Client : d # c => request'[d] = request[d]
    BY DEF goto, SettingsInv
  <1>3. VersionsGrow' /\ Seen(cached)'
    BY <1>1 DEF SettingsInv, VersionsGrow, Seen
  <1>4. \A d \in Client :
          /\ DOMAIN request'[d] = Fields
          /\ Seen(request'[d].configMap)
          /\ ComparedWithOld(request'[d])
    BY <1>2 DEF SettingsInv
  <1>5. \A d \in Client : Seen(request[d].configMap)'
    BY <1>1, <1>4 DEF Seen
  <1>6. \A d \in Client : ComparedWithOld(request[d])'
    BY <1>4 DEF ComparedWithOld
  <1>. QED
    BY <1>2, <1>3, <1>4, <1>5, <1>6 DEF SettingsInv

\* A write gets a version that nothing read before has.
LEMMA WritePreserves ==
  ASSUME SettingsInv, NEW data, DOMAIN data = Key, write(data), UNCHANGED cached,
         DOMAIN request' = Client,
         \A c \in Client :
           /\ DOMAIN request'[c] = Fields
           /\ Seen(request'[c].configMap)
           /\ ComparedWithOld(request'[c])
  PROVE  SettingsInv'
  <1>1. /\ version' = version + 1 /\ version \in Int
        /\ stored' = [version |-> version + 1, data |-> data]
    BY DEF write, SettingsInv, VersionsGrow
  <1>2. stored'.version = version + 1 /\ stored'.data = data
    BY <1>1
  <1>3. VersionsGrow'
    BY <1>1, <1>2 DEF VersionsGrow
  <1>5. Seen(cached)'
    BY <1>1, <1>2 DEF Seen, SettingsInv
  <1>6. \A c \in Client : Seen(request[c].configMap)'
    BY <1>1, <1>2 DEF Seen
  <1>7. \A c \in Client : ComparedWithOld(request[c])'
    BY DEF ComparedWithOld
  <1>. QED
    BY <1>3, <1>5, <1>6, <1>7 DEF SettingsInv

LEMMA SettingsNextPreserves ==
  ASSUME SettingsInv, [Next]_vars
  PROVE  SettingsInv'
  <1>. USE DEF SettingsInv
  <1>1. ASSUME NEW c \in Client, Ask(c)
        PROVE  SettingsInv'
    <2>1. PICK op \in Operation : Call(c, op)
      BY <1>1 DEF Ask
    <2>2. PICK r : r = [Idle EXCEPT !.pc = "load", !.op = op, !.old = raw]
      OBVIOUS
    <2>3. goto(c, r) /\ UNCHANGED server
      BY <2>1, <2>2 DEF Call
    <2>4. DOMAIN r = Fields /\ Seen(r.configMap) /\ ComparedWithOld(r)
      BY <2>2 DEF Idle, Fields, Seen, ComparedWithOld
    <2>. QED
      BY <2>3, <2>4, RequestPreserves
  <1>2. ASSUME NEW c \in Client, Load(c)
        PROVE  SettingsInv'
    <2>1. UNCHANGED server
      BY <1>2 DEF Load
    <2>2. DOMAIN request[c] = Fields /\ Seen(request[c].configMap) /\ ComparedWithOld(request[c])
      OBVIOUS
    <2>3. PICK r :
            /\ goto(c, r)
            /\ \/ r = [request[c] EXCEPT !.pc = "restore"]
               \/ /\ cached # Nothing /\ cached.data = request[c].old
                  /\ r = [request[c] EXCEPT !.pc = "ready", !.configMap = cached]
               \/ r = [request[c] EXCEPT !.pc = "adopt", !.configMap = cached,
                                         !.different = TRUE, !.data = cached.data]
      BY <1>2 DEF Load
    <2>4. DOMAIN r = Fields /\ Seen(r.configMap) /\ ComparedWithOld(r)
      BY <2>2, <2>3 DEF Fields, Seen, ComparedWithOld
    <2>. QED
      BY <2>1, <2>3, <2>4, RequestPreserves
  <1>3. ASSUME NEW c \in Client, Restore(c)
        PROVE  SettingsInv'
    <2>1. DOMAIN request[c] = Fields /\ Seen(request[c].configMap) /\ ComparedWithOld(request[c])
      OBVIOUS
    <2>2. CASE UNCHANGED <<stored, version>>
      <3>1. UNCHANGED server
        BY <1>3, <2>2 DEF Restore, server
      <3>2. PICK r :
              /\ goto(c, r)
              /\ \/ r = [request[c] EXCEPT !.pc = "ready"]
                 \/ r = [request[c] EXCEPT !.pc = "adopt", !.data = defaultData]
        BY <1>3 DEF Restore
      <3>3. DOMAIN r = Fields /\ Seen(r.configMap) /\ ComparedWithOld(r)
        BY <2>1, <3>2 DEF Fields, Seen, ComparedWithOld
      <3>. QED
        BY <3>1, <3>2, <3>3, RequestPreserves
    <2>3. CASE /\ write(defaultData)
               /\ goto(c, [request[c] EXCEPT !.pc = "adopt", !.data = defaultData])
      <3>1. PICK r : r = [request[c] EXCEPT !.pc = "adopt", !.data = defaultData] /\ goto(c, r)
        BY <2>3
      <3>2. DOMAIN r = Fields /\ Seen(r.configMap) /\ ComparedWithOld(r)
        BY <2>1, <3>1 DEF Fields, Seen, ComparedWithOld
      <3>3. /\ DOMAIN request' = Client
            /\ \A d \in Client : request'[d] = IF d = c THEN r ELSE request[d]
        BY <3>1 DEF goto
      <3>4. UNCHANGED cached
        BY <1>3 DEF Restore
      <3>5. \A d \in Client :
              /\ DOMAIN request'[d] = Fields
              /\ Seen(request'[d].configMap)
              /\ ComparedWithOld(request'[d])
        BY <3>2, <3>3
      <3>. QED
        BY <2>3, <3>3, <3>4, <3>5, WritePreserves DEF defaultData
    <2>. QED
      BY <1>3, <2>2, <2>3 DEF Restore
  <1>4. ASSUME NEW c \in Client, Adopt(c) \/ StartRange(c) \/ Unpack(c)
        PROVE  SettingsInv'
    <2>1. DOMAIN request[c] = Fields /\ Seen(request[c].configMap) /\ ComparedWithOld(request[c])
      OBVIOUS
    <2>2. UNCHANGED server
      BY <1>4 DEF Adopt, StartRange, Unpack
    <2>3. ASSUME NEW r, goto(c, r), DOMAIN r = Fields, r.configMap = request[c].configMap,
                 r.old = request[c].old, r.different = request[c].different
          PROVE  SettingsInv'
      <3>1. Seen(r.configMap) /\ ComparedWithOld(r)
        BY <2>1, <2>3 DEF ComparedWithOld
      <3>. QED
        BY <2>2, <2>3, <3>1, RequestPreserves
    <2>4. CASE Adopt(c)
      <3>1. PICK r : r = [request[c] EXCEPT !.pc = "range"] /\ goto(c, r)
        BY <2>4 DEF Adopt
      <3>. QED
        BY <2>1, <2>3, <3>1 DEF Fields
    <2>5. CASE StartRange(c)
      <3>1. PICK r : /\ r = [request[c] EXCEPT !.pc = "unpack", !.data = raw, !.todo = Key]
                     /\ goto(c, r)
        BY <2>5 DEF StartRange
      <3>. QED
        BY <2>1, <2>3, <3>1 DEF Fields
    <2>6. CASE Unpack(c)
      <3>1. PICK rest :
              goto(c, [request[c] EXCEPT !.todo = rest,
                                         !.pc = IF rest = {} THEN "ready" ELSE "unpack"])
        BY <2>6 DEF Unpack
      <3>2. PICK r : /\ r = [request[c] EXCEPT !.todo = rest,
                                               !.pc = IF rest = {} THEN "ready" ELSE "unpack"]
                     /\ goto(c, r)
        BY <3>1
      <3>. QED
        BY <2>1, <2>3, <3>2 DEF Fields
    <2>. QED
      BY <1>4, <2>4, <2>5, <2>6
  <1>5. DOMAIN Idle = Fields /\ Seen(Idle.configMap) /\ ComparedWithOld(Idle)
    BY DEF Idle, Fields, Seen, ComparedWithOld
  <1>6. ASSUME NEW c \in Client, Get(c) \/ Refuse(c) \/ Fail(c)
        PROVE  SettingsInv'
    <2>1. goto(c, Idle) /\ UNCHANGED server
      BY <1>6 DEF Get, Refuse, Fail
    <2>. QED
      BY <1>5, <2>1, RequestPreserves
  <1>7. ASSUME NEW c \in Client, Save(c)
        PROVE  SettingsInv'
    <2>1. PICK data : /\ data = [request[c].configMap.data EXCEPT ![request[c].op.key]
                                                                   = request[c].op.value]
                      /\ write(data)
      BY <1>7 DEF Save
    <2>2. DOMAIN data = Key
      BY <1>7, <2>1 DEF Save, accepts, Seen
    <2>3. goto(c, Idle) /\ UNCHANGED cached
      BY <1>7 DEF Save
    <2>4. /\ DOMAIN request' = Client
          /\ \A d \in Client : request'[d] = IF d = c THEN Idle ELSE request[d]
      BY <2>3 DEF goto
    <2>5. \A d \in Client :
            /\ DOMAIN request'[d] = Fields
            /\ Seen(request'[d].configMap)
            /\ ComparedWithOld(request'[d])
      BY <1>5, <2>4
    <2>. QED
      BY <2>1, <2>2, <2>3, <2>4, <2>5, WritePreserves
  <1>8. CASE Elsewhere
    <2>1. PICK data : write(data) /\ DOMAIN data = Key
      BY <1>8 DEF Elsewhere, VersionsGrow
    <2>2. UNCHANGED <<cached, request>>
      BY <1>8 DEF Elsewhere
    <2>. QED
      BY <2>1, <2>2, WritePreserves
  <1>9. CASE Delete \/ CacheCatchesUp \/ UNCHANGED vars
    <2>1. UNCHANGED <<version, request>>
      BY <1>9 DEF Delete, CacheCatchesUp, vars, server
    <2>2. \/ stored' = Nothing /\ cached' = cached
          \/ stored' = stored /\ cached' = stored
          \/ stored' = stored /\ cached' = cached
      BY <1>9 DEF Delete, CacheCatchesUp, vars, server
    <2>3. VersionsGrow' /\ Seen(cached)'
      BY <2>1, <2>2 DEF VersionsGrow, Seen
    <2>4. \A c \in Client : Seen(request[c].configMap)'
      BY <2>1, <2>2 DEF Seen
    <2>5. \A c \in Client : ComparedWithOld(request[c])'
      BY <2>1 DEF ComparedWithOld
    <2>. QED
      BY <2>1, <2>3, <2>4, <2>5
  <1>. QED
    BY <1>1, <1>2, <1>3, <1>4, <1>6, <1>7, <1>8, <1>9 DEF Next, Step

LEMMA SaveIsExact ==
  ASSUME SettingsInv, NEW c \in Client, Save(c)
  PROVE  /\ stored.data = request[c].old
         /\ \A k \in Key \ {request[c].op.key} : stored'.data[k] = stored.data[k]
  <1>. DEFINE r == request[c]
  <1>1. /\ r.configMap # Nothing /\ stored # Nothing
        /\ r.configMap.version = stored.version /\ ~ r.different
        /\ stored'.data = [r.configMap.data EXCEPT ![r.op.key] = r.op.value]
    BY DEF Save, accepts, mayUpdate, write
  <1>2. /\ r.configMap.data = stored.data /\ DOMAIN stored.data = Key
        /\ r.configMap.data = r.old
    BY <1>1 DEF SettingsInv, Seen, ComparedWithOld, VersionsGrow
  <1>. QED
    BY <1>1, <1>2

\* For any number of clients, however stale the cache and whoever else writes
\* the config map: a save replaces the data its request knew, and only under
\* the key it is for.
THEOREM SaveKeepsOtherKeysAlways == Spec => SaveKeepsOtherKeys
  <1>1. Init => SettingsInv
    BY SettingsInitEstablishes
  <1>2. SettingsInv /\ [Next]_vars => SettingsInv'
    BY SettingsNextPreserves
  <1>3. SettingsInv => [\A c \in Client :
                   Save(c) =>
                     /\ stored.data = request[c].old
                     /\ \A k \in Key \ {request[c].op.key} : stored'.data[k] = stored.data[k]]_vars
    BY SaveIsExact
  <1>. QED
    BY <1>1, <1>2, <1>3, PTL DEF Spec, SaveKeepsOtherKeys
-----------------------------------------------------------------------------
(* The shape of the state.                                                 *)

\* What a request will take over, or answer, is there when it is used.
Ready(r) ==
  /\ r.pc # "idle" => r.op \in Operation
  /\ r.pc \in {"adopt", "unpack"} => r.data \in Data
  /\ r.pc = "range" => raw \in Data

TInv == TypeOK /\ \A c \in Client : Ready(request[c])

LEMMA DefaultIsData == defaultData \in Data
  BY SettingsAssumption DEF defaultData, Data

LEMMA InitShape == Init => TInv
  <1>1. Idle \in Request /\ Ready(Idle)
    BY DEF Idle, Request, Ready, Operation
  <1>2. [version |-> 1, data |-> defaultData] \in ConfigMap
    BY DefaultIsData, SettingsAssumption DEF ConfigMap
  <1>. QED
    BY <1>1, <1>2, SettingsAssumption DEF Init, TInv, TypeOK

\* A write keeps the shape of the config map.
LEMMA WriteShape ==
  ASSUME TInv, NEW data \in Data, write(data)
  PROVE  stored' \in ConfigMap /\ version' \in 1 .. MaxVersion
  <1>1. version \in 1 .. MaxVersion /\ version < MaxVersion /\ version' = version + 1
        /\ stored' = [version |-> version + 1, data |-> data] /\ MaxVersion \in Nat
    BY SettingsAssumption DEF TInv, TypeOK, write
  <1>. QED
    BY <1>1 DEF ConfigMap

\* A step of one request, which may unpack a key or take over what it has read.
LEMMA RequestShape ==
  ASSUME TInv, NEW c \in Client, NEW r \in Request, goto(c, r),
         stored' \in ConfigMap \cup {Nothing}, cached' \in ConfigMap \cup {Nothing},
         version' \in 1 .. MaxVersion, raw' = raw \/ raw' \in Data,
         current' \in [Key -> Value \cup {Nothing}],
         shown' \in [Client -> [Key -> Value \cup {Nothing}]],
         Ready(r)'
  PROVE  TInv'
  <1>1. /\ request' \in [Client -> Request]
        /\ \A d \in Client : request'[d] = IF d = c THEN r ELSE request[d]
    BY DEF goto, TInv, TypeOK
  <1>2. raw' \in Data \cup {Nothing}
    BY DEF TInv, TypeOK
  <1>3. \A d \in Client : Ready(request[d])'
    BY <1>1 DEF TInv, Ready
  <1>. QED
    BY <1>1, <1>2, <1>3 DEF TInv, TypeOK

LEMMA NextShape ==
  ASSUME TInv, [Next]_vars
  PROVE  TInv'
  <1>. USE DEF TInv, TypeOK
  <1>1. ASSUME NEW c \in Client, Ask(c)
        PROVE  TInv'
    <2>1. PICK op \in Operation : Call(c, op)
      BY <1>1 DEF Ask
    <2>0. PICK r : goto(c, r) /\ r = [Idle EXCEPT !.pc = "load", !.op = op, !.old = raw]
      BY <2>1 DEF Call
    <2>2. r \in Request /\ Ready(r)'
      BY <2>0 DEF Idle, Request, Ready
    <2>3. goto(c, r) /\ UNCHANGED <<stored, version, cached, raw, current, shown>>
      BY <2>0, <2>1 DEF Call, server, manager
    <2>. QED
      BY <2>2, <2>3, RequestShape
  <1>2. ASSUME NEW c \in Client, Load(c)
        PROVE  TInv'
    <2>1. UNCHANGED <<stored, version, cached, raw, current, shown>>
      BY <1>2 DEF Load, server, manager
    <2>2. request[c] \in Request /\ request[c].op \in Operation
          /\ (cached # Nothing => cached.data \in Data)
      BY <1>2 DEF Load, at, Ready, ConfigMap
    <2>3. PICK r :
            /\ goto(c, r)
            /\ \/ r = [request[c] EXCEPT !.pc = "restore"]
               \/ r = [request[c] EXCEPT !.pc = "ready", !.configMap = cached]
               \/ /\ cached # Nothing
                  /\ r = [request[c] EXCEPT !.pc = "adopt", !.configMap = cached,
                                            !.different = TRUE, !.data = cached.data]
      BY <1>2 DEF Load
    <2>4. r \in Request /\ Ready(r)'
      BY <2>2, <2>3 DEF Request, Ready
    <2>. QED
      BY <2>1, <2>3, <2>4, RequestShape
  <1>3. ASSUME NEW c \in Client, Restore(c)
        PROVE  TInv'
    <2>1. UNCHANGED <<cached, raw, current, shown>>
      BY <1>3 DEF Restore, manager
    <2>2. request[c] \in Request /\ request[c].op \in Operation
      BY <1>3 DEF Restore, at, Ready
    <2>3. stored' \in ConfigMap \cup {Nothing} /\ version' \in 1 .. MaxVersion
      BY <1>3, DefaultIsData, WriteShape DEF Restore
    <2>4. PICK r :
            /\ goto(c, r)
            /\ \/ r = [request[c] EXCEPT !.pc = "ready"]
               \/ r = [request[c] EXCEPT !.pc = "adopt", !.data = defaultData]
      BY <1>3 DEF Restore
    <2>5. r \in Request /\ Ready(r)'
      BY <2>2, <2>4, DefaultIsData DEF Request, Ready
    <2>. QED
      BY <2>1, <2>3, <2>4, <2>5, RequestShape
  <1>4. ASSUME NEW c \in Client, Adopt(c)
        PROVE  TInv'
    <2>1. PICK r : goto(c, r) /\ r = [request[c] EXCEPT !.pc = "range"]
      BY <1>4 DEF Adopt
    <2>2. raw' = request[c].data /\ UNCHANGED <<stored, version, cached, current, shown>>
      BY <1>4 DEF Adopt, server
    <2>3. request[c] \in Request /\ request[c].op \in Operation /\ request[c].data \in Data
      BY <1>4 DEF Adopt, at, Ready
    <2>4. r \in Request /\ Ready(r)'
      BY <2>1, <2>3, <2>2 DEF Request, Ready
    <2>. QED
      BY <2>1, <2>3, <2>4, <2>2, RequestShape
  <1>5. ASSUME NEW c \in Client, StartRange(c)
        PROVE  TInv'
    <2>1. PICK r : /\ goto(c, r)
                   /\ r = [request[c] EXCEPT !.pc = "unpack", !.data = raw, !.todo = Key]
      BY <1>5 DEF StartRange
    <2>2. UNCHANGED <<stored, version, cached, raw, current, shown>>
      BY <1>5 DEF StartRange, server, manager
    <2>3. request[c] \in Request /\ request[c].op \in Operation /\ raw \in Data
      BY <1>5 DEF StartRange, at, Ready
    <2>4. r \in Request /\ Ready(r)'
      BY <2>1, <2>3, <2>2 DEF Request, Ready
    <2>. QED
      BY <2>1, <2>4, <2>2, RequestShape
  <1>6. ASSUME NEW c \in Client, Unpack(c)
        PROVE  TInv'
    <2>1. PICK k \in request[c].todo :
            /\ current' = [current EXCEPT ![k] = request[c].data[k]]
            /\ goto(c, [request[c] EXCEPT !.todo = request[c].todo \ {k},
                          !.pc = IF request[c].todo \ {k} = {} THEN "ready" ELSE "unpack"])
      BY <1>6 DEF Unpack
    <2>2. UNCHANGED <<stored, version, cached, raw, shown>>
      BY <1>6 DEF Unpack, server
    <2>3. request[c] \in Request /\ request[c].op \in Operation /\ request[c].data \in Data
          /\ k \in Key
      BY <1>6, <2>1 DEF Unpack, at, Ready, Request
    <2>4. current' \in [Key -> Value \cup {Nothing}]
      BY <2>1, <2>3 DEF Data
    <2>5. PICK r : /\ goto(c, r)
                   /\ r = [request[c] EXCEPT !.todo = request[c].todo \ {k},
                            !.pc = IF request[c].todo \ {k} = {} THEN "ready" ELSE "unpack"]
      BY <2>1
    <2>6. r \in Request /\ Ready(r)'
      BY <2>3, <2>5 DEF Request, Ready
    <2>. QED
      BY <2>2, <2>4, <2>5, <2>6, RequestShape
  <1>7. Idle \in Request /\ Ready(Idle)'
    BY DEF Idle, Request, Ready
  <1>8. ASSUME NEW c \in Client, Get(c)
        PROVE  TInv'
    <2>1. goto(c, Idle) /\ UNCHANGED <<stored, version, cached, raw, current>>
      BY <1>8 DEF Get, server, manager
    <2>2. PICK k : shown' = [shown EXCEPT ![c][k] = IF current[k] = Nothing THEN Default
                                                                            ELSE current[k]]
                   /\ k = request[c].op.key
      BY <1>8 DEF Get
    <2>3. k \in Key
      BY <1>8, <2>2 DEF Get, at, Ready, Operation, Key
    <2>4. shown' \in [Client -> [Key -> Value \cup {Nothing}]]
      BY <2>2, <2>3, SettingsAssumption
    <2>. QED
      BY <1>7, <2>1, <2>4, RequestShape
  <1>9. ASSUME NEW c \in Client, Save(c)
        PROVE  TInv'
    <2>1. request[c].op \in Operation /\ request[c].op.kind = "save"
      BY <1>9 DEF Save, mayUpdate, at, Ready
    <2>2. request[c].op.key \in Key /\ request[c].op.value \in Value
      BY <2>1 DEF Operation, Key
    <2>3. request[c].configMap \in ConfigMap
      BY <1>9 DEF Save, accepts, Request
    <2>. DEFINE data == [request[c].configMap.data EXCEPT ![request[c].op.key] = request[c].op.value]
    <2>4. data \in Data
      BY <2>2, <2>3 DEF ConfigMap, Data
    <2>5. write(data) /\ goto(c, Idle) /\ UNCHANGED <<cached, raw, current>>
          /\ shown' = [shown EXCEPT ![c][request[c].op.key] = request[c].op.value]
      BY <1>9 DEF Save, manager
    <2>6. stored' \in ConfigMap /\ version' \in 1 .. MaxVersion
      BY <2>4, <2>5, WriteShape
    <2>7. shown' \in [Client -> [Key -> Value \cup {Nothing}]]
      BY <2>2, <2>5
    <2>. QED
      BY <1>7, <2>5, <2>6, <2>7, RequestShape
  <1>10. ASSUME NEW c \in Client, Refuse(c) \/ Fail(c)
         PROVE  TInv'
    <2>1. goto(c, Idle) /\ UNCHANGED <<stored, version, cached, raw, current, shown>>
      BY <1>10 DEF Refuse, Fail, server, manager
    <2>. QED
      BY <1>7, <2>1, RequestShape
  <1>11. ASSUME UNCHANGED <<raw, current, request, shown>>,
                stored' \in ConfigMap \cup {Nothing}, cached' \in ConfigMap \cup {Nothing},
                version' \in 1 .. MaxVersion
         PROVE  TInv'
    BY <1>11 DEF Ready
  <1>12. CASE Elsewhere
    <2>1. PICK k \in Key, v \in Value : write([stored.data EXCEPT ![k] = v])
      BY <1>12 DEF Elsewhere
    <2>2. [stored.data EXCEPT ![k] = v] \in Data
      BY <1>12 DEF Elsewhere, ConfigMap, Data
    <2>3. stored' \in ConfigMap /\ version' \in 1 .. MaxVersion
      BY <2>1, <2>2, WriteShape
    <2>. QED
      BY <1>11, <1>12, <2>3 DEF Elsewhere, manager
  <1>13. CASE Delete \/ CacheCatchesUp \/ UNCHANGED vars
    BY <1>11, <1>13 DEF Delete, CacheCatchesUp, vars, server, manager
  <1>. QED
    BY <1>1, <1>2, <1>3, <1>4, <1>5, <1>6, <1>8, <1>9, <1>10, <1>12, <1>13 DEF Next, Step

\* For any number of clients and writes: the config map, what the manager keeps and
\* the locals of every request keep their shape; in particular no request takes
\* over or unpacks data that it has not read (load, restoreFromRaw).
THEOREM SettingsTypeOK == Spec => []TypeOK
  <1>1. TInv => TypeOK
    BY DEF TInv
  <1>. QED
    BY <1>1, InitShape, NextShape, PTL DEF Spec

-----------------------------------------------------------------------------
(* The projects of the registries.                                         *)

Entry == Registry \X Project
Array == Seq(Entry \cup {Nowhere})
SliceOf(n) == [array : 1 .. n, len : Nat]
Worker(n) ==
  [pc : PC, paths : SUBSET Path, todo : SUBSET Path, project : Project \cup {Nowhere},
   slice : SliceOf(n), words : SUBSET {"array", "len"}, total : Nat]

ProjectsShape ==
  /\ bound \in [Binding -> Bound]
  /\ had \in [Registry -> SUBSET Project] /\ vMap \in [Registry -> SUBSET Project]
  /\ arrays \in Seq(Array)
  /\ slice \in SliceOf(Len(arrays)) /\ total \in Nat
  /\ worker \in [Binding -> Worker(Len(arrays))]

\* vMap has what has repositories, and every array what is in it once at most.
Grown == \A g \in Registry : had[g] \subseteq vMap[g]

Once(a) ==
  \A i \in 1 .. Len(a) : a[i] # Nowhere =>
    /\ a[i][2] \in vMap[a[i][1]] \ had[a[i][1]]
    /\ \A j \in 1 .. Len(a) : a[j] = a[i] => j = i

ArraysOnce == \A n \in 1 .. Len(arrays) : Once(arrays[n])

\* A goroutine that is about to write an entry is the only one that has it.
carries(b) == worker[b].pc \in {"append", "write"}
mine(b) == <<bound[b].registry, worker[b].project>>

Unwritten(b) ==
  /\ worker[b].project \in vMap[bound[b].registry] \ had[bound[b].registry]
  /\ \A n \in 1 .. Len(arrays) : \A i \in 1 .. Len(arrays[n]) : arrays[n][i] # mine(b)
  /\ \A c \in Binding \ {b} : carries(c) => mine(c) # mine(b)

CarriedOnce == \A b \in Binding : carries(b) => Unwritten(b)

ProjectsInv == ProjectsShape /\ Grown /\ ArraysOnce /\ CarriedOnce

-----------------------------------------------------------------------------
LEMMA ProjectsInitEstablishes == ProjectsInit => ProjectsInv
  <1>. SUFFICES ASSUME ProjectsInit
                PROVE  ProjectsInv
    OBVIOUS
  <1>1. PICK spare \in Spare : arrays = << [i \in 1 .. spare |-> Nowhere] >>
    BY DEF ProjectsInit
  <1>2. spare \in Nat
    BY ProjectsAssumption
  <1>3. [i \in 1 .. spare |-> Nowhere] \in Array
    BY <1>2 DEF Array
  <1>4. /\ arrays \in Seq(Array) /\ Len(arrays) = 1
        /\ \A i \in 1 .. Len(arrays[1]) : arrays[1][i] = Nowhere
    BY <1>1, <1>2, <1>3
  <1>5. Started \in Worker(1)
    BY DEF Started, Worker, SliceOf, PC
  <1>6. ProjectsShape
    <2>1. had \in [Registry -> SUBSET Project]
      BY ProjectsAssumption DEF ProjectsInit
    <2>. QED
      BY <1>4, <1>5, <2>1 DEF ProjectsInit, ProjectsShape, SliceOf
  <1>7. Grown
    BY DEF ProjectsInit, Grown
  <1>8. ArraysOnce
    BY <1>4 DEF ArraysOnce, Once
  <1>9. CarriedOnce
    BY DEF ProjectsInit, CarriedOnce, carries, Started
  <1>. QED
    BY <1>6, <1>7, <1>8, <1>9 DEF ProjectsInv

\* A step of one goroutine that leaves the arrays and the map alone, and takes up
\* no entry.
LEMMA QuietPreserves ==
  ASSUME ProjectsInv, NEW b \in Binding, NEW w \in Worker(Len(arrays)), becomes(b, w),
         UNCHANGED <<bound, had, vMap, arrays>>,
         slice' \in SliceOf(Len(arrays)), total' \in Nat,
         w.pc \in {"append", "write"} => carries(b) /\ w.project = worker[b].project
  PROVE  ProjectsInv'
  <1>1. /\ worker' \in [Binding -> Worker(Len(arrays))]
        /\ \A c \in Binding : worker'[c] = IF c = b THEN w ELSE worker[c]
    BY DEF becomes, ProjectsInv, ProjectsShape
  <1>2. ProjectsShape'
    BY <1>1 DEF ProjectsInv, ProjectsShape
  <1>3. Grown' /\ ArraysOnce'
    BY DEF ProjectsInv, Grown, ArraysOnce, Once
  <1>4. \A c \in Binding : carries(c)' => carries(c) /\ mine(c)' = mine(c)
                                          /\ worker'[c].project = worker[c].project
    BY <1>1 DEF carries, mine
  <1>5. CarriedOnce'
    <2>1. ASSUME NEW c \in Binding, carries(c)'
          PROVE  Unwritten(c)'
      <3>1. carries(c) /\ Unwritten(c) /\ mine(c)' = mine(c)
            /\ worker'[c].project = worker[c].project
        BY <1>4, <2>1 DEF ProjectsInv, CarriedOnce
      <3>2. \A d \in Binding \ {c} : carries(d)' => mine(d)' # mine(c)'
        BY <1>4, <3>1 DEF Unwritten
      <3>. QED
        BY <3>1, <3>2 DEF Unwritten
    <2>. QED
      BY <2>1 DEF CarriedOnce
  <1>. QED
    BY <1>2, <1>3, <1>5 DEF ProjectsInv

\* Taking up an entry that was in no map.
LEMMA SetNXPreserves ==
  ASSUME ProjectsInv, NEW b \in Binding, NEW path \in Path, SetNX(b, path)
  PROVE  ProjectsInv'
  <1>. DEFINE g == bound[b].registry
              p == path[1]
              w == [worker[b] EXCEPT !.todo = @ \ {path}, !.project = p,
                                     !.pc = IF p \in vMap[g] THEN "loop" ELSE "append"]
  <1>1. g \in Registry /\ p \in Project /\ worker[b] \in Worker(Len(arrays))
    BY DEF ProjectsInv, ProjectsShape, Bound, Path
  <1>2. w \in Worker(Len(arrays))
    BY <1>1 DEF Worker, PC
  <1>3. /\ becomes(b, w) /\ UNCHANGED <<bound, had, arrays, slice, total>>
        /\ vMap' = [vMap EXCEPT ![g] = @ \cup {p}]
    BY DEF SetNX, result
  <1>4. CASE p \in vMap[g]
    <2>1. vMap' = vMap
      BY <1>1, <1>3, <1>4 DEF ProjectsInv, ProjectsShape
    <2>2. w.pc = "loop"
      BY <1>1, <1>4 DEF Worker
    <2>. QED
      BY <1>2, <1>3, <2>1, <2>2, QuietPreserves DEF ProjectsInv, ProjectsShape
  <1>5. CASE p \notin vMap[g]
    <2>1. /\ worker' \in [Binding -> Worker(Len(arrays))]
          /\ \A c \in Binding : worker'[c] = IF c = b THEN w ELSE worker[c]
      BY <1>2, <1>3 DEF becomes, ProjectsInv, ProjectsShape
    <2>2. /\ vMap' \in [Registry -> SUBSET Project]
          /\ \A h \in Registry : vMap'[h] = IF h = g THEN vMap[h] \cup {p} ELSE vMap[h]
      BY <1>1, <1>3 DEF ProjectsInv, ProjectsShape
    <2>3. ProjectsShape'
      BY <1>3, <2>1, <2>2 DEF ProjectsInv, ProjectsShape
    <2>4. Grown'
      BY <1>3, <2>2 DEF ProjectsInv, Grown
    <2>5. \A n \in 1 .. Len(arrays) : \A i \in 1 .. Len(arrays[n]) :
            arrays[n][i] \in Entry \cup {Nowhere}
      BY DEF ProjectsInv, ProjectsShape, Array
    <2>6. ArraysOnce'
      <3>1. \A h \in Registry : vMap[h] \subseteq vMap'[h]
        BY <2>2
      <3>2. ASSUME NEW n \in 1 .. Len(arrays), NEW i \in 1 .. Len(arrays[n]),
                   arrays[n][i] # Nowhere
            PROVE  arrays[n][i][2] \in vMap'[arrays[n][i][1]] \ had'[arrays[n][i][1]]
        <4>1. arrays[n][i][1] \in Registry
          BY <2>5, <3>2 DEF Entry
        <4>2. arrays[n][i][2] \in vMap[arrays[n][i][1]] \ had[arrays[n][i][1]]
          BY <3>2 DEF ProjectsInv, ArraysOnce, Once
        <4>. QED
          BY <1>3, <3>1, <4>1, <4>2
      <3>. QED
        BY <1>3, <3>2 DEF ProjectsInv, ArraysOnce, Once
    <2>7. w.pc = "append" /\ w.project = p
      BY <1>1, <1>5 DEF Worker
    <2>8. mine(b)' = <<g, p>> /\ carries(b)'
      BY <1>3, <2>1, <2>7 DEF mine, carries
    <2>9. \A c \in Binding \ {b} : /\ carries(c)' = carries(c) /\ mine(c)' = mine(c)
                                   /\ worker'[c].project = worker[c].project
      BY <1>3, <2>1 DEF carries, mine
    <2>10. \A c \in Binding \ {b} : carries(c) => mine(c) # <<g, p>>
      BY <1>5 DEF ProjectsInv, CarriedOnce, Unwritten, mine
    <2>11. Unwritten(b)'
      <3>1. p \in vMap'[g] \ had'[g]
        BY <1>1, <1>3, <1>5, <2>2 DEF ProjectsInv, Grown
      <3>2. ASSUME NEW n \in 1 .. Len(arrays), NEW i \in 1 .. Len(arrays[n]),
                   arrays[n][i] = <<g, p>>
            PROVE  FALSE
        <4>1. <<g, p>> # Nowhere
          BY <1>1, ProjectsAssumption
        <4>2. arrays[n][i][2] \in vMap[arrays[n][i][1]]
          BY <3>2, <4>1 DEF ProjectsInv, ArraysOnce, Once
        <4>. QED
          BY <1>5, <3>2, <4>2
      <3>. QED
        BY <1>3, <2>1, <2>7, <2>8, <2>9, <2>10, <3>1, <3>2 DEF Unwritten
    <2>12. ASSUME NEW c \in Binding \ {b}, carries(c)
           PROVE  Unwritten(c)'
      <3>1. Unwritten(c) /\ bound[c].registry \in Registry
        BY <2>12 DEF ProjectsInv, CarriedOnce, ProjectsShape, Bound
      <3>2. worker'[c].project \in vMap'[bound'[c].registry] \ had'[bound'[c].registry]
        BY <1>3, <2>2, <2>9, <3>1 DEF Unwritten
      <3>3. \A d \in Binding \ {c} : carries(d)' => mine(d)' # mine(c)'
        BY <2>8, <2>9, <2>10, <2>12, <3>1 DEF Unwritten
      <3>. QED
        BY <1>3, <2>9, <3>1, <3>2, <3>3 DEF Unwritten
    <2>13. CarriedOnce'
      BY <2>9, <2>11, <2>12 DEF CarriedOnce
    <2>. QED
      BY <2>3, <2>4, <2>6, <2>13 DEF ProjectsInv
  <1>. QED
    BY <1>4, <1>5

\* What has to be shown of the arrays and of what the goroutine keeps.
LEMMA WrittenPreserves ==
  ASSUME ProjectsInv, NEW b \in Binding, carries(b),
         UNCHANGED <<bound, had, vMap, slice, total>>,
         arrays' \in Seq(Array), Len(arrays') >= Len(arrays),
         NEW w \in Worker(Len(arrays')), becomes(b, w), w.pc = "store",
         \A n \in 1 .. Len(arrays') : Once(arrays'[n]),
         \A n \in 1 .. Len(arrays') : \A i \in 1 .. Len(arrays'[n]) :
           \/ arrays'[n][i] = Nowhere
           \/ arrays'[n][i] = mine(b)
           \/ \E m \in 1 .. Len(arrays) : \E j \in 1 .. Len(arrays[m]) :
                arrays'[n][i] = arrays[m][j]
  PROVE  ProjectsInv'
  <1>1. /\ Len(arrays') \in Nat
        /\ \A v \in Worker(Len(arrays)) : v \in Worker(Len(arrays'))
        /\ slice \in SliceOf(Len(arrays'))
    BY DEF ProjectsInv, ProjectsShape, Worker, SliceOf
  <1>2. \A c \in Binding : worker'[c] = IF c = b THEN w ELSE worker[c]
    BY DEF becomes, ProjectsInv, ProjectsShape
  <1>3. worker' \in [Binding -> Worker(Len(arrays'))]
    BY <1>1 DEF becomes, ProjectsInv, ProjectsShape
  <1>4. ProjectsShape'
    BY <1>1, <1>3 DEF ProjectsInv, ProjectsShape, SliceOf, Worker
  <1>5. Grown'
    BY DEF ProjectsInv, Grown
  <1>6. ArraysOnce'
    <2>1. \A n \in 1 .. Len(arrays') : Once(arrays[n])'
      BY DEF Once
    <2>. QED
      BY <2>1 DEF ArraysOnce
  <1>7. \A c \in Binding : carries(c)' => c # b /\ carries(c) /\ mine(c)' = mine(c)
                                          /\ worker'[c].project = worker[c].project
    BY <1>2 DEF carries, mine
  <1>8. ASSUME NEW c \in Binding, carries(c)'
        PROVE  Unwritten(c)'
    <2>1. Unwritten(c) /\ mine(c)' = mine(c) /\ worker'[c].project = worker[c].project /\ c # b
      BY <1>7, <1>8 DEF ProjectsInv, CarriedOnce
    <2>2. mine(c) # mine(b)
      BY <2>1 DEF Unwritten, carries
    <2>3. mine(c) # Nowhere
      <3>1. worker[c].project \in Project /\ bound[c].registry \in Registry
        BY <2>1 DEF Unwritten, ProjectsInv, ProjectsShape, Bound
      <3>. QED
        BY <3>1, ProjectsAssumption DEF mine
    <2>4. \A n \in 1 .. Len(arrays') : \A i \in 1 .. Len(arrays'[n]) : arrays'[n][i] # mine(c)
      BY <2>1, <2>2, <2>3 DEF Unwritten
    <2>5. \A d \in Binding \ {c} : carries(d)' => mine(d)' # mine(c)'
      BY <1>7, <2>1 DEF Unwritten
    <2>. QED
      BY <2>1, <2>4, <2>5 DEF Unwritten
  <1>9. CarriedOnce'
    BY <1>8 DEF CarriedOnce
  <1>. QED
    BY <1>4, <1>5, <1>6, <1>9 DEF ProjectsInv

LEMMA Replaced ==
  ASSUME NEW S, NEW seq \in Seq(S), NEW n \in 1 .. Len(seq), NEW e \in S
  PROVE  /\ [seq EXCEPT ![n] = e] \in Seq(S)
         /\ Len([seq EXCEPT ![n] = e]) = Len(seq)
         /\ \A i \in 1 .. Len(seq) : [seq EXCEPT ![n] = e][i] = IF i = n THEN e ELSE seq[i]
  OBVIOUS

\* Writing an entry that no array has: in an array, whatever it overwrites there,
\* or behind what is copied of one.
LEMMA AppendPreserves ==
  ASSUME ProjectsInv, NEW b \in Binding, Write(b)
  PROVE  ProjectsInv'
  <1>. DEFINE old == worker[b].slice
              entry == mine(b)
              length == old.len + 1
  <1>1. /\ worker[b] \in Worker(Len(arrays)) /\ old.array \in 1 .. Len(arrays) /\ old.len \in Nat
        /\ Unwritten(b) /\ worker[b].pc = "write" /\ bound[b].registry \in Registry
    BY DEF ProjectsInv, ProjectsShape, CarriedOnce, carries, Write, working, Worker, SliceOf, Bound
  <1>2. entry \in Entry /\ entry # Nowhere
    <2>1. worker[b].project \in Project
      BY <1>1 DEF Unwritten, ProjectsInv, ProjectsShape
    <2>. QED
      BY <1>1, <2>1, ProjectsAssumption DEF mine, Entry
  <1>3. /\ entry[1] = bound[b].registry /\ entry[2] = worker[b].project
        /\ entry[2] \in vMap[entry[1]] \ had[entry[1]]
    BY <1>1 DEF mine, Unwritten
  <1>4. UNCHANGED <<bound, had, vMap, slice, total>>
    BY DEF Write
  <1>5. /\ arrays \in Seq(Array) /\ Len(arrays) \in Nat
        /\ \A n \in 1 .. Len(arrays) : arrays[n] \in Array /\ Len(arrays[n]) \in Nat /\ Once(arrays[n])
    BY DEF ProjectsInv, ProjectsShape, ArraysOnce, Array
  <1>6. \A n \in 1 .. Len(arrays) : \A i \in 1 .. Len(arrays[n]) : arrays[n][i] # entry
    BY <1>1 DEF Unwritten
  <1>8. CASE length <= Len(arrays[old.array]) /\ arrays' = [arrays EXCEPT ![old.array][length] = entry]
             /\ becomes(b, [worker[b] EXCEPT !.pc = "store", !.words = {"len"},
                              !.slice = [array |-> old.array, len |-> length]])
    <2>. DEFINE a == [arrays[old.array] EXCEPT ![length] = entry]
    <2>0. PICK w : /\ w = [worker[b] EXCEPT !.pc = "store", !.words = {"len"},
                             !.slice = [array |-> old.array, len |-> length]]
                   /\ becomes(b, w)
      BY <1>8
    <2>1. w \in Worker(Len(arrays)) /\ w.pc = "store"
      <3>1. [array |-> old.array, len |-> length] \in SliceOf(Len(arrays))
        BY <1>1 DEF SliceOf
      <3>. QED
        BY <1>1, <2>0, <3>1 DEF Worker, PC, Appending
    <2>2. /\ a \in Array /\ Len(a) = Len(arrays[old.array])
          /\ \A i \in 1 .. Len(a) : a[i] = IF i = length THEN entry ELSE arrays[old.array][i]
      <3>1. arrays[old.array] \in Seq(Entry \cup {Nowhere}) /\ entry \in Entry \cup {Nowhere}
        BY <1>1, <1>2, <1>5 DEF Array
      <3>2. length \in 1 .. Len(arrays[old.array])
        BY <1>1, <1>5, <1>8
      <3>. QED
        BY <3>1, <3>2, Replaced DEF Array
    <2>3. /\ arrays' \in Seq(Array) /\ Len(arrays') = Len(arrays)
          /\ \A n \in 1 .. Len(arrays) : arrays'[n] = IF n = old.array THEN a ELSE arrays[n]
      <3>1. arrays' = [arrays EXCEPT ![old.array] = a]
        BY <1>8
      <3>. QED
        BY <1>1, <1>5, <2>2, <3>1, Replaced
    <2>4. Once(a)
      <3>. DEFINE o == arrays[old.array]
      <3>1. /\ Once(o) /\ \A i \in 1 .. Len(o) : o[i] # entry
            /\ Len(a) = Len(o) /\ \A i \in 1 .. Len(o) : a[i] = IF i = length THEN entry ELSE o[i]
        BY <1>1, <1>5, <1>6, <2>2
      <3>2. ASSUME NEW i \in 1 .. Len(a), a[i] # Nowhere
            PROVE  /\ a[i][2] \in vMap[a[i][1]] \ had[a[i][1]]
                   /\ \A j \in 1 .. Len(a) : a[j] = a[i] => j = i
        <4>. HIDE DEF a, o, entry, length
        <4>1. CASE i = length
          BY <1>3, <3>1, <4>1
        <4>2. CASE i # length
          BY <3>1, <3>2, <4>2 DEF Once
        <4>. QED
          BY <4>1, <4>2
      <3>. QED
        BY <3>2 DEF Once
    <2>5. \A n \in 1 .. Len(arrays') : Once(arrays'[n])
      BY <1>5, <2>3, <2>4
    <2>6. \A n \in 1 .. Len(arrays') : \A i \in 1 .. Len(arrays'[n]) :
            arrays'[n][i] = Nowhere \/ arrays'[n][i] = entry
              \/ \E m \in 1 .. Len(arrays) : \E j \in 1 .. Len(arrays[m]) :
                   arrays'[n][i] = arrays[m][j]
      BY <1>1, <2>2, <2>3
    <2>. QED
      <3>1. carries(b) /\ Len(arrays') >= Len(arrays) /\ w \in Worker(Len(arrays'))
        BY <1>1, <1>5, <2>1, <2>3 DEF carries
      <3>. HIDE DEF old, length, a
      <3>. QED
        BY <1>4, <2>0, <2>1, <2>3, <2>5, <2>6, <3>1, WrittenPreserves
  <1>9. ASSUME NEW spare \in Spare,
               arrays' = Append(arrays,
                 [i \in 1 .. length + spare |->
                    IF i < length THEN element(old.array, i)
                    ELSE IF i = length THEN entry ELSE Nowhere]),
               becomes(b, [worker[b] EXCEPT !.pc = "store", !.words = {"array", "len"},
                             !.slice = [array |-> Len(arrays) + 1, len |-> length]])
        PROVE  ProjectsInv'
    <2>. DEFINE a == [i \in 1 .. length + spare |->
                        IF i < length THEN element(old.array, i)
                        ELSE IF i = length THEN entry ELSE Nowhere]
    <2>0. PICK w : /\ w = [worker[b] EXCEPT !.pc = "store", !.words = {"array", "len"},
                             !.slice = [array |-> Len(arrays) + 1, len |-> length]]
                   /\ becomes(b, w)
      BY <1>9
    <2>1. spare \in Nat
      BY ProjectsAssumption
    <2>2. \A i \in Nat \ {0} :
            \/ element(old.array, i) = Nowhere
            \/ /\ i \in 1 .. Len(arrays[old.array])
               /\ element(old.array, i) = arrays[old.array][i]
      BY <1>1, <1>5 DEF element
    <2>3. \A i \in 1 .. Len(arrays[old.array]) : arrays[old.array][i] \in Entry \cup {Nowhere}
      BY <1>1, <1>5 DEF Array
    <2>4. /\ a \in Array /\ Len(a) = length + spare
          /\ \A i \in 1 .. Len(a) : a[i] = IF i < length THEN element(old.array, i)
                                          ELSE IF i = length THEN entry ELSE Nowhere
      <3>1. ASSUME NEW i \in 1 .. length + spare
            PROVE  a[i] \in Entry \cup {Nowhere}
        <4>1. element(old.array, i) \in Entry \cup {Nowhere}
          BY <1>1, <2>1, <2>2, <2>3
        <4>2. a[i] = IF i < length THEN element(old.array, i)
                     ELSE IF i = length THEN entry ELSE Nowhere
          BY <3>1
        <4>. HIDE DEF a
        <4>. QED
          BY <1>2, <4>1, <4>2
      <3>2. a \in [1 .. length + spare -> Entry \cup {Nowhere}] /\ length + spare \in Nat
        <4>1. length + spare \in Nat
          BY <1>1, <2>1
        <4>2. a \in [1 .. length + spare -> Entry \cup {Nowhere}]
          BY <3>1
        <4>. QED
          BY <4>1, <4>2
      <3>. QED
        BY <3>2 DEF Array
    <2>5. \A i \in 1 .. Len(a) :
            \/ a[i] = Nowhere
            \/ i = length /\ a[i] = entry
            \/ i \in 1 .. Len(arrays[old.array]) /\ a[i] = arrays[old.array][i]
      BY <1>1, <2>1, <2>2, <2>4
    <2>6. Once(a)
      <3>1. ASSUME NEW i \in 1 .. Len(a), a[i] # Nowhere
            PROVE  /\ a[i][2] \in vMap[a[i][1]] \ had[a[i][1]]
                   /\ \A j \in 1 .. Len(a) : a[j] = a[i] => j = i
        <4>1. CASE i = length /\ a[i] = entry
          <5>1. \A j \in 1 .. Len(a) : a[j] = entry => j = length
            BY <1>1, <1>2, <1>6, <2>5
          <5>. HIDE DEF a, entry, length
          <5>. QED
            BY <1>3, <4>1, <5>1
        <4>2. CASE i \in 1 .. Len(arrays[old.array]) /\ a[i] = arrays[old.array][i]
          <5>1. /\ Once(arrays[old.array]) /\ arrays[old.array][i] # Nowhere
                /\ a[i] # entry
            BY <1>1, <1>5, <1>6, <3>1, <4>2
          <5>2. \A j \in 1 .. Len(a) : a[j] = a[i] =>
                  j \in 1 .. Len(arrays[old.array]) /\ a[j] = arrays[old.array][j]
            BY <2>5, <3>1, <5>1
          <5>. HIDE DEF a, entry, length, old
          <5>. QED
            BY <4>2, <5>1, <5>2 DEF Once
        <4>. QED
          BY <2>5, <3>1, <4>1, <4>2
      <3>. QED
        BY <3>1 DEF Once
    <2>7. /\ arrays' \in Seq(Array) /\ Len(arrays') = Len(arrays) + 1
          /\ arrays'[Len(arrays) + 1] = a
          /\ \A n \in 1 .. Len(arrays) : arrays'[n] = arrays[n]
      BY <1>5, <1>9, <2>4
    <2>8. \A n \in 1 .. Len(arrays') : n \in 1 .. Len(arrays) \/ n = Len(arrays) + 1
      BY <1>5, <2>7
    <2>9. \A n \in 1 .. Len(arrays') : Once(arrays'[n])
      BY <1>5, <2>6, <2>7, <2>8
    <2>10. \A n \in 1 .. Len(arrays') : \A i \in 1 .. Len(arrays'[n]) :
             arrays'[n][i] = Nowhere \/ arrays'[n][i] = entry
               \/ \E m \in 1 .. Len(arrays) : \E j \in 1 .. Len(arrays[m]) :
                    arrays'[n][i] = arrays[m][j]
      BY <1>1, <2>5, <2>7, <2>8, ZenonT(30)
    <2>11. w \in Worker(Len(arrays')) /\ w.pc = "store"
      <3>1. [array |-> Len(arrays) + 1, len |-> length] \in SliceOf(Len(arrays'))
        BY <1>1, <1>5, <2>7 DEF SliceOf
      <3>. QED
        BY <1>1, <2>0, <3>1 DEF Worker, PC, Appending
    <2>. QED
      <3>1. carries(b) /\ Len(arrays') >= Len(arrays)
        BY <1>1, <1>5, <2>7 DEF carries
      <3>. HIDE DEF old, length, a
      <3>. QED
        BY <1>4, <2>0, <2>7, <2>9, <2>10, <2>11, <3>1, WrittenPreserves
  <1>. QED
    BY <1>8, <1>9 DEF Write, mine

-----------------------------------------------------------------------------
LEMMA ProjectsNextPreserves ==
  ASSUME ProjectsInv, [ProjectsNext]_projectsVars
  PROVE  ProjectsInv'
  <1>. USE DEF ProjectsInv
  <1>1. ASSUME NEW b \in Binding, Work(b)
        PROVE  ProjectsInv'
    <2>1. worker[b] \in Worker(Len(arrays))
      BY DEF ProjectsShape
    <2>2. ASSUME NEW pc \in PC \ {"append", "write"}, NEW paths \in SUBSET Path
          PROVE  given(b, pc, paths) \in Worker(Len(arrays)) /\ given(b, pc, paths).pc = pc
      BY <2>1, <2>2 DEF given, Worker
    <2>3. ASSUME NEW pc \in PC \ {"append", "write"}, NEW paths \in SUBSET Path,
                 becomes(b, given(b, pc, paths)),
                 UNCHANGED <<bound, had, vMap, arrays, slice, total>>
          PROVE  ProjectsInv'
      BY <2>2, <2>3, QuietPreserves DEF ProjectsShape
    <2>4. /\ {"start", "map", "list", "registry", "loop", "done", "store", "count"}
                \subseteq PC \ {"append", "write"}
          /\ {} \in SUBSET Path /\ Listing \in SUBSET Path
          /\ ~ bound[b].all => bound[b].paths \in SUBSET Path
      BY ProjectsAssumption, ZenonT(30) DEF PC, Appending, ProjectsShape, Bound
    <2>5. CASE Claim(b)
      <3>1. UNCHANGED <<bound, had, vMap, arrays, slice, total>>
        BY <2>5 DEF Claim, result
      <3>2. \/ becomes(b, given(b, "map", {}))
            \/ becomes(b, given(b, "done", {}))
            \/ ~ bound[b].all /\ becomes(b, given(b, "registry", bound[b].paths))
        BY <2>5 DEF Claim
      <3>. QED
        BY <2>3, <2>4, <3>1, <3>2
    <2>6. CASE GetMainMap(b) \/ GetProjectList(b) \/ RequestFails(b)
      <3>1. UNCHANGED <<bound, had, vMap, arrays, slice, total>>
        BY <2>6 DEF GetMainMap, GetProjectList, RequestFails, result
      <3>2. \/ becomes(b, given(b, "registry", Listing))
            \/ becomes(b, given(b, "list", {}))
            \/ becomes(b, given(b, "done", {}))
        BY <2>6 DEF GetMainMap, GetProjectList, RequestFails
      <3>. QED
        BY <2>3, <2>4, <3>1, <3>2
    <2>7. CASE GetImageRegistry(b) \/ Return(b)
      <3>1. PICK pc \in {"loop", "done"} : goes(b, pc)
        BY <2>7 DEF GetImageRegistry, Return
      <3>2. [worker[b] EXCEPT !.pc = pc] \in Worker(Len(arrays))
            /\ [worker[b] EXCEPT !.pc = pc].pc = pc
        BY <2>1, <2>4 DEF Worker
      <3>3. UNCHANGED <<bound, had, vMap, arrays, slice, total>>
        BY <2>7 DEF GetImageRegistry, Return, result
      <3>. QED
        BY <3>1, <3>2, <3>3, QuietPreserves DEF goes, ProjectsShape
    <2>8. CASE ReadSlice(b)
      <3>. DEFINE w == [worker[b] EXCEPT !.pc = "write", !.slice = slice]
      <3>1. w \in Worker(Len(arrays)) /\ w.project = worker[b].project
        BY <2>1 DEF Worker, PC, Appending, ProjectsShape
      <3>2. becomes(b, w) /\ carries(b) /\ UNCHANGED <<bound, had, vMap, arrays, slice, total>>
        BY <2>8 DEF ReadSlice, working, carries, result
      <3>. QED
        BY <3>1, <3>2, QuietPreserves DEF ProjectsShape
    <2>9. ASSUME NEW word \in {"array", "len"}, Store(b, word)
          PROVE  ProjectsInv'
      <3>. DEFINE rest == worker[b].words \ {word}
                  w == [worker[b] EXCEPT !.words = rest,
                                         !.pc = IF rest = {} THEN "count" ELSE @]
      <3>1. w \in Worker(Len(arrays)) /\ w.pc \in {"store", "count"}
        BY <2>1, <2>4, <2>9 DEF Worker, Store, working
      <3>2. becomes(b, w) /\ UNCHANGED <<bound, had, vMap, arrays, total>>
        BY <2>9 DEF Store
      <3>3. slice' \in SliceOf(Len(arrays))
        BY <2>1, <2>9 DEF Store, Worker, SliceOf, ProjectsShape
      <3>. QED
        BY <3>1, <3>2, <3>3, QuietPreserves DEF ProjectsShape
    <2>10. CASE ReadTotal(b)
      <3>. DEFINE w == [worker[b] EXCEPT !.pc = "increment", !.total = total]
      <3>1. w \in Worker(Len(arrays)) /\ w.pc = "increment"
        BY <2>1 DEF Worker, PC, Appending, ProjectsShape
      <3>2. becomes(b, w) /\ UNCHANGED <<bound, had, vMap, arrays, slice, total>>
        BY <2>10 DEF ReadTotal, result
      <3>. QED
        BY <3>1, <3>2, QuietPreserves DEF ProjectsShape
    <2>11. CASE Increment(b)
      <3>. DEFINE w == [worker[b] EXCEPT !.pc = "loop"]
      <3>1. w \in Worker(Len(arrays)) /\ w.pc = "loop" /\ total' \in Nat
        BY <2>1, <2>4, <2>11 DEF Worker, Increment
      <3>2. becomes(b, w) /\ UNCHANGED <<bound, had, vMap, arrays, slice>>
        BY <2>11 DEF Increment, goes
      <3>. QED
        BY <3>1, <3>2, QuietPreserves DEF ProjectsShape
    <2>. QED
      BY <1>1, <2>5, <2>6, <2>7, <2>8, <2>9, <2>10, <2>11, SetNXPreserves, AppendPreserves
         DEF Work
  <1>2. CASE MapRace \/ Answer \/ UNCHANGED projectsVars
    <2>1. UNCHANGED <<bound, had, vMap, arrays, slice, total, worker>>
      BY <1>2 DEF MapRace, Answer, projectsVars, result
    <2>2. ProjectsShape' /\ Grown' /\ ArraysOnce'
      BY <2>1 DEF ProjectsShape, Grown, ArraysOnce, Once
    <2>3. CarriedOnce'
      BY <2>1 DEF CarriedOnce, carries, Unwritten, mine
    <2>. QED
      BY <2>2, <2>3
  <1>. QED
    BY <1>1, <1>2 DEF ProjectsNext

LEMMA InvariantImplies ==
  ASSUME ProjectsInv
  PROVE  ProjectsOnce
  <1>. SUFFICES ASSUME NEW i \in 1 .. slice.len, listed(i) # Nowhere
                PROVE  /\ \A j \in 1 .. slice.len : listed(j) = listed(i) => j = i
                       /\ \E g \in Registry : \E p \in Project \ had[g] : listed(i) = <<g, p>>
    BY DEF ProjectsOnce
  <1>. DEFINE a == arrays[slice.array]
  <1>1. slice.array \in 1 .. Len(arrays) /\ slice.len \in Nat /\ a \in Array /\ Once(a)
    BY DEF ProjectsInv, ProjectsShape, SliceOf, ArraysOnce
  <1>2. Len(a) \in Nat
    BY <1>1 DEF Array
  <1>3. \A j \in 1 .. slice.len : listed(j) # Nowhere => j \in 1 .. Len(a) /\ listed(j) = a[j]
    BY <1>1, <1>2 DEF listed, element
  <1>4. i \in 1 .. Len(a) /\ listed(i) = a[i] /\ a[i] # Nowhere
    BY <1>3
  <1>5. \A j \in 1 .. slice.len : listed(j) = listed(i) => j = i
    BY <1>1, <1>3, <1>4 DEF Once
  <1>6. a[i] \in Entry /\ a[i][2] \notin had[a[i][1]]
    BY <1>1, <1>4 DEF Array, Once
  <1>7. PICK g \in Registry, p \in Project : a[i] = <<g, p>>
    BY <1>6 DEF Entry
  <1>8. p \notin had[g]
    BY <1>6, <1>7
  <1>. QED
    BY <1>4, <1>5, <1>7, <1>8

\* For any bindings of any registries, and however their goroutines overwrite each
\* other's slices: no project is in the answer twice, nor beside a repository of it
\* (handleGetImageRepositoryProjectList).
THEOREM ProjectsOnceAlways == ProjectsSpec => []ProjectsOnce
  <1>. QED
    BY ProjectsInitEstablishes, ProjectsNextPreserves, InvariantImplies, PTL DEF ProjectsSpec

-----------------------------------------------------------------------------
(* What is complete when nobody appended at the same time.                 *)

\* The paths that a goroutine has come to are those whose projects are in the map.
Reached(b) == worker[b].paths \ worker[b].todo

Reaching ==
  /\ \A b \in Binding :
       /\ worker[b].todo \subseteq worker[b].paths
       /\ worker[b].pc \in {"start", "map", "list", "registry"} => Reached(b) = {}
       /\ worker[b].pc = "done" => worker[b].todo = {}
  /\ \A g \in Registry : \A p \in Project \ had[g] :
       p \in vMap[g] <=>
         \E b \in Binding : bound[b].registry = g /\ \E path \in Reached(b) : path[1] = p
  /\ answer = "written" => \A b \in Binding : working(b, "done")

\* What is in the map and with no goroutine that has yet to write it.
Written ==
  {e \in Entry : /\ e[2] \in vMap[e[1]] \ had[e[1]]
                 /\ \A b \in Binding : carries(b) => mine(b) # e}

Has(s) ==
  /\ s.len <= Len(arrays[s.array])
  /\ {arrays[s.array][i] : i \in 1 .. s.len} = Written

Settled == Has(slice) /\ total = slice.len

\* How far the one goroutine is that appends.
TurnOf(b) ==
  /\ worker[b].pc = "write" => worker[b].slice = slice /\ Settled
  /\ worker[b].pc = "store" =>
       /\ Has(worker[b].slice) /\ total = worker[b].slice.len - 1
       /\ \A word \in {"array", "len"} \ worker[b].words : slice[word] = worker[b].slice[word]
  /\ worker[b].pc \in {"count", "increment"} => Has(slice) /\ total = slice.len - 1
  /\ worker[b].pc = "increment" => worker[b].total = total

appends(b) == worker[b].pc \in Appending

InTurn ==
  alone =>
    /\ \A b, c \in Binding : appends(b) /\ appends(c) => b = c
    /\ \A b \in Binding : appends(b) => TurnOf(b)
    /\ (\A b \in Binding : ~ appends(b)) => Settled

LEMMA TurnInit == ProjectsInit => Reaching /\ InTurn
  <1>. SUFFICES ASSUME ProjectsInit
                PROVE  Reaching /\ InTurn
    OBVIOUS
  <1>1. \A b \in Binding : /\ worker[b].pc = "start" /\ worker[b].paths = {} /\ worker[b].todo = {}
                           /\ Reached(b) = {}
    BY DEF ProjectsInit, Started, Reached
  <1>2. Reaching
    <2>1. answer # "written" /\ vMap = had
      BY DEF ProjectsInit
    <2>. QED
      BY <1>1, <2>1 DEF Reaching
  <1>3. Settled
    <2>1. PICK spare \in Spare : arrays = << [i \in 1 .. spare |-> Nowhere] >>
      BY DEF ProjectsInit
    <2>2. spare \in Nat /\ slice.array = 1 /\ slice.len = 0 /\ total = 0 /\ vMap = had
      BY ProjectsAssumption DEF ProjectsInit
    <2>3. 0 <= Len(arrays[1])
      BY <2>1, <2>2
    <2>4. Written = {}
      BY <2>2 DEF Written
    <2>. QED
      BY <2>2, <2>3, <2>4 DEF Settled, Has
  <1>4. \A b \in Binding : ~ appends(b)
    BY <1>1 DEF appends, Appending
  <1>. QED
    BY <1>2, <1>3, <1>4 DEF InTurn

\* A step of one goroutine that comes to no other path.
LEMMA ReachingKept ==
  ASSUME ProjectsInv, Reaching, NEW b \in Binding, NEW w, becomes(b, w),
         UNCHANGED <<bound, had, vMap, answer>>, answer # "written",
         w.todo \subseteq w.paths, w.paths \ w.todo = Reached(b),
         w.pc \in {"start", "map", "list", "registry"} => Reached(b) = {},
         w.pc = "done" => w.todo = {}
  PROVE  Reaching'
  <1>1. \A c \in Binding : worker'[c] = IF c = b THEN w ELSE worker[c]
    BY DEF becomes, ProjectsInv, ProjectsShape
  <1>2. \A c \in Binding : Reached(c)' = Reached(c)
    BY <1>1 DEF Reached
  <1>3. ASSUME NEW c \in Binding
        PROVE  /\ worker'[c].todo \subseteq worker'[c].paths
               /\ worker'[c].pc \in {"start", "map", "list", "registry"} => Reached(c)' = {}
               /\ worker'[c].pc = "done" => worker'[c].todo = {}
    BY <1>1, <1>2 DEF Reaching
  <1>4. ASSUME NEW g \in Registry, NEW p \in Project \ had[g]
        PROVE  p \in vMap[g] <=>
                 \E c \in Binding : bound[c].registry = g /\ \E path \in Reached(c)' : path[1] = p
    BY <1>2 DEF Reaching
  <1>. QED
    BY <1>3, <1>4 DEF Reaching

\* A path whose project the map has from now on.
LEMMA SetNXReaches ==
  ASSUME ProjectsInv, Reaching, NEW b \in Binding, NEW path \in Path, SetNX(b, path),
         answer # "written"
  PROVE  Reaching'
  <1>. DEFINE g == bound[b].registry
              p == path[1]
              pc == IF p \in vMap[g] THEN "loop" ELSE "append"
              w == [worker[b] EXCEPT !.todo = @ \ {path}, !.project = p, !.pc = pc]
  <1>1. g \in Registry /\ p \in Project /\ worker[b] \in Worker(Len(arrays))
    BY DEF ProjectsInv, ProjectsShape, Bound, Path
  <1>2. /\ becomes(b, w) /\ UNCHANGED <<bound, had, answer>>
        /\ vMap' = [vMap EXCEPT ![g] = @ \cup {p}]
        /\ path \in worker[b].todo
    BY DEF SetNX
  <1>3. /\ w.todo = worker[b].todo \ {path} /\ w.paths = worker[b].paths
        /\ w.pc \in {"loop", "append"}
    BY <1>1 DEF Worker
  <1>4. \A c \in Binding : worker'[c] = IF c = b THEN w ELSE worker[c]
    BY <1>2 DEF becomes, ProjectsInv, ProjectsShape
  <1>5. \A h \in Registry : vMap'[h] = IF h = g THEN vMap[h] \cup {p} ELSE vMap[h]
    BY <1>1, <1>2 DEF ProjectsInv, ProjectsShape
  <1>. HIDE DEF w
  <1>6. Reached(b)' = Reached(b) \cup {path}
    BY <1>2, <1>3, <1>4 DEF Reached, Reaching
  <1>7. \A c \in Binding \ {b} : Reached(c)' = Reached(c)
    BY <1>4 DEF Reached
  <1>8. ASSUME NEW c \in Binding
        PROVE  /\ worker'[c].todo \subseteq worker'[c].paths
               /\ worker'[c].pc \in {"start", "map", "list", "registry"} => Reached(c)' = {}
               /\ worker'[c].pc = "done" => worker'[c].todo = {}
    <2>1. CASE c = b
      BY <1>3, <1>4, <2>1 DEF Reaching
    <2>2. CASE c # b
      BY <1>4, <1>7, <2>2 DEF Reaching
    <2>. QED
      BY <2>1, <2>2
  <1>9. ASSUME NEW h \in Registry, NEW q \in Project \ had[h]
        PROVE  q \in vMap'[h] <=>
                 \E c \in Binding : bound[c].registry = h /\ \E other \in Reached(c)' : other[1] = q
    <2>1. q \in vMap[h] <=>
            \E c \in Binding : bound[c].registry = h /\ \E other \in Reached(c) : other[1] = q
      BY DEF Reaching
    <2>2. q \in vMap'[h] <=> q \in vMap[h] \/ (h = g /\ q = p)
      BY <1>5
    <2>3. (\E c \in Binding : bound[c].registry = h /\ \E other \in Reached(c)' : other[1] = q)
            <=> \/ \E c \in Binding : bound[c].registry = h /\ \E other \in Reached(c) : other[1] = q
                \/ h = g /\ q = p
      BY <1>6, <1>7
    <2>. QED
      BY <2>1, <2>2, <2>3
  <1>. QED
    BY <1>2, <1>8, <1>9 DEF Reaching

LEMMA NextReaches ==
  ASSUME ProjectsInv, Reaching, [ProjectsNext]_projectsVars
  PROVE  Reaching'
  <1>1. CASE UNCHANGED projectsVars
    BY <1>1 DEF projectsVars, result, Reaching, Reached, working
  <1>2. CASE MapRace
    <2>1. answer' # "written" /\ UNCHANGED <<bound, had, vMap, worker>>
      BY <1>2 DEF MapRace
    <2>. QED
      BY <2>1 DEF Reaching, Reached
  <1>3. CASE Answer
    <2>1. UNCHANGED <<bound, had, vMap, worker>> /\ \A b \in Binding : working(b, "done")'
      BY <1>3 DEF Answer, working
    <2>. QED
      BY <2>1 DEF Reaching, Reached
  <1>4. ASSUME NEW b \in Binding, Work(b), answer = "waiting"
        PROVE  Reaching'
    <2>1. worker[b] \in Worker(Len(arrays)) /\ answer # "written"
      BY <1>4 DEF ProjectsInv, ProjectsShape
    <2>2. /\ worker[b].todo \subseteq worker[b].paths
          /\ worker[b].pc \in {"start", "map", "list", "registry"} => Reached(b) = {}
      BY DEF Reaching
    <2>3. ASSUME NEW pc \in {"map", "done", "registry", "list"}, NEW paths,
                 pc = "done" => paths = {},
                 becomes(b, given(b, pc, paths)), UNCHANGED <<bound, had, vMap, answer>>,
                 worker[b].pc \in {"start", "map", "list", "registry"}
          PROVE  Reaching'
      <3>. DEFINE w == given(b, pc, paths)
      <3>1. w.pc = pc /\ w.todo = paths /\ w.paths = paths
        BY <2>1 DEF given, Worker
      <3>. HIDE DEF w
      <3>2. becomes(b, w)
        BY <2>3 DEF w
      <3>. QED
        BY <2>1, <2>2, <2>3, <3>1, <3>2, ReachingKept
    <2>4. ASSUME NEW w, w.paths = worker[b].paths, w.todo = worker[b].todo, becomes(b, w),
                 UNCHANGED <<bound, had, vMap, answer>>,
                 w.pc \notin {"start", "map", "list", "registry"},
                 w.pc = "done" => worker[b].todo = {}
          PROVE  Reaching'
      BY <2>1, <2>2, <2>4, ReachingKept DEF Reached
    <2>5. CASE Claim(b) \/ GetMainMap(b) \/ GetProjectList(b) \/ RequestFails(b)
      <3>1. /\ UNCHANGED <<bound, had, vMap, answer>>
            /\ worker[b].pc \in {"start", "map", "list", "registry"}
        BY <2>5 DEF Claim, GetMainMap, GetProjectList, RequestFails, working
      <3>2. \E pc \in {"map", "done", "registry", "list"}, paths \in SUBSET Path :
              (pc = "done" => paths = {}) /\ becomes(b, given(b, pc, paths))
        <4>1. {} \in SUBSET Path /\ Listing \in SUBSET Path
              /\ (~ bound[b].all => bound[b].paths \in SUBSET Path)
          <5>1. bound[b] \in Bound
            BY DEF ProjectsInv, ProjectsShape
          <5>2. Offer \subseteq SUBSET Path /\ Listing \subseteq Path
            BY ProjectsAssumption
          <5>3. ~ bound[b].all => bound[b].paths \in Offer
            BY <5>1 DEF Bound
          <5>. QED
            BY <5>2, <5>3
        <4>2. CASE Claim(b)
          <5>1. \/ becomes(b, given(b, "map", {}))
                \/ becomes(b, given(b, "done", {}))
                \/ ~ bound[b].all /\ becomes(b, given(b, "registry", bound[b].paths))
            BY <4>2 DEF Claim
          <5>. QED
            BY <4>1, <5>1
        <4>3. CASE GetMainMap(b) \/ GetProjectList(b) \/ RequestFails(b)
          <5>1. \/ becomes(b, given(b, "registry", Listing))
                \/ becomes(b, given(b, "list", {}))
                \/ becomes(b, given(b, "done", {}))
            BY <4>3 DEF GetMainMap, GetProjectList, RequestFails
          <5>. QED
            BY <4>1, <5>1
        <4>. QED
          BY <2>5, <4>2, <4>3
      <3>. QED
        BY <2>3, <3>1, <3>2
    <2>6. CASE GetImageRegistry(b)
      <3>1. /\ worker[b].pc = "registry" /\ becomes(b, [worker[b] EXCEPT !.pc = "loop"])
            /\ UNCHANGED <<bound, had, vMap, answer>>
        BY <2>6 DEF GetImageRegistry, goes, working
      <3>2. PICK w : w = [worker[b] EXCEPT !.pc = "loop"]
        OBVIOUS
      <3>3. w.pc = "loop" /\ w.todo = worker[b].todo /\ w.paths = worker[b].paths
        BY <2>1, <3>2 DEF Worker
      <3>. QED
        BY <2>4, <3>1, <3>2, <3>3
    <2>7. ASSUME NEW path \in Path, SetNX(b, path)
          PROVE  Reaching'
      BY <2>1, <2>7, SetNXReaches
    <2>8. CASE ReadSlice(b) \/ Write(b) \/ (\E word \in {"array", "len"} : Store(b, word))
               \/ ReadTotal(b) \/ Increment(b)
      <3>1. UNCHANGED <<bound, had, vMap, answer>>
        BY <2>8 DEF ReadSlice, Write, Store, ReadTotal, Increment, result
      <3>2. \E w : /\ becomes(b, w) /\ w.paths = worker[b].paths /\ w.todo = worker[b].todo
                   /\ w.pc \in {"write", "store", "count", "increment", "loop"}
        <4>1. CASE ReadSlice(b)
          <5>1. PICK w : w = [worker[b] EXCEPT !.pc = "write", !.slice = slice] /\ becomes(b, w)
            BY <4>1 DEF ReadSlice
          <5>2. /\ w.paths = worker[b].paths /\ w.todo = worker[b].todo
                /\ w.pc \in {"write", "store", "count", "increment", "loop"}
            BY <2>1, <5>1 DEF Worker
          <5>. QED
            BY <5>1, <5>2
        <4>2. CASE Write(b)
          <5>1. PICK w, words, s :
                  w = [worker[b] EXCEPT !.pc = "store", !.words = words, !.slice = s] /\ becomes(b, w)
            BY <4>2 DEF Write
          <5>2. /\ w.paths = worker[b].paths /\ w.todo = worker[b].todo
                /\ w.pc \in {"write", "store", "count", "increment", "loop"}
            BY <2>1, <5>1 DEF Worker
          <5>. QED
            BY <5>1, <5>2
        <4>3. CASE \E word \in {"array", "len"} : Store(b, word)
          <5>1. PICK w, rest :
                  /\ w = [worker[b] EXCEPT !.words = rest, !.pc = IF rest = {} THEN "count" ELSE @]
                  /\ becomes(b, w) /\ worker[b].pc = "store"
            BY <4>3 DEF Store, working
          <5>2. /\ w.paths = worker[b].paths /\ w.todo = worker[b].todo
                /\ w.pc \in {"write", "store", "count", "increment", "loop"}
            BY <2>1, <5>1 DEF Worker
          <5>. QED
            BY <5>1, <5>2
        <4>4. CASE ReadTotal(b)
          <5>1. PICK w : w = [worker[b] EXCEPT !.pc = "increment", !.total = total] /\ becomes(b, w)
            BY <4>4 DEF ReadTotal
          <5>2. /\ w.paths = worker[b].paths /\ w.todo = worker[b].todo
                /\ w.pc \in {"write", "store", "count", "increment", "loop"}
            BY <2>1, <5>1 DEF Worker
          <5>. QED
            BY <5>1, <5>2
        <4>5. CASE Increment(b)
          <5>1. PICK w : w = [worker[b] EXCEPT !.pc = "loop"] /\ becomes(b, w)
            BY <4>5 DEF Increment, goes
          <5>2. /\ w.paths = worker[b].paths /\ w.todo = worker[b].todo
                /\ w.pc \in {"write", "store", "count", "increment", "loop"}
            BY <2>1, <5>1 DEF Worker
          <5>. QED
            BY <5>1, <5>2
        <4>. QED
          BY <2>8, <4>1, <4>2, <4>3, <4>4, <4>5
      <3>. QED
        BY <2>4, <3>1, <3>2
    <2>9. CASE Return(b)
      <3>1. /\ worker[b].todo = {} /\ becomes(b, [worker[b] EXCEPT !.pc = "done"])
            /\ UNCHANGED <<bound, had, vMap, answer>>
        BY <2>9 DEF Return, goes
      <3>2. PICK w : w = [worker[b] EXCEPT !.pc = "done"]
        OBVIOUS
      <3>3. w.pc = "done" /\ w.todo = worker[b].todo /\ w.paths = worker[b].paths
        BY <2>1, <3>2 DEF Worker
      <3>. QED
        BY <2>4, <3>1, <3>2, <3>3
    <2>. QED
      BY <1>4, <2>5, <2>6, <2>7, <2>8, <2>9, Zenon DEF Work
  <1>. QED
    BY <1>1, <1>2, <1>3, <1>4 DEF ProjectsNext

-----------------------------------------------------------------------------
(* The turns.                                                              *)

\* A step of one goroutine that takes up no entry and writes none.
LEMMA WrittenSame ==
  ASSUME ProjectsInv, NEW b \in Binding, NEW w, becomes(b, w),
         UNCHANGED <<bound, had, vMap>>,
         w.pc \in {"append", "write"} <=> carries(b),
         w.project = worker[b].project
  PROVE  Written' = Written
  <1>1. \A c \in Binding : worker'[c] = IF c = b THEN w ELSE worker[c]
    BY DEF becomes, ProjectsInv, ProjectsShape
  <1>2. \A c \in Binding : (carries(c)' <=> carries(c)) /\ mine(c)' = mine(c)
    BY <1>1 DEF carries, mine
  <1>. QED
    BY <1>2 DEF Written

\* A step of a goroutine that does not append, before or after.
LEMMA TurnElsewhere ==
  ASSUME ProjectsInv, InTurn, NEW b \in Binding, NEW w, becomes(b, w),
         ~ appends(b), w.pc \notin Appending,
         UNCHANGED <<arrays, slice, total, alone>>, Written' = Written
  PROVE  InTurn'
  <1>1. \A c \in Binding : worker'[c] = IF c = b THEN w ELSE worker[c]
    BY DEF becomes, ProjectsInv, ProjectsShape
  <1>2. \A c \in Binding : /\ appends(c)' <=> appends(c)
                           /\ appends(c) => c # b /\ worker'[c] = worker[c]
    BY <1>1 DEF appends
  <1>3. \A s : Has(s)' <=> Has(s)
    BY DEF Has
  <1>4. Settled' <=> Settled
    BY <1>3 DEF Settled, Has
  <1>5. \A c \in Binding : appends(c) => (TurnOf(c)' <=> TurnOf(c))
    BY <1>2, <1>3, <1>4 DEF TurnOf, Has
  <1>. QED
    BY <1>2, <1>4, <1>5 DEF InTurn

\* A step of the one that appends.
LEMMA TurnMine ==
  ASSUME ProjectsInv, InTurn, NEW b \in Binding, NEW w, becomes(b, w),
         \A c \in Binding \ {b} : ~ appends(c), UNCHANGED alone,
         w.pc \in Appending => TurnOf(b)', w.pc \notin Appending => Settled'
  PROVE  InTurn'
  <1>1. \A c \in Binding : worker'[c] = IF c = b THEN w ELSE worker[c]
    BY DEF becomes, ProjectsInv, ProjectsShape
  <1>2. \A c \in Binding : appends(c)' <=> c = b /\ w.pc \in Appending
    BY <1>1 DEF appends
  <1>. QED
    BY <1>2 DEF InTurn


\* A step of a goroutine that neither appends nor takes up an entry.
LEMMA TurnQuiet ==
  ASSUME ProjectsInv, InTurn, NEW b \in Binding, NEW w, becomes(b, w),
         ~ appends(b), ~ carries(b), w.pc \notin Appending, w.pc # "append",
         w.project = worker[b].project,
         UNCHANGED <<bound, had, vMap, arrays, slice, total, alone>>
  PROVE  InTurn'
  <1>1. w.pc # "write"
    BY DEF Appending
  <1>2. Written' = Written
    BY <1>1, WrittenSame
  <1>. QED
    BY <1>2, TurnElsewhere

\* An entry that is taken up is to be written from then on.
LEMMA SetNXTurn ==
  ASSUME ProjectsInv, InTurn, NEW b \in Binding, NEW path \in Path, SetNX(b, path)
  PROVE  InTurn'
  <1>. DEFINE g == bound[b].registry
              p == path[1]
              pc == IF p \in vMap[g] THEN "loop" ELSE "append"
              w == [worker[b] EXCEPT !.todo = @ \ {path}, !.project = p, !.pc = pc]
  <1>1. g \in Registry /\ p \in Project /\ worker[b] \in Worker(Len(arrays))
    BY DEF ProjectsInv, ProjectsShape, Bound, Path
  <1>2. /\ becomes(b, w) /\ UNCHANGED <<bound, had, arrays, slice, total, alone>>
        /\ vMap' = [vMap EXCEPT ![g] = @ \cup {p}] /\ worker[b].pc = "loop"
    BY DEF SetNX, result, working
  <1>3. w.project = p /\ w.pc = pc
    BY <1>1 DEF Worker
  <1>4. \A c \in Binding : worker'[c] = IF c = b THEN w ELSE worker[c]
    BY <1>2 DEF becomes, ProjectsInv, ProjectsShape
  <1>5. \A h \in Registry : vMap'[h] = IF h = g THEN vMap[h] \cup {p} ELSE vMap[h]
    BY <1>1, <1>2 DEF ProjectsInv, ProjectsShape
  <1>6. ~ appends(b) /\ ~ carries(b) /\ w.pc \notin Appending
    BY <1>2, <1>3 DEF appends, carries, Appending
  <1>. HIDE DEF w
  <1>7. Written' = Written
    <2>1. \A c \in Binding \ {b} : (carries(c)' <=> carries(c)) /\ mine(c)' = mine(c)
      BY <1>2, <1>4 DEF carries, mine
    <2>2. CASE p \in vMap[g]
      <3>1. \A h \in Registry : vMap'[h] = vMap[h]
        BY <1>5, <2>2
      <3>2. ~ carries(b)'
        BY <1>3, <1>4, <2>2 DEF carries
      <3>3. \A e \in Entry : (\A c \in Binding : carries(c)' => mine(c)' # e)
                               <=> (\A c \in Binding : carries(c) => mine(c) # e)
        BY <1>6, <2>1, <3>2
      <3>4. \A e \in Entry : e[1] \in Registry
        BY DEF Entry
      <3>. QED
        BY <1>2, <3>1, <3>3, <3>4 DEF Written
    <2>3. CASE p \notin vMap[g]
      <3>1. carries(b)' /\ mine(b)' = <<g, p>>
        BY <1>2, <1>3, <1>4, <2>3 DEF carries, mine
      <3>2. ASSUME NEW e \in Entry
            PROVE  e \in Written' <=> e \in Written
        <4>1. e[1] \in Registry /\ e = <<e[1], e[2]>>
          BY DEF Entry
        <4>2. CASE e = <<g, p>>
          BY <2>3, <3>1, <4>2 DEF Written
        <4>3. CASE e # <<g, p>>
          <5>1. e[2] \in vMap'[e[1]] <=> e[2] \in vMap[e[1]]
            BY <1>5, <4>1, <4>3
          <5>2. (\A c \in Binding : carries(c)' => mine(c)' # e)
                  <=> (\A c \in Binding : carries(c) => mine(c) # e)
            BY <1>6, <2>1, <3>1, <4>3
          <5>. QED
            BY <1>2, <5>1, <5>2 DEF Written
        <4>. QED
          BY <4>2, <4>3
      <3>. QED
        BY <3>2 DEF Written
    <2>. QED
      BY <2>2, <2>3
  <1>. QED
    BY <1>2, <1>6, <1>7, TurnElsewhere

LEMMA ReadSliceTurn ==
  ASSUME ProjectsInv, InTurn, NEW b \in Binding, ReadSlice(b)
  PROVE  InTurn'
  <1>. SUFFICES ASSUME alone'
                PROVE  InTurn'
    BY DEF InTurn
  <1>1. PICK w : w = [worker[b] EXCEPT !.pc = "write", !.slice = slice] /\ becomes(b, w)
    BY DEF ReadSlice
  <1>2. /\ worker[b].pc = "append" /\ UNCHANGED <<bound, had, vMap, arrays, slice, total>>
        /\ alone /\ \A c \in Binding \ {b} : ~ appends(c)
    BY DEF ReadSlice, working, result, appends
  <1>3. w.pc = "write" /\ w.slice = slice /\ w.project = worker[b].project
    BY <1>1 DEF ProjectsInv, ProjectsShape, Worker
  <1>4. Written' = Written
    BY <1>1, <1>2, <1>3, WrittenSame DEF carries
  <1>5. Settled
    BY <1>2 DEF InTurn, appends, Appending
  <1>6. Settled'
    BY <1>2, <1>4, <1>5 DEF Settled, Has
  <1>7. worker'[b] = w
    BY <1>1 DEF becomes, ProjectsInv, ProjectsShape
  <1>8. TurnOf(b)'
    BY <1>2, <1>3, <1>6, <1>7 DEF TurnOf
  <1>. QED
    BY <1>1, <1>2, <1>3, <1>8, TurnMine DEF Appending

\* The entry is in the slice that append returns.
LEMMA WriteTurn ==
  ASSUME ProjectsInv, InTurn, NEW b \in Binding, Write(b)
  PROVE  InTurn'
  <1>. SUFFICES ASSUME alone'
                PROVE  InTurn'
    BY DEF InTurn
  <1>. DEFINE old == worker[b].slice
              entry == mine(b)
              length == old.len + 1
  <1>1. /\ worker[b].pc = "write" /\ alone /\ UNCHANGED <<bound, had, vMap, slice, total, alone>>
    BY DEF Write, working
  <1>2. carries(b) /\ appends(b) /\ \A c \in Binding \ {b} : ~ appends(c)
    BY <1>1 DEF InTurn, appends, Appending, carries
  <1>3. old = slice /\ Settled
    BY <1>1, <1>2 DEF InTurn, TurnOf
  <1>4. /\ slice.array \in 1 .. Len(arrays) /\ slice.len \in Nat
        /\ arrays \in Seq(Array) /\ Len(arrays) \in Nat
        /\ arrays[slice.array] \in Array /\ Len(arrays[slice.array]) \in Nat
        /\ worker[b] \in Worker(Len(arrays))
    BY DEF ProjectsInv, ProjectsShape, SliceOf, Array
  <1>5. /\ Unwritten(b) /\ entry \in Entry
    <2>1. Unwritten(b)
      BY <1>2 DEF ProjectsInv, CarriedOnce
    <2>2. worker[b].project \in Project /\ bound[b].registry \in Registry
      BY <2>1 DEF Unwritten, ProjectsInv, ProjectsShape, Bound
    <2>. QED
      BY <2>1, <2>2 DEF mine, Entry
  <1>6. ASSUME NEW w, becomes(b, w), w.pc = "store", w.project = worker[b].project,
               w.slice.len = length,
               \A word \in {"array", "len"} \ w.words : slice[word] = w.slice[word],
               length <= Len(arrays'[w.slice.array]),
               \A i \in 1 .. slice.len : arrays'[w.slice.array][i] = arrays[slice.array][i],
               arrays'[w.slice.array][length] = entry
        PROVE  InTurn'
    <2>1. \A c \in Binding : worker'[c] = IF c = b THEN w ELSE worker[c]
      BY <1>6 DEF becomes, ProjectsInv, ProjectsShape
    <2>2. Written' = Written \cup {entry}
      <3>1. ~ carries(b)' /\ \A c \in Binding \ {b} :
                                (carries(c)' <=> carries(c)) /\ mine(c)' = mine(c)
        BY <1>1, <1>6, <2>1 DEF carries, mine
      <3>2. ASSUME NEW e \in Entry
            PROVE  e \in Written' <=> e \in Written \/ e = entry
        <4>1. CASE e = entry
          <5>1. e[2] \in vMap[e[1]] \ had[e[1]]
            BY <1>5, <4>1 DEF Unwritten, mine
          <5>2. \A c \in Binding : carries(c)' => mine(c)' # e
            BY <1>5, <3>1, <4>1 DEF Unwritten
          <5>. QED
            BY <1>1, <4>1, <5>1, <5>2 DEF Written
        <4>2. CASE e # entry
          <5>1. (\A c \in Binding : carries(c)' => mine(c)' # e)
                  <=> (\A c \in Binding : carries(c) => mine(c) # e)
            BY <3>1, <4>2
          <5>. QED
            BY <1>1, <4>2, <5>1 DEF Written
        <4>. QED
          BY <4>1, <4>2
      <3>. QED
        BY <1>5, <3>2 DEF Written
    <2>3. {arrays'[w.slice.array][i] : i \in 1 .. length} = Written \cup {entry}
      <3>1. {arrays[slice.array][i] : i \in 1 .. slice.len} = Written
        BY <1>3 DEF Settled, Has
      <3>2. \A i \in 1 .. length : i \in 1 .. slice.len \/ i = length
        BY <1>3, <1>4
      <3>3. length \in 1 .. length /\ 1 .. slice.len \subseteq 1 .. length
        BY <1>3, <1>4
      <3>. HIDE DEF length, entry
      <3>. QED
        BY <1>6, <3>1, <3>2, <3>3
    <2>4. Has(w.slice)'
      BY <1>6, <2>1, <2>2, <2>3 DEF Has
    <2>5. total' = w.slice.len - 1
      BY <1>1, <1>3, <1>4, <1>6 DEF Settled
    <2>6. TurnOf(b)'
      BY <1>1, <1>6, <2>1, <2>4, <2>5 DEF TurnOf, Has
    <2>. QED
      BY <1>1, <1>2, <1>6, <2>6, TurnMine DEF Appending
  <1>7. CASE /\ length <= Len(arrays[old.array])
             /\ arrays' = [arrays EXCEPT ![old.array][length] = entry]
             /\ becomes(b, [worker[b] EXCEPT !.pc = "store", !.words = {"len"},
                              !.slice = [array |-> old.array, len |-> length]])
    <2>1. PICK w : /\ w = [worker[b] EXCEPT !.pc = "store", !.words = {"len"},
                             !.slice = [array |-> old.array, len |-> length]]
                   /\ becomes(b, w)
      BY <1>7
    <2>2. /\ w.pc = "store" /\ w.project = worker[b].project /\ w.words = {"len"}
          /\ w.slice.len = length /\ w.slice.array = slice.array
      BY <1>3, <1>4, <2>1 DEF Worker
    <2>3. length \in 1 .. Len(arrays[slice.array])
      BY <1>3, <1>4, <1>7
    <2>. DEFINE a == [arrays[slice.array] EXCEPT ![length] = entry]
    <2>4. /\ Len(a) = Len(arrays[slice.array])
          /\ \A i \in 1 .. Len(arrays[slice.array]) :
               a[i] = IF i = length THEN entry ELSE arrays[slice.array][i]
      <3>1. arrays[slice.array] \in Seq(Entry \cup {Nowhere}) /\ entry \in Entry \cup {Nowhere}
        BY <1>4, <1>5 DEF Array
      <3>. QED
        BY <2>3, <3>1, Replaced
    <2>5. arrays'[slice.array] = a
      BY <1>3, <1>4, <1>7
    <2>6. length <= Len(arrays'[w.slice.array]) /\ arrays'[w.slice.array][length] = entry
      BY <2>2, <2>3, <2>4, <2>5
    <2>7. \A i \in 1 .. slice.len : arrays'[w.slice.array][i] = arrays[slice.array][i]
      <3>1. \A i \in 1 .. slice.len : i \in 1 .. Len(arrays[slice.array]) /\ i # length
        BY <1>3, <1>4, <2>3
      <3>. QED
        BY <2>2, <2>4, <2>5, <3>1
    <2>8. \A word \in {"array", "len"} \ w.words : slice[word] = w.slice[word]
      BY <2>2
    <2>. HIDE DEF length, entry
    <2>. QED
      BY <1>6, <2>1, <2>2, <2>6, <2>7, <2>8
  <1>8. ASSUME NEW spare \in Spare,
               length > Len(arrays[old.array]),
               arrays' = Append(arrays,
                 [i \in 1 .. length + spare |->
                    IF i < length THEN element(old.array, i)
                    ELSE IF i = length THEN entry ELSE Nowhere]),
               becomes(b, [worker[b] EXCEPT !.pc = "store", !.words = {"array", "len"},
                             !.slice = [array |-> Len(arrays) + 1, len |-> length]])
        PROVE  InTurn'
    <2>1. PICK w : /\ w = [worker[b] EXCEPT !.pc = "store", !.words = {"array", "len"},
                             !.slice = [array |-> Len(arrays) + 1, len |-> length]]
                   /\ becomes(b, w)
      BY <1>8
    <2>2. /\ w.pc = "store" /\ w.project = worker[b].project /\ w.words = {"array", "len"}
          /\ w.slice.len = length /\ w.slice.array = Len(arrays) + 1
      BY <1>4, <2>1 DEF Worker
    <2>. DEFINE a == [i \in 1 .. length + spare |->
                        IF i < length THEN element(old.array, i)
                        ELSE IF i = length THEN entry ELSE Nowhere]
    <2>3. arrays'[Len(arrays) + 1] = a
      BY <1>4, <1>8
    <2>4. spare \in Nat /\ length + spare \in Nat /\ length <= length + spare
      BY <1>3, <1>4, ProjectsAssumption
    <2>5. length <= Len(a)
      BY <2>4
    <2>6. a[length] = entry
      BY <1>3, <1>4, <2>4
    <2>7. \A i \in 1 .. slice.len : a[i] = arrays[slice.array][i]
      <3>1. ASSUME NEW i \in 1 .. slice.len
            PROVE  a[i] = arrays[slice.array][i]
        <4>1. i \in 1 .. length + spare /\ i < length /\ i <= Len(arrays[slice.array])
          BY <1>3, <1>4, <2>4 DEF Settled, Has
        <4>2. element(old.array, i) = arrays[slice.array][i]
          BY <1>3, <4>1 DEF element
        <4>. QED
          BY <4>1, <4>2
      <3>. QED
        BY <3>1
    <2>8. \A word \in {"array", "len"} \ w.words : slice[word] = w.slice[word]
      BY <2>2
    <2>. HIDE DEF length, entry, a
    <2>. QED
      BY <1>6, <2>1, <2>2, <2>3, <2>5, <2>6, <2>7, <2>8
  <1>. QED
    BY <1>7, <1>8 DEF Write, mine

\* The slice is stored when all its words are.
LEMMA StoreTurn ==
  ASSUME ProjectsInv, InTurn, NEW b \in Binding, NEW word \in {"array", "len"}, Store(b, word)
  PROVE  InTurn'
  <1>. SUFFICES ASSUME alone'
                PROVE  InTurn'
    BY DEF InTurn
  <1>. DEFINE rest == worker[b].words \ {word}
  <1>1. /\ worker[b].pc = "store" /\ word \in worker[b].words /\ alone
        /\ UNCHANGED <<bound, had, vMap, arrays, total, alone>>
        /\ slice' = [slice EXCEPT ![word] = worker[b].slice[word]]
    BY DEF Store, working
  <1>2. appends(b) /\ \A c \in Binding \ {b} : ~ appends(c)
    BY <1>1 DEF InTurn, appends, Appending
  <1>3. /\ Has(worker[b].slice) /\ total = worker[b].slice.len - 1
        /\ \A other \in {"array", "len"} \ worker[b].words :
             slice[other] = worker[b].slice[other]
    BY <1>1, <1>2 DEF InTurn, TurnOf
  <1>4. PICK w : /\ w = [worker[b] EXCEPT !.words = rest, !.pc = IF rest = {} THEN "count" ELSE @]
                 /\ becomes(b, w)
    BY DEF Store
  <1>5. worker[b] \in Worker(Len(arrays)) /\ slice \in SliceOf(Len(arrays))
    BY DEF ProjectsInv, ProjectsShape
  <1>6. /\ w.words = rest /\ w.pc = (IF rest = {} THEN "count" ELSE "store")
        /\ w.slice = worker[b].slice /\ w.project = worker[b].project
    BY <1>1, <1>4, <1>5 DEF Worker
  <1>7. worker'[b] = w
    BY <1>4 DEF becomes, ProjectsInv, ProjectsShape
  <1>8. Written' = Written
    <2>1. ~ carries(b) /\ w.pc \in {"count", "store"}
      BY <1>1, <1>6 DEF carries
    <2>. HIDE DEF rest
    <2>. QED
      BY <1>1, <1>4, <1>6, <2>1, WrittenSame
  <1>9. Has(w.slice)' /\ total' = w.slice.len - 1
    BY <1>1, <1>3, <1>6, <1>7, <1>8 DEF Has
  <1>10. \A other \in {"array", "len"} \ w.words : slice'[other] = w.slice[other]
    <2>1. \A other \in {"array", "len"} :
            slice'[other] = IF other = word THEN worker[b].slice[other] ELSE slice[other]
      BY <1>1, <1>5 DEF SliceOf
    <2>. QED
      BY <1>3, <1>6, <2>1
  <1>11. rest = {} => slice' = w.slice
    <2>1. slice' \in SliceOf(Len(arrays)) /\ w.slice \in SliceOf(Len(arrays))
      BY <1>1, <1>5, <1>6 DEF SliceOf, Worker
    <2>2. rest = {} => slice'.array = w.slice.array /\ slice'.len = w.slice.len
      BY <1>6, <1>10
    <2>. QED
      BY <2>1, <2>2 DEF SliceOf
  <1>12. TurnOf(b)'
    <2>1. CASE rest = {}
      <3>1. Has(slice)' /\ total' = slice'.len - 1
        BY <1>9, <1>11, <2>1 DEF Has
      <3>. QED
        BY <1>6, <1>7, <2>1, <3>1 DEF TurnOf
    <2>2. CASE rest # {}
      BY <1>6, <1>7, <1>9, <1>10, <2>2 DEF TurnOf, Has
    <2>. QED
      BY <2>1, <2>2
  <1>. QED
    BY <1>1, <1>2, <1>4, <1>6, <1>12, TurnMine DEF Appending

\* The count follows.
LEMMA CountTurn ==
  ASSUME ProjectsInv, InTurn, NEW b \in Binding, ReadTotal(b) \/ Increment(b)
  PROVE  InTurn'
  <1>. SUFFICES ASSUME alone'
                PROVE  InTurn'
    BY DEF InTurn
  <1>1. /\ alone /\ UNCHANGED <<bound, had, vMap, arrays, slice, alone>>
        /\ worker[b].pc \in {"count", "increment"}
    BY DEF ReadTotal, Increment, working, result
  <1>2. appends(b) /\ \A c \in Binding \ {b} : ~ appends(c)
    BY <1>1 DEF InTurn, appends, Appending
  <1>3. /\ Has(slice) /\ total = slice.len - 1
        /\ worker[b].pc = "increment" => worker[b].total = total
    BY <1>1, <1>2 DEF InTurn, TurnOf
  <1>4. worker[b] \in Worker(Len(arrays)) /\ slice.len \in Nat
    BY DEF ProjectsInv, ProjectsShape, SliceOf
  <1>5. CASE ReadTotal(b)
    <2>1. PICK w : w = [worker[b] EXCEPT !.pc = "increment", !.total = total] /\ becomes(b, w)
      BY <1>5 DEF ReadTotal
    <2>2. w.pc = "increment" /\ w.total = total /\ w.project = worker[b].project
      BY <1>4, <2>1 DEF Worker
    <2>3. worker'[b] = w /\ total' = total
      BY <1>5, <2>1 DEF becomes, ProjectsInv, ProjectsShape, ReadTotal, result
    <2>4. Written' = Written
      BY <1>1, <2>1, <2>2, WrittenSame DEF carries
    <2>5. TurnOf(b)'
      BY <1>1, <1>3, <2>2, <2>3, <2>4 DEF TurnOf, Has
    <2>. QED
      BY <1>1, <1>2, <2>1, <2>2, <2>5, TurnMine DEF Appending
  <1>6. CASE Increment(b)
    <2>1. PICK w : w = [worker[b] EXCEPT !.pc = "loop"] /\ becomes(b, w)
      BY <1>6 DEF Increment, goes
    <2>2. w.pc = "loop" /\ w.project = worker[b].project
      BY <1>4, <2>1 DEF Worker
    <2>3. total' = slice.len
      BY <1>3, <1>4, <1>6 DEF Increment, working
    <2>4. Written' = Written
      BY <1>1, <2>1, <2>2, WrittenSame DEF carries
    <2>5. Settled'
      BY <1>1, <1>3, <2>3, <2>4 DEF Settled, Has
    <2>. QED
      BY <1>1, <1>2, <2>1, <2>2, <2>5, TurnMine DEF Appending
  <1>. QED
    BY <1>5, <1>6

LEMMA NextTurn ==
  ASSUME ProjectsInv, InTurn, [ProjectsNext]_projectsVars
  PROVE  InTurn'
  <1>1. CASE MapRace \/ Answer \/ UNCHANGED projectsVars
    <2>1. UNCHANGED <<bound, had, vMap, arrays, slice, total, worker, alone>>
      BY <1>1 DEF MapRace, Answer, projectsVars, result
    <2>2. Written' = Written
      BY <2>1 DEF Written, carries, mine
    <2>3. \A s : Has(s)' <=> Has(s)
      BY <2>1, <2>2 DEF Has
    <2>4. Settled' <=> Settled
      BY <2>1, <2>2 DEF Settled, Has
    <2>5. \A b \in Binding : (TurnOf(b)' <=> TurnOf(b)) /\ (appends(b)' <=> appends(b))
      BY <2>1, <2>2, <2>4 DEF TurnOf, Has, appends
    <2>. QED
      BY <2>1, <2>4, <2>5 DEF InTurn
  <1>2. ASSUME NEW b \in Binding, Work(b)
        PROVE  InTurn'
    <2>1. worker[b] \in Worker(Len(arrays))
      BY DEF ProjectsInv, ProjectsShape
    <2>2. ASSUME NEW w, becomes(b, w), w.project = worker[b].project,
                 {worker[b].pc, w.pc} \subseteq {"start", "map", "list", "registry", "loop", "done"},
                 UNCHANGED <<bound, had, vMap, arrays, slice, total, alone>>
          PROVE  InTurn'
      BY <2>2, TurnQuiet DEF appends, carries, Appending
    <2>3. CASE Claim(b) \/ GetMainMap(b) \/ GetProjectList(b) \/ RequestFails(b)
      <3>1. /\ UNCHANGED <<bound, had, vMap, arrays, slice, total, alone>>
            /\ worker[b].pc \in {"start", "map", "list", "registry"}
        BY <2>3 DEF Claim, GetMainMap, GetProjectList, RequestFails, working, result
      <3>2. \E pc \in {"map", "done", "registry", "list"} : \E paths : becomes(b, given(b, pc, paths))
        <4>1. CASE Claim(b)
          <5>1. \/ becomes(b, given(b, "map", {}))
                \/ becomes(b, given(b, "done", {}))
                \/ becomes(b, given(b, "registry", bound[b].paths))
            BY <4>1 DEF Claim
          <5>. QED
            BY <5>1
        <4>2. CASE GetMainMap(b) \/ GetProjectList(b) \/ RequestFails(b)
          <5>1. \/ becomes(b, given(b, "registry", Listing))
                \/ becomes(b, given(b, "list", {}))
                \/ becomes(b, given(b, "done", {}))
            BY <4>2 DEF GetMainMap, GetProjectList, RequestFails
          <5>. QED
            BY <5>1
        <4>. QED
          BY <2>3, <4>1, <4>2
      <3>3. PICK pc \in {"map", "done", "registry", "list"} :
              \E paths, w : w = given(b, pc, paths) /\ becomes(b, w)
        BY <3>2
      <3>5. PICK paths, w : w = given(b, pc, paths) /\ becomes(b, w)
        BY <3>3
      <3>4. w.pc = pc /\ w.project = worker[b].project
        BY <2>1, <3>5 DEF given, Worker
      <3>. QED
        BY <2>2, <3>1, <3>4, <3>5
    <2>4. CASE GetImageRegistry(b) \/ Return(b)
      <3>1. /\ UNCHANGED <<bound, had, vMap, arrays, slice, total, alone>>
            /\ worker[b].pc \in {"registry", "loop"}
            /\ goes(b, "loop") \/ goes(b, "done")
        BY <2>4 DEF GetImageRegistry, Return, working, result
      <3>2. PICK pc \in {"loop", "done"} : \E w : w = [worker[b] EXCEPT !.pc = pc] /\ becomes(b, w)
        BY <3>1 DEF goes
      <3>4. PICK w : w = [worker[b] EXCEPT !.pc = pc] /\ becomes(b, w)
        BY <3>2
      <3>3. w.pc = pc /\ w.project = worker[b].project
        BY <2>1, <3>4 DEF Worker
      <3>. QED
        BY <2>2, <3>1, <3>3, <3>4
    <2>. QED
      BY <1>2, <2>3, <2>4, SetNXTurn, ReadSliceTurn, WriteTurn, StoreTurn, CountTurn, Zenon DEF Work
  <1>. QED
    BY <1>1, <1>2 DEF ProjectsNext

LEMMA TurnImplies ==
  ASSUME ProjectsInv, Reaching, InTurn
  PROVE  CompleteInTurn
  <1>. SUFFICES ASSUME answer = "written", alone
                PROVE  LET served == {<<bound[b].registry, path[1]>> : b \in Binding, path \in Path}
                           wanted == {e \in served : \E b \in Binding :
                             /\ e[1] = bound[b].registry /\ e[2] \notin had[e[1]]
                             /\ \E path \in worker[b].paths : path[1] = e[2]}
                       IN /\ {listed(i) : i \in 1 .. slice.len} = wanted
                          /\ total = slice.len
    BY DEF CompleteInTurn
  <1>. DEFINE served == {<<bound[b].registry, path[1]>> : b \in Binding, path \in Path}
              wanted == {e \in served : \E b \in Binding :
                           /\ e[1] = bound[b].registry /\ e[2] \notin had[e[1]]
                           /\ \E path \in worker[b].paths : path[1] = e[2]}
  <1>1. \A b \in Binding : worker[b].pc = "done" /\ worker[b].todo = {}
    BY DEF Reaching, working
  <1>2. \A b \in Binding : ~ appends(b) /\ ~ carries(b) /\ Reached(b) = worker[b].paths
    BY <1>1 DEF appends, Appending, carries, Reached
  <1>3. Settled
    BY <1>2 DEF InTurn
  <1>4. Written = wanted
    <2>1. ASSUME NEW e \in Entry
          PROVE  e \in Written <=>
                   /\ e[2] \notin had[e[1]]
                   /\ \E b \in Binding : /\ e[1] = bound[b].registry
                                         /\ \E path \in worker[b].paths : path[1] = e[2]
      <3>1. e[1] \in Registry /\ e[2] \in Project
        BY DEF Entry
      <3>2. e[2] \notin had[e[1]] =>
              (e[2] \in vMap[e[1]] <=>
                \E b \in Binding : bound[b].registry = e[1]
                                     /\ \E path \in Reached(b) : path[1] = e[2])
        BY <3>1 DEF Reaching
      <3>. QED
        BY <1>2, <3>2 DEF Written
    <2>2. served \subseteq Entry
      <3>1. \A b \in Binding : bound[b].registry \in Registry
        BY DEF ProjectsInv, ProjectsShape, Bound
      <3>2. \A path \in Path : path[1] \in Project
        BY DEF Path
      <3>. QED
        BY <3>1, <3>2 DEF Entry
    <2>3. ASSUME NEW e \in Entry, NEW b \in Binding, e[1] = bound[b].registry,
                 NEW path \in worker[b].paths, path[1] = e[2]
          PROVE  e \in served
      <3>1. path \in Path /\ e = <<e[1], e[2]>>
        BY DEF ProjectsInv, ProjectsShape, Worker, Entry
      <3>. QED
        BY <2>3, <3>1
    <2>4. Written \subseteq Entry
      BY DEF Written
    <2>. HIDE DEF served
    <2>. QED
      BY <2>1, <2>2, <2>3, <2>4
  <1>5. \A i \in 1 .. slice.len : listed(i) = arrays[slice.array][i]
    <2>1. slice.len \in Nat /\ slice.len <= Len(arrays[slice.array])
          /\ Len(arrays[slice.array]) \in Nat
      BY <1>3 DEF Settled, Has, ProjectsInv, ProjectsShape, SliceOf, Array
    <2>. QED
      BY <2>1 DEF listed, element
  <1>6. {listed(i) : i \in 1 .. slice.len} = Written
    BY <1>3, <1>5 DEF Settled, Has
  <1>. HIDE DEF wanted, served
  <1>7. {listed(i) : i \in 1 .. slice.len} = wanted /\ total = slice.len
    BY <1>3, <1>4, <1>6 DEF Settled
  <1>. QED
    BY <1>7 DEF wanted, served

\* For any bindings of any registries, some of them for the same registry, and whatever
\* requests fail: when no two goroutines were appending at the same time, the answer
\* has every project that some goroutine was to add, and its count is theirs
\* (handleGetImageRepositoryProjectList, SetNXAndGetSubMap).
THEOREM CompleteInTurnAlways == ProjectsSpec => []CompleteInTurn
  <1>. DEFINE Inv == ProjectsInv /\ Reaching /\ InTurn
  <1>1. ProjectsInit => Inv
    BY ProjectsInitEstablishes, TurnInit
  <1>2. Inv /\ [ProjectsNext]_projectsVars => Inv'
    BY ProjectsNextPreserves, NextReaches, NextTurn
  <1>3. Inv => CompleteInTurn
    BY TurnImplies
  <1>. QED
    BY <1>1, <1>2, <1>3, PTL DEF ProjectsSpec
=============================================================================
