------------------------- MODULE ClusterConfigCache -------------------------
(***************************************************************************)
(* The cache of cluster configurations (backend/resource/asmConfig), the   *)
(* requests that ask it, and the goroutine that vacuums it.  Each method   *)
(* of the cache holds its lock for the whole of its body, so a method is   *)
(* one action; but a request and the vacuum call several of them.          *)
(*                                                                         *)
(* What a configuration says is left out: an item is there or not, and     *)
(* expired or not.                                                         *)
(***************************************************************************)

CONSTANTS
  Cluster,  \* the names of clusters that requests come with
  Asker     \* the requests for a configuration, one at a time each

VARIABLES
  items,    \* CachedConfig.items: "none", "fresh" or "expired"
  asking,   \* what each request is doing, and for which name
  vacuum,   \* "waiting", "looking" or "clearing"
  evicting  \* the keys the vacuum has collected

cacheVars == <<items, asking, vacuum, evicting>>

Item == {"none", "fresh", "expired"}
Asking == [pc : {"idle", "get", "fetch", "put", "nil"}, name : Cluster]
becomes(a, pc) == asking' = [asking EXCEPT ![a].pc = pc]

\* The lifespan that GetClusterConfig gives an item, 600, is in nanoseconds: it may
\* be over before anything else happens.
Expire(n) ==
  /\ items[n] = "fresh"
  /\ items' = [items EXCEPT ![n] = "expired"]
  /\ UNCHANGED <<asking, vacuum, evicting>>

-----------------------------------------------------------------------------
(* GetClusterConfig.                                                       *)

IsExist(a, n) ==
  /\ asking[a].pc \in {"idle", "nil"}
  /\ asking' = [asking EXCEPT ![a] = [pc |-> IF items[n] = "fresh" THEN "get" ELSE "fetch",
                                      name |-> n]]
  /\ UNCHANGED <<items, vacuum, evicting>>

\* What was there a moment ago may be expired or evicted.  Then the answer is nil,
\* with no error, and the handler dereferences it.
GetCached(a) ==
  /\ asking[a].pc = "get"
  /\ becomes(a, IF items[asking[a].name] = "fresh" THEN "idle" ELSE "nil")
  /\ UNCHANGED <<items, vacuum, evicting>>

Fetch(a) ==
  /\ asking[a].pc = "fetch"
  /\ becomes(a, "put") \/ becomes(a, "idle")
  /\ UNCHANGED <<items, vacuum, evicting>>

Put(a) ==
  /\ asking[a].pc = "put"
  /\ items' = [items EXCEPT ![asking[a].name] = "fresh"]
  /\ becomes(a, "idle")
  /\ UNCHANGED <<vacuum, evicting>>

-----------------------------------------------------------------------------
(* The vacuum.                                                             *)

WakeUp ==
  /\ vacuum = "waiting"
  /\ vacuum' = "looking"
  /\ UNCHANGED <<items, asking, evicting>>

\* The vacuum goes on only while it finds something.
expiredKeys_ends ==
  /\ vacuum = "looking"
  /\ evicting' = {n \in Cluster : items[n] = "expired"}
  /\ vacuum' = IF evicting' = {} THEN "ended" ELSE "clearing"
  /\ UNCHANGED <<items, asking>>

expiredKeys ==
  /\ vacuum = "looking"
  /\ evicting' = {n \in Cluster : items[n] = "expired"}
  /\ vacuum' = IF evicting' = {} THEN "waiting" ELSE "clearing"
  /\ UNCHANGED <<items, asking>>

\* Whatever has been put there since it was collected.
clearItems ==
  /\ vacuum = "clearing"
  /\ items' = [n \in Cluster |-> IF n \in evicting THEN "none" ELSE items[n]]
  /\ evicting' = {}
  /\ vacuum' = "waiting"
  /\ UNCHANGED asking

-----------------------------------------------------------------------------
CacheInit ==
  /\ items = [n \in Cluster |-> "none"]
  /\ asking \in [Asker -> {[pc |-> "idle", name |-> n] : n \in Cluster}]
  /\ vacuum = "waiting" /\ evicting = {}

CacheNext ==
  \/ \E n \in Cluster : Expire(n)
  \/ \E a \in Asker : (\E n \in Cluster : IsExist(a, n)) \/ GetCached(a) \/ Fetch(a) \/ Put(a)
  \/ WakeUp \/ expiredKeys \/ clearItems

CacheSpec == CacheInit /\ [][CacheNext]_cacheVars

-----------------------------------------------------------------------------
(* Properties.                                                             *)

\* The names are whatever the URLs of requests say, so nothing but the vacuum keeps
\* the map from growing: whatever is put, and whenever, an item that has expired is
\* evicted, or renewed before that (MemoryCache.vacuum).
ExpiredIsEvicted ==
  \A n \in Cluster : items[n] = "expired" ~> items[n] # "expired"
=============================================================================
