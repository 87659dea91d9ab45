------------------------------- MODULE Cache -------------------------------
(***************************************************************************)
(* internal/cache: one in-memory map of entries with the time they were     *)
(* written and a refresh interval, shared by the road, incident and weather *)
(* services.  Get hides a stale entry; GetWithMetadata returns any entry    *)
(* and leaves the judgement to the caller, who asks IsVeryStale separately. *)
(* Calls that follow each other without I/O in between are one step of the  *)
(* modules that use this one.                                               *)
(***************************************************************************)
EXTENDS Integers

CONSTANTS CacheKey,  \* the keys of the entries that are modelled
          NoEntry,   \* not in the map
          MaxNow     \* search bound on the clock

VARIABLES now,    \* the wall clock
          cache   \* [CacheKey -> entry or NoEntry]

cacheVars == <<now, cache>>

\* An entry: what was stored, when, and for how long it counts as fresh.
NewEntry(data, ttl) == [data |-> data, created |-> now, ttl |-> ttl]

\* Cache.Set: the last writer wins, whatever it fetched and when.
Set(key, data, ttl) == cache' = [cache EXCEPT ![key] = NewEntry(data, ttl)]

Exists(key) == cache[key] # NoEntry

\* Cache.IsStale: missing, or past ExpiresAt.
IsStale(key) == Exists(key) => now > cache[key].created + cache[key].ttl

\* Cache.IsVeryStale: missing, or older than twice its interval.
IsVeryStale(key) == Exists(key) => now > cache[key].created + 2 * cache[key].ttl

\* Cache.Get finds an entry only while it is fresh.
GetFound(key) == Exists(key) /\ ~IsStale(key)

\* Cache.GetWithMetadata finds any entry.
GetWithMetadata(key) == cache[key]

\* Cache.Delete, as a step on the map c
Delete(c, key) == [c EXCEPT ![key] = NoEntry]

\* Cache.CleanupStale keeps what is merely stale: the fallback of a failed refresh.
CleanupStale ==
    cache' = [k \in CacheKey |-> IF IsVeryStale(k) THEN NoEntry ELSE cache[k]]

\* Cache.StartPeriodicCleanup: a tick of the ticker, at a time of its own.
PeriodicCleanup ==
    /\ \E k \in CacheKey : Exists(k) /\ IsVeryStale(k)
    /\ CleanupStale
    /\ UNCHANGED now

Tick ==
    /\ now < MaxNow
    /\ now' = now + 1
    /\ UNCHANGED cache

CacheInit ==
    /\ now = 0
    /\ cache = [k \in CacheKey |-> NoEntry]
=============================================================================
