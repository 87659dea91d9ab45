--------------------------- MODULE ServingProofs ---------------------------
(***************************************************************************)
(* How old, and how complete, an answer of the first API can be: the        *)
(* weather, road and camera services and the condition layers, each over    *)
(* the cache, for any intervals, any clock and any number of callers.       *)
(***************************************************************************)
EXTENDS Weather, Roads, Cameras, Hazards, WellFoundedInduction, TLAPS

(***************************************************************************)
(* Weather.  An entry is as old as its time says, except the list of alerts, *)
(* which may have been made from a list that was an interval old.           *)
(***************************************************************************)
\* What the cache c holds at time t.
WxCacheOk(c, t) ==
    /\ DOMAIN c = CacheKey
    /\ c[NWSKey] # NoEntry =>
          c[NWSKey].created \in Nat /\ c[NWSKey].created <= t /\ c[NWSKey].ttl = WeatherTTL
    /\ c[AlertsKey] # NoEntry =>
          /\ c[AlertsKey].data \in Nat /\ c[AlertsKey].created \in Nat /\ c[AlertsKey].created <= t
          /\ c[AlertsKey].created <= c[AlertsKey].data + WeatherTTL
          /\ c[AlertsKey].ttl = WeatherTTL
    /\ \A l \in Location : c[ForecastKey(l)] # NoEntry =>
          /\ c[ForecastKey(l)].created \in Nat /\ c[ForecastKey(l)].created <= t
          /\ c[ForecastKey(l)].data = c[ForecastKey(l)].created /\ c[ForecastKey(l)].ttl = ForecastTTL

WeatherInv == now \in Nat /\ WxCacheOk(cache, now) /\ ServedWithinBound

\* No two of the keys are the same.
LEMMA WeatherKeys ==
    /\ NWSKey # AllKey /\ NWSKey # AlertsKey /\ AlertsKey # AllKey
    /\ \A l \in Location : ForecastKey(l) \notin {NWSKey, AllKey, AlertsKey} /\ GridKey(l) \notin {NWSKey, AllKey, AlertsKey}
    /\ \A l, m \in Location : ForecastKey(l) # GridKey(m) /\ (ForecastKey(l) = ForecastKey(m) => l = m)
<1>1. NWSKey[1] = "nws:alerts" /\ AllKey[1] = "weather:all" /\ AlertsKey[1] = "weather:alerts"
  BY DEF NWSKey, AllKey, AlertsKey
<1>2. \A l \in Location : ForecastKey(l)[1] = "nws:forecast" /\ ForecastKey(l)[2] = l /\ GridKey(l)[1] = "nws:gridurl"
  BY DEF ForecastKey, GridKey
<1> QED  BY <1>1, <1>2

LEMMA WeatherWrites ==
    ASSUME now \in Nat, NEW c, WxCacheOk(c, now)
    PROVE  /\ \A up \in BOOLEAN : WxCacheOk(CachedNWSAlerts(c, up), now)
           /\ \A d \in Nat : d <= now /\ now <= d + WeatherTTL => WxCacheOk([c EXCEPT ![AlertsKey] = NewEntry(d, WeatherTTL)], now)
           /\ \A d : WxCacheOk([c EXCEPT ![AllKey] = NewEntry(d, WeatherTTL)], now)
           /\ \A l \in Location : /\ WxCacheOk([c EXCEPT ![ForecastKey(l)] = NewEntry(now, ForecastTTL)], now)
                                  /\ \A e : WxCacheOk([c EXCEPT ![GridKey(l)] = e], now)
<1>0. /\ {NWSKey, AllKey, AlertsKey} \subseteq CacheKey
      /\ \A l \in Location : {ForecastKey(l), GridKey(l)} \subseteq CacheKey
  BY WeatherKeysAssumption
<1> HIDE DEF NWSKey, AllKey, AlertsKey, ForecastKey, GridKey
<1>1. \A d, t : /\ NewEntry(d, t).data = d /\ NewEntry(d, t).created = now /\ NewEntry(d, t).ttl = t
  BY DEF NewEntry
<1>2. WxCacheOk([c EXCEPT ![NWSKey] = NewEntry(now, WeatherTTL)], now)
  <2> DEFINE e == NewEntry(now, WeatherTTL)
             n == [c EXCEPT ![NWSKey] = e]
  <2>1. e.created = now /\ e.ttl = WeatherTTL  BY <1>1
  <2> HIDE DEF e
  <2>2. DOMAIN n = CacheKey /\ n[NWSKey] = e /\ \A k \in CacheKey \ {NWSKey} : n[k] = c[k]  BY <1>0 DEF WxCacheOk
  <2> HIDE DEF n
  <2> QED  BY <1>0, <2>1, <2>2, WeatherKeys DEF WxCacheOk, n, e
<1>3. \A up \in BOOLEAN : WxCacheOk(CachedNWSAlerts(c, up), now)  BY <1>2 DEF CachedNWSAlerts
<1>4. ASSUME NEW d \in Nat, d <= now, now <= d + WeatherTTL
      PROVE  WxCacheOk([c EXCEPT ![AlertsKey] = NewEntry(d, WeatherTTL)], now)
  <2> DEFINE e == NewEntry(d, WeatherTTL)
             n == [c EXCEPT ![AlertsKey] = e]
  <2>1. e.created = now /\ e.ttl = WeatherTTL /\ e.data = d  BY <1>1
  <2> HIDE DEF e
  <2>2. DOMAIN n = CacheKey /\ n[AlertsKey] = e /\ \A k \in CacheKey \ {AlertsKey} : n[k] = c[k]  BY <1>0 DEF WxCacheOk
  <2> HIDE DEF n
  <2> QED  BY <1>0, <1>4, <2>1, <2>2, WeatherKeys DEF WxCacheOk, n, e
<1>5. ASSUME NEW d PROVE WxCacheOk([c EXCEPT ![AllKey] = NewEntry(d, WeatherTTL)], now)
  <2> DEFINE n == [c EXCEPT ![AllKey] = NewEntry(d, WeatherTTL)]
  <2>1. DOMAIN n = CacheKey /\ \A k \in CacheKey \ {AllKey} : n[k] = c[k]  BY DEF WxCacheOk
  <2> HIDE DEF n
  <2> QED  BY <1>0, <2>1, WeatherKeys DEF WxCacheOk, n
<1>6. ASSUME NEW l \in Location PROVE WxCacheOk([c EXCEPT ![ForecastKey(l)] = NewEntry(now, ForecastTTL)], now)
  <2> DEFINE e == NewEntry(now, ForecastTTL)
             n == [c EXCEPT ![ForecastKey(l)] = e]
  <2>1. e.created = now /\ e.ttl = ForecastTTL /\ e.data = now  BY <1>1
  <2> HIDE DEF e
  <2>2. DOMAIN n = CacheKey /\ n[ForecastKey(l)] = e /\ \A k \in CacheKey \ {ForecastKey(l)} : n[k] = c[k]
    BY <1>0 DEF WxCacheOk
  <2> HIDE DEF n
  <2>3. \A m \in Location : m # l => n[ForecastKey(m)] = c[ForecastKey(m)]  BY <1>0, <2>2, WeatherKeys
  <2>4. n[NWSKey] = c[NWSKey] /\ n[AlertsKey] = c[AlertsKey]  BY <1>0, <2>2, WeatherKeys
  <2> QED  BY <2>1, <2>2, <2>3, <2>4 DEF WxCacheOk, n, e
<1>7. ASSUME NEW l \in Location, NEW e PROVE WxCacheOk([c EXCEPT ![GridKey(l)] = e], now)
  <2> DEFINE n == [c EXCEPT ![GridKey(l)] = e]
  <2>1. DOMAIN n = CacheKey /\ \A k \in CacheKey \ {GridKey(l)} : n[k] = c[k]  BY DEF WxCacheOk
  <2> HIDE DEF n
  <2>2. n[NWSKey] = c[NWSKey] /\ n[AlertsKey] = c[AlertsKey]  BY <1>0, <2>1, WeatherKeys
  <2>3. \A m \in Location : n[ForecastKey(m)] = c[ForecastKey(m)]  BY <1>0, <2>1, WeatherKeys
  <2> QED  BY <2>1, <2>2, <2>3 DEF WxCacheOk, n
<1> QED  BY <1>3, <1>4, <1>5, <1>6, <1>7

\* fetchNWSAlerts is at most an interval old.
LEMMA FetchedInTime ==
    ASSUME WeatherInv, NEW up \in BOOLEAN, FetchNWSAlerts(up) # NoData
    PROVE  FetchNWSAlerts(up) \in Nat /\ FetchNWSAlerts(up) <= now /\ now <= FetchNWSAlerts(up) + WeatherTTL
BY WeatherIntervalsAssumption DEF WeatherInv, WxCacheOk, FetchNWSAlerts, GetFound, Exists, IsStale

\* The answer of a step that leaves the clock and the answer alone.
LEMMA AnswerKept ==
    ASSUME WeatherInv, now' = now, wxAnswer' = wxAnswer, WxCacheOk(cache', now) PROVE WeatherInv'
BY DEF WeatherInv, WxCacheOk, ServedWithinBound, Age

LEMMA RawStep ==
    ASSUME WeatherInv, NEW up \in BOOLEAN, RawNWSAlerts(up) PROVE WeatherInv'
<1> DEFINE fetch == FetchNWSAlerts(up)
<1>0. now \in Nat /\ now' = now /\ WeatherTTL \in Nat  BY WeatherIntervalsAssumption DEF WeatherInv, RawNWSAlerts
<1>1. WxCacheOk(cache', now)  BY <1>0, WeatherWrites DEF WeatherInv, RawNWSAlerts
<1>2. fetch # NoData => fetch \in Nat /\ fetch <= now /\ now <= fetch + WeatherTTL  BY FetchedInTime
<1>3. ServedWithinBound'
  <2>1. CASE fetch # NoData
    <3>1. wxAnswer' = [of |-> "raw", at |-> fetch, stamp |-> fetch, failed |-> FALSE]  BY <2>1 DEF RawNWSAlerts, Answer
    <3> HIDE DEF fetch
    <3>2. wxAnswer'.of = "raw" /\ wxAnswer'.at = fetch /\ wxAnswer'.stamp = fetch /\ wxAnswer'.failed = FALSE  BY <3>1
    <3> QED  BY <1>0, <1>2, <2>1, <3>2 DEF ServedWithinBound, Age
  <2>2. CASE fetch = NoData /\ Exists(NWSKey) /\ ~IsVeryStale(NWSKey)
    <3> DEFINE at == cache[NWSKey].created
    <3>1. wxAnswer' = [of |-> "raw", at |-> at, stamp |-> at, failed |-> TRUE]  BY <2>2 DEF RawNWSAlerts, Answer
    <3>2. at \in Nat /\ now <= at + 2 * WeatherTTL
      <4>1. at \in Nat /\ cache[NWSKey].ttl = WeatherTTL  BY <2>2 DEF WeatherInv, WxCacheOk, Exists
      <4> QED  BY <1>0, <2>2, <4>1 DEF IsVeryStale
    <3> HIDE DEF at
    <3>3. wxAnswer'.of = "raw" /\ wxAnswer'.at = at /\ wxAnswer'.stamp = at /\ wxAnswer'.failed = TRUE  BY <3>1
    <3> QED  BY <1>0, <3>2, <3>3 DEF ServedWithinBound, Age
  <2>3. CASE fetch = NoData /\ ~(Exists(NWSKey) /\ ~IsVeryStale(NWSKey))
    <3>1. wxAnswer'.at = NoData  BY <2>3 DEF RawNWSAlerts, Answer
    <3> QED  BY <3>1 DEF ServedWithinBound
  <2> QED  BY <2>1, <2>2, <2>3
<1> QED  BY <1>0, <1>1, <1>3 DEF WeatherInv, WxCacheOk

LEMMA AlertsStep ==
    ASSUME WeatherInv, NEW up \in BOOLEAN, ListWeatherAlerts(up) PROVE WeatherInv'
<1> DEFINE fetch == FetchNWSAlerts(up)
           entry == cache[AlertsKey]
<1>0. now \in Nat /\ now' = now /\ WeatherTTL \in Nat  BY WeatherIntervalsAssumption DEF WeatherInv, ListWeatherAlerts
<1>1. fetch # NoData => fetch \in Nat /\ fetch <= now /\ now <= fetch + WeatherTTL  BY FetchedInTime
<1>2. Exists(AlertsKey) => /\ entry.data \in Nat /\ entry.created \in Nat
                           /\ entry.created <= entry.data + WeatherTTL /\ entry.ttl = WeatherTTL
  BY DEF WeatherInv, WxCacheOk, Exists
<1>3. CASE \/ GetFound(AlertsKey)
           \/ ~GetFound(AlertsKey) /\ fetch = NoData /\ Exists(AlertsKey) /\ ~IsVeryStale(AlertsKey)
  <2>1. wxAnswer' = [of |-> "alerts", at |-> entry.data, stamp |-> entry.created, failed |-> FALSE] /\ cache' = cache
    BY <1>3 DEF ListWeatherAlerts, Answer
  <2>2. now <= entry.created + 2 * WeatherTTL /\ Exists(AlertsKey)
    BY <1>0, <1>2, <1>3 DEF GetFound, IsStale, IsVeryStale
  <2> HIDE DEF entry
  <2>3. wxAnswer'.of = "alerts" /\ wxAnswer'.at = entry.data  BY <2>1
  <2>4. ServedWithinBound'  BY <1>0, <1>2, <2>2, <2>3 DEF ServedWithinBound, Age
  <2> QED  BY <1>0, <2>1, <2>4 DEF WeatherInv, WxCacheOk
<1>4. CASE ~GetFound(AlertsKey) /\ fetch # NoData
  <2>1. /\ wxAnswer' = [of |-> "alerts", at |-> fetch, stamp |-> now, failed |-> FALSE]
        /\ cache' = [CachedNWSAlerts(cache, up) EXCEPT ![AlertsKey] = NewEntry(fetch, WeatherTTL)]
    BY <1>4 DEF ListWeatherAlerts, Answer
  <2> HIDE DEF fetch
  <2>2. WxCacheOk(CachedNWSAlerts(cache, up), now)  BY <1>0, WeatherWrites DEF WeatherInv
  <2>3. WxCacheOk(cache', now)
    <3> DEFINE c == CachedNWSAlerts(cache, up)
    <3>1. WxCacheOk(c, now) /\ cache' = [c EXCEPT ![AlertsKey] = NewEntry(fetch, WeatherTTL)]  BY <2>1, <2>2
    <3> HIDE DEF c
    <3> QED  BY <1>0, <1>1, <1>4, <3>1, WeatherWrites
  <2>4. wxAnswer'.of = "alerts" /\ wxAnswer'.at = fetch  BY <2>1
  <2>5. ServedWithinBound'  BY <1>0, <1>1, <1>4, <2>4 DEF ServedWithinBound, Age
  <2> QED  BY <1>0, <2>3, <2>5 DEF WeatherInv, WxCacheOk
<1>5. CASE ~GetFound(AlertsKey) /\ fetch = NoData /\ ~(Exists(AlertsKey) /\ ~IsVeryStale(AlertsKey))
  <2>1. wxAnswer'.at = NoData /\ cache' = cache  BY <1>5 DEF ListWeatherAlerts, Answer
  <2>2. ServedWithinBound'  BY <2>1 DEF ServedWithinBound
  <2> QED  BY <1>0, <2>1, <2>2 DEF WeatherInv, WxCacheOk
<1> QED  BY <1>3, <1>4, <1>5

\* Of conditions nothing is promised: see ConditionsWithinBound.
LEMMA ConditionsStep ==
    ASSUME WeatherInv, NEW c \in WxCaller, ListWeather(c) \/ WeatherFanout(c) PROVE WeatherInv'
<1>0. now \in Nat /\ now' = now  BY DEF WeatherInv, ListWeather, WeatherFanout, cacheVars
<1>1. WxCacheOk(cache', now)
  <2>1. CASE ListWeather(c)  BY <2>1 DEF WeatherInv, ListWeather, cacheVars
  <2>2. CASE WeatherFanout(c)
    <3>1. PICK ok \in SUBSET Location, up \in BOOLEAN :
            \/ cache' = cache
            \/ cache' = [(IF ok # {} THEN CachedNWSAlerts(cache, up) ELSE cache) EXCEPT
                            ![AllKey] = NewEntry(RefreshWeatherData(wxCall[c].existing, ok, up), WeatherTTL)]
      BY <2>2 DEF WeatherFanout
    <3> DEFINE warm == IF ok # {} THEN CachedNWSAlerts(cache, up) ELSE cache
               data == RefreshWeatherData(wxCall[c].existing, ok, up)
    <3>2. WxCacheOk(warm, now)  BY <1>0, WeatherWrites DEF WeatherInv
    <3>3. cache' = cache \/ cache' = [warm EXCEPT ![AllKey] = NewEntry(data, WeatherTTL)]  BY <3>1
    <3> HIDE DEF warm, data
    <3>4. WxCacheOk([warm EXCEPT ![AllKey] = NewEntry(data, WeatherTTL)], now)  BY <1>0, <3>2, WeatherWrites
    <3> QED  BY <3>3, <3>4 DEF WeatherInv
  <2> QED  BY <2>1, <2>2
<1>2. wxAnswer' = wxAnswer \/ wxAnswer'.of = "conditions"
  BY DEF ListWeather, WeatherFanout, Answer
<1>3. CASE wxAnswer' = wxAnswer  BY <1>0, <1>1, <1>3, AnswerKept
<1>4. CASE wxAnswer'.of = "conditions"
  <2>1. ServedWithinBound'  BY <1>4 DEF ServedWithinBound
  <2> QED  BY <1>0, <1>1, <2>1 DEF WeatherInv, WxCacheOk
<1> QED  BY <1>2, <1>3, <1>4

LEMMA ForecastStep ==
    ASSUME WeatherInv, NEW l \in Location, NEW r \in BOOLEAN, NEW up \in BOOLEAN, RefreshLocationForecast(l, r, up)
    PROVE  WeatherInv'
<1> DEFINE first == CachedGridURL(cache, l, r)
           moved == GridURL(cache, l, r) \notin {wxGrid, NoData} /\ up
           then == IF moved THEN AfterNotFound(first, l, r) ELSE first
<1>0. now \in Nat /\ now' = now /\ wxAnswer' = wxAnswer /\ WxCacheOk(cache, now)  BY DEF WeatherInv, RefreshLocationForecast
<1>1. \A c : WxCacheOk(c, now) => WxCacheOk(CachedGridURL(c, l, r), now)
  BY <1>0, WeatherWrites DEF CachedGridURL
<1>2. WxCacheOk(first, now)  BY <1>0, <1>1
<1>3. WxCacheOk(then, now)
  <2>1. WxCacheOk(Delete(first, GridKey(l)), now)
    <3> HIDE DEF first
    <3> QED  BY <1>0, <1>2, WeatherWrites DEF Delete
  <2>2. WxCacheOk(AfterNotFound(first, l, r), now)
    <3> HIDE DEF first
    <3> QED  BY <1>1, <2>1 DEF AfterNotFound
  <2> QED  BY <1>2, <2>2
<1>4. cache' = then \/ cache' = [then EXCEPT ![ForecastKey(l)] = NewEntry(now, ForecastTTL)]
  BY DEF RefreshLocationForecast
<1> HIDE DEF then
<1>5. WxCacheOk(cache', now)  BY <1>0, <1>3, <1>4, WeatherWrites
<1> QED  BY <1>0, <1>5, AnswerKept

LEMMA ReadForecastStep ==
    ASSUME WeatherInv, NEW l \in Location, ReadForecast(l) PROVE WeatherInv'
<1> DEFINE entry == cache[ForecastKey(l)]
<1>0. now \in Nat /\ now' = now /\ cache' = cache /\ WxCacheOk(cache, now) /\ ForecastTTL \in Nat
  BY WeatherIntervalsAssumption DEF WeatherInv, ReadForecast, cacheVars
<1>1. CASE Exists(ForecastKey(l)) /\ ~IsVeryStale(ForecastKey(l))
  <2>1. wxAnswer' = [of |-> "forecast", at |-> entry.data, stamp |-> NoData, failed |-> FALSE]
    BY <1>1 DEF ReadForecast, Answer
  <2>2. entry.created \in Nat /\ entry.data = entry.created /\ entry.ttl = ForecastTTL
    BY <1>0, <1>1 DEF WxCacheOk, Exists
  <2>3. now <= entry.created + 2 * ForecastTTL  BY <1>0, <1>1, <2>2 DEF IsVeryStale
  <2> HIDE DEF entry
  <2>4. wxAnswer'.of = "forecast" /\ wxAnswer'.at = entry.data  BY <2>1
  <2>5. ServedWithinBound'  BY <1>0, <2>2, <2>3, <2>4 DEF ServedWithinBound, Age
  <2> QED  BY <1>0, <2>5 DEF WeatherInv, WxCacheOk
<1>2. CASE ~(Exists(ForecastKey(l)) /\ ~IsVeryStale(ForecastKey(l)))
  <2>1. wxAnswer'.at = NoData  BY <1>2 DEF ReadForecast, Answer
  <2>2. ServedWithinBound'  BY <2>1 DEF ServedWithinBound
  <2> QED  BY <1>0, <2>2 DEF WeatherInv, WxCacheOk
<1> QED  BY <1>1, <1>2

\* Time makes entries older and the cleanup takes some away.
LEMMA QuietStep == ASSUME WeatherInv, WxTick \/ WxCleanup PROVE WeatherInv'
<1>1. wxAnswer' = NoData  BY DEF WxTick, WxCleanup, WxQuiet
<1>2. ServedWithinBound'  BY <1>1 DEF ServedWithinBound
<1>3. CASE WxTick
  <2>1. now' = now + 1 /\ cache' = cache  BY <1>3 DEF WxTick, Tick
  <2>2. WxCacheOk(cache, now + 1)  BY DEF WeatherInv, WxCacheOk
  <2> QED  BY <1>2, <2>1, <2>2 DEF WeatherInv, WxCacheOk
<1>4. CASE WxCleanup
  <2>1. now' = now /\ DOMAIN cache' = CacheKey /\ \A k \in CacheKey : cache'[k] \in {cache[k], NoEntry}
    BY <1>4 DEF WxCleanup, PeriodicCleanup, CleanupStale
  <2>2. WxCacheOk(cache', now)  BY <2>1, WeatherKeysAssumption DEF WeatherInv, WxCacheOk
  <2> QED  BY <1>2, <2>1, <2>2 DEF WeatherInv, WxCacheOk
<1> QED  BY <1>3, <1>4

(* RawNWSAlerts, ListWeatherAlerts, readForecast: whatever fails and whoever  *)
(* refreshes beside them, no answer is older than its fallback allows.        *)
THEOREM WeatherTheorem == WeatherSpec => []ServedWithinBound
<1>1. CacheInit /\ WxInit => WeatherInv
  <2> SUFFICES ASSUME CacheInit, WxInit PROVE WeatherInv  OBVIOUS
  <2>1. WxCacheOk(cache, now)  BY WeatherKeysAssumption DEF CacheInit, WxCacheOk
  <2>2. ServedWithinBound  BY DEF WxInit, ServedWithinBound
  <2> QED  BY <2>1, <2>2 DEF WeatherInv, CacheInit
<1>2. ASSUME WeatherInv, [ConditionsNext \/ ForecastNext]_<<cacheVars, wxVars>> PROVE WeatherInv'
  <2>1. ASSUME NEW l \in Location, ReadForecast(l) \/ \E r, up \in BOOLEAN : RefreshLocationForecast(l, r, up)
        PROVE  WeatherInv'
    BY <1>2, <2>1, ReadForecastStep, ForecastStep
  <2>2. CASE Retile \/ UNCHANGED <<cacheVars, wxVars>>
    <3>1. now' = now /\ cache' = cache /\ wxAnswer' = wxAnswer  BY <2>2 DEF Retile, cacheVars, wxVars
    <3> QED  BY <1>2, <3>1, AnswerKept DEF WeatherInv
  <2> QED  BY <1>2, <2>1, <2>2, RawStep, AlertsStep, ConditionsStep, QuietStep DEF ConditionsNext, ForecastNext
<1>3. WeatherInv => ServedWithinBound  BY DEF WeatherInv
<1> QED  BY <1>1, <1>2, <1>3, PTL DEF WeatherSpec

(***************************************************************************)
(* Roads.  What a refresh carries along is the age of its closures.         *)
(***************************************************************************)
RoadsInv ==
    /\ now \in Nat /\ DOMAIN cache = CacheKey /\ DOMAIN rdCall = RdCaller
    /\ Exists(ClosuresKey) =>
          /\ cache[ClosuresKey].created \in Nat /\ cache[ClosuresKey].created <= now
          /\ cache[ClosuresKey].ttl = RoadsTTL
    /\ \A c \in RdCaller : rdCall[c].pc = "rest" => rdCall[c].age \in Nat /\ rdCall[c].age <= 2 * RoadsTTL
    /\ ClosuresKnown

LEMMA RoadsKeys == RoadsKey # ClosuresKey /\ \A r : GoogleKey(r) # RoadsKey /\ GoogleKey(r) # ClosuresKey
<1>1. RoadsKey[1] = "roads:all" /\ ClosuresKey[1] = "cwwp2_lane_closures:active"  BY DEF RoadsKey, ClosuresKey
<1>2. \A r : GoogleKey(r)[1] = "google_routes"  BY DEF GoogleKey
<1> QED  BY <1>1, <1>2

\* A step that leaves the cache and the clock alone, and starts or ends a refresh.
LEMMA CallStep ==
    ASSUME RoadsInv, now' = now, cache' = cache, NEW c \in RdCaller, NEW call,
           rdCall' = [rdCall EXCEPT ![c] = call],
           call.pc = "rest" => call.age \in Nat /\ call.age <= 2 * RoadsTTL
    PROVE  RoadsInv'
<1>1. DOMAIN rdCall' = RdCaller /\ rdCall'[c] = call /\ \A d \in RdCaller \ {c} : rdCall'[d] = rdCall[d]
  BY DEF RoadsInv
<1>2. \A d \in RdCaller : rdCall'[d].pc = "rest" => rdCall'[d].age \in Nat /\ rdCall'[d].age <= 2 * RoadsTTL
  BY <1>1 DEF RoadsInv
<1> QED  BY <1>1, <1>2 DEF RoadsInv, ClosuresKnown, Exists

LEMMA SegmentStep ==
    ASSUME RoadsInv, NEW c \in RdCaller, NEW ok \in BOOLEAN, SegmentLaneClosures(c, ok) PROVE RoadsInv'
<1>0. now \in Nat /\ now' = now /\ RoadsTTL \in Nat /\ {RoadsKey, ClosuresKey} \subseteq CacheKey
  BY RoadsIntervalAssumption, RoadsKeysAssumption DEF RoadsInv, SegmentLaneClosures
<1>1. CASE ok
  <2> DEFINE call == [pc |-> "rest", closures |-> rdLive, age |-> now - now]
             e == NewEntry(rdLive, RoadsTTL)
  <2>1. rdCall' = [rdCall EXCEPT ![c] = call] /\ cache' = [cache EXCEPT ![ClosuresKey] = e]
    BY <1>1 DEF SegmentLaneClosures, Set
  <2>2. call.age \in Nat /\ call.age <= 2 * RoadsTTL  BY <1>0
  <2>3. e.created = now /\ e.ttl = RoadsTTL  BY DEF NewEntry
  <2> HIDE DEF call, e
  <2>4. DOMAIN rdCall' = RdCaller /\ rdCall'[c] = call /\ \A d \in RdCaller \ {c} : rdCall'[d] = rdCall[d]
    BY <2>1 DEF RoadsInv
  <2>5. DOMAIN cache' = CacheKey /\ cache'[ClosuresKey] = e /\ cache'[RoadsKey] = cache[RoadsKey]
    BY <1>0, <2>1, RoadsKeys DEF RoadsInv
  <2>6. \A d \in RdCaller : rdCall'[d].pc = "rest" => rdCall'[d].age \in Nat /\ rdCall'[d].age <= 2 * RoadsTTL
    BY <2>2, <2>4 DEF RoadsInv
  <2> QED  BY <1>0, <2>3, <2>4, <2>5, <2>6 DEF RoadsInv, ClosuresKnown, Exists
<1>2. CASE ~ok /\ Exists(ClosuresKey) /\ ~IsVeryStale(ClosuresKey)
  <2> DEFINE age == now - cache[ClosuresKey].created
             call == [pc |-> "rest", closures |-> cache[ClosuresKey].data, age |-> age]
  <2>1. rdCall' = [rdCall EXCEPT ![c] = call] /\ cache' = cache  BY <1>2 DEF SegmentLaneClosures
  <2>2. age \in Nat /\ age <= 2 * RoadsTTL  BY <1>0, <1>2 DEF RoadsInv, IsVeryStale
  <2>3. call.age = age  OBVIOUS
  <2> HIDE DEF call, age
  <2> QED  BY <1>0, <2>1, <2>2, <2>3, CallStep
<1>3. CASE ~ok /\ ~(Exists(ClosuresKey) /\ ~IsVeryStale(ClosuresKey))
  <2>1. rdCall' = [rdCall EXCEPT ![c] = RdIdle] /\ cache' = cache  BY <1>3 DEF SegmentLaneClosures
  <2>2. RdIdle.pc # "rest"  BY DEF RdIdle
  <2> QED  BY <1>0, <2>1, <2>2, CallStep
<1> QED  BY <1>1, <1>2, <1>3

LEMMA RefreshStep == ASSUME RoadsInv, NEW c \in RdCaller, RefreshRoadData(c) PROVE RoadsInv'
<1>0. /\ now \in Nat /\ now' = now /\ {RoadsKey, ClosuresKey} \subseteq CacheKey /\ rdCall[c].pc = "rest"
      /\ rdCall' = [rdCall EXCEPT ![c] = RdIdle]
  BY RoadsKeysAssumption DEF RoadsInv, RefreshRoadData
<1>1. \E answers, roads, worst :
         cache' = [CacheGoogle(cache, answers) EXCEPT
                     ![RoadsKey] = NewEntry([roads |-> roads, worst |-> worst, age |-> rdCall[c].age], RoadsTTL)]
  BY Zenon DEF RefreshRoadData
<1>2. PICK answers, roads, worst :
         cache' = [CacheGoogle(cache, answers) EXCEPT
                     ![RoadsKey] = NewEntry([roads |-> roads, worst |-> worst, age |-> rdCall[c].age], RoadsTTL)]
  BY <1>1
<1> DEFINE g == CacheGoogle(cache, answers)
           data == [roads |-> roads, worst |-> worst, age |-> rdCall[c].age]
<1>3. DOMAIN g = CacheKey /\ g[ClosuresKey] = cache[ClosuresKey]  BY <1>0, RoadsKeys DEF CacheGoogle
<1>4. NewEntry(data, RoadsTTL).data.age = rdCall[c].age  BY DEF NewEntry
<1>5. cache' = [g EXCEPT ![RoadsKey] = NewEntry(data, RoadsTTL)]  BY <1>2
<1> HIDE DEF g, data
<1>6. /\ DOMAIN cache' = CacheKey /\ cache'[ClosuresKey] = cache[ClosuresKey]
      /\ cache'[RoadsKey] = NewEntry(data, RoadsTTL)
  BY <1>0, <1>3, <1>5, RoadsKeys
<1>7. DOMAIN rdCall' = RdCaller /\ \A d \in RdCaller : rdCall'[d] \in {RdIdle, rdCall[d]}
  BY <1>0 DEF RoadsInv
<1>8. \A d \in RdCaller : rdCall'[d].pc = "rest" => rdCall'[d].age \in Nat /\ rdCall'[d].age <= 2 * RoadsTTL
  <2>1. RdIdle.pc # "rest"  BY DEF RdIdle
  <2> QED  BY <1>7, <2>1 DEF RoadsInv
<1>9. ClosuresKnown'  BY <1>0, <1>4, <1>6 DEF RoadsInv, ClosuresKnown
<1> QED  BY <1>0, <1>6, <1>7, <1>8, <1>9 DEF RoadsInv, Exists

(* segmentLaneClosures and refreshRoadData: with any number of requests       *)
(* refreshing beside the refresher, no list of roads is published that was    *)
(* not built on every district's closures, read at most two intervals before. *)
THEOREM RoadsTheorem == RoadsSpec => []ClosuresKnown
<1>1. CacheInit /\ RdInit => RoadsInv
  <2> SUFFICES ASSUME CacheInit, RdInit PROVE RoadsInv  OBVIOUS
  <2>1. ~Exists(ClosuresKey) /\ ~Exists(RoadsKey) /\ DOMAIN cache = CacheKey /\ now \in Nat
    BY RoadsKeysAssumption DEF CacheInit, Exists
  <2>2. DOMAIN rdCall = RdCaller /\ \A c \in RdCaller : rdCall[c].pc # "rest"  BY DEF RdInit, RdIdle
  <2> QED  BY <2>1, <2>2 DEF RoadsInv, ClosuresKnown
<1>2. ASSUME RoadsInv, [RdNext]_<<cacheVars, rdVars>> PROVE RoadsInv'
  <2>1. ASSUME NEW c \in RdCaller, StartRefresh(c), now' = now, cache' = cache PROVE RoadsInv'
    <3> DEFINE call == [pc |-> "closures"]
    <3>1. rdCall' = [rdCall EXCEPT ![c] = call] /\ call.pc # "rest"  BY <2>1 DEF StartRefresh
    <3> HIDE DEF call
    <3> QED  BY <1>2, <2>1, <3>1, CallStep
  <2>2. CASE UNCHANGED <<cacheVars, rdCall>>
    BY <1>2, <2>2 DEF cacheVars, RoadsInv, ClosuresKnown, Exists
  <2>3. CASE RefreshTick  BY <2>1, <2>3 DEF RefreshTick, cacheVars, RdCaller
  <2>4. ASSUME NEW c \in RoadVisitor, ListRoads(c) PROVE RoadsInv'
    BY <2>1, <2>2, <2>4 DEF ListRoads, cacheVars, RdCaller
  <2>5. CASE Tick /\ UNCHANGED rdVars
    <3>1. now' = now + 1 /\ cache' = cache /\ rdCall' = rdCall  BY <2>5 DEF Tick, rdVars
    <3> QED  BY <1>2, <3>1 DEF RoadsInv, ClosuresKnown, Exists
  <2>6. CASE PeriodicCleanup /\ UNCHANGED rdVars
    <3>1. /\ now' = now /\ DOMAIN cache' = CacheKey /\ rdCall' = rdCall
          /\ \A k \in CacheKey : cache'[k] \in {cache[k], NoEntry}
      BY <2>6 DEF PeriodicCleanup, CleanupStale, rdVars
    <3>2. cache'[RoadsKey] \in {cache[RoadsKey], NoEntry} /\ cache'[ClosuresKey] \in {cache[ClosuresKey], NoEntry}
      BY <3>1, RoadsKeysAssumption
    <3> QED  BY <1>2, <3>1, <3>2 DEF RoadsInv, ClosuresKnown, Exists
  <2>7. ASSUME NEW w \in Window, MoveWindow(w) PROVE RoadsInv'  BY <2>2, <2>7 DEF MoveWindow
  <2>8. CASE UNCHANGED <<cacheVars, rdVars>>  BY <2>2, <2>8 DEF rdVars
  <2> QED  BY <1>2, <2>3, <2>4, <2>5, <2>6, <2>7, <2>8, SegmentStep, RefreshStep DEF RdNext
<1>3. RoadsInv => ClosuresKnown  BY DEF RoadsInv
<1> QED  BY <1>1, <1>2, <1>3, PTL DEF RoadsSpec

(***************************************************************************)
(* Cameras.  The snapshot is that of the districts, and its time the least. *)
(***************************************************************************)
CameraEntry == [cams : SUBSET CameraRow, fetchedAt : Nat, err : BOOLEAN]
Fetches == [pc : {"fetching"}, got : UNION {[D -> SUBSET CameraRow] : D \in SUBSET District}, failed : SUBSET District]

CamerasInv ==
    /\ camNow \in Nat
    /\ camFetch \in {CamIdle} \cup Fetches
    /\ camDistrict \in [District -> CameraEntry]
    /\ camSnap = BuildSnapshot(camDistrict)

\* Any set of naturals has a least element.
LEMMA NatLeast == ASSUME NEW T, T \subseteq Nat, T # {} PROVE Min(T) \in T /\ \A k \in T : Min(T) <= k
<1>1. PICK n \in T : \A k \in T : <<k, n>> \notin OpToRel(<, Nat)
  BY NatLessThanWellFounded, WFMin
<1>2. \A k \in T : <<k, n>> \notin {ss \in Nat \X Nat : ss[1] < ss[2]}  BY <1>1 DEF OpToRel
<1>3. \A k \in T : ~(k < n)  BY <1>2
<1>4. \E x \in T : \A y \in T : x =< y  BY <1>3
<1> QED  BY <1>4 DEF Min

LEMMA SnapshotHonest ==
    ASSUME \A d \in District : camDistrict[d].fetchedAt \in Nat, camSnap = BuildSnapshot(camDistrict)
    PROVE  CameraStatusHonest
<1> DEFINE served == {d \in District : camDistrict[d].fetchedAt # Never}
           degraded == \E d \in District : camDistrict[d].err \/ camDistrict[d].fetchedAt = Never
           times == {camDistrict[d].fetchedAt : d \in served}
<1>1. /\ camSnap.cams = {c.id : c \in UNION {camDistrict[d].cams : d \in served}}
      /\ camSnap.status = IF served = {} THEN "UNAVAILABLE" ELSE IF degraded THEN "STALE" ELSE "OK"
      /\ camSnap.lastUpdate = IF served = {} \/ ~degraded THEN Never ELSE Min(times)
  BY DEF BuildSnapshot
<1>2. ASSUME camSnap.status = "STALE", NEW d \in District, camDistrict[d].fetchedAt # Never
      PROVE  camSnap.lastUpdate <= camDistrict[d].fetchedAt
  <2>1. served # {} /\ degraded  BY <1>1, <1>2
  <2>2. camSnap.lastUpdate = Min(times)  BY <1>1, <2>1
  <2>3. camDistrict[d].fetchedAt \in times /\ times \subseteq Nat  BY <1>2
  <2> HIDE DEF times
  <2> QED  BY <2>2, <2>3, NatLeast
<1>3. camSnap.status = "OK" => ~degraded  BY <1>1
<1>4. camSnap.status = "UNAVAILABLE" => served = {}  BY <1>1
<1>5. served = {} => camSnap.cams = {}  BY <1>1
<1> QED  BY <1>2, <1>3, <1>4, <1>5 DEF CameraStatusHonest

(* Refresh and buildSnapshot: with districts failing one by one and the clock *)
(* moving between their fetches, the status says how far the list can be      *)
(* trusted and nothing served is older than the time it claims.               *)
THEOREM CamerasTheorem == CamerasSpec => []CameraStatusHonest
<1>1. CamInit => CamerasInv
  <2> SUFFICES ASSUME CamInit PROVE CamerasInv  OBVIOUS
  <2>1. NoDistrict \in CameraEntry  BY CamerasAssumption DEF NoDistrict, CameraEntry
  <2>2. camDistrict = [d \in District |-> NoDistrict] /\ camSnap = BuildSnapshot([d \in District |-> NoDistrict])
    BY DEF CamInit
  <2>3. camDistrict \in [District -> CameraEntry] /\ camSnap = BuildSnapshot(camDistrict)  BY <2>1, <2>2
  <2> QED  BY <2>3 DEF CamInit, CamerasInv
<1>2. ASSUME CamerasInv, [CamNext]_camVars PROVE CamerasInv'
  <2>0. camNow \in Nat /\ camFetch \in {CamIdle} \cup Fetches /\ camDistrict \in [District -> CameraEntry]
    BY <1>2 DEF CamerasInv
  <2>1. ASSUME camNow' \in Nat, camFetch' \in {CamIdle} \cup Fetches, camDistrict' = camDistrict, camSnap' = camSnap
        PROVE  CamerasInv'
    BY <1>2, <2>1 DEF CamerasInv, BuildSnapshot
  <2>2. CASE StartCameraRefresh
    <3>1. [pc |-> "fetching", got |-> [d \in {} |-> {}], failed |-> {}] \in Fetches
      <4>1. [d \in {} |-> {}] \in [{} -> SUBSET CameraRow]  OBVIOUS
      <4>2. [d \in {} |-> {}] \in UNION {[D -> SUBSET CameraRow] : D \in SUBSET District}  BY <4>1
      <4> QED  BY <4>2 DEF Fetches
    <3> QED  BY <2>0, <2>1, <2>2, <3>1 DEF StartCameraRefresh
  <2>3. ASSUME NEW d \in District, NEW ok \in BOOLEAN, FetchDistrict(d, ok) PROVE CamerasInv'
    <3>1. camFetch \in Fetches  BY <2>0, <2>3 DEF FetchDistrict, CamIdle
    <3> DEFINE got == [e \in DOMAIN camFetch.got \cup {d} |-> IF e = d THEN ServableCameras(d) ELSE camFetch.got[e]]
    <3>2. PICK D \in SUBSET District : camFetch.got \in [D -> SUBSET CameraRow]  BY <3>1 DEF Fetches
    <3>3. got \in [D \cup {d} -> SUBSET CameraRow]
      <4>1. ServableCameras(d) \in SUBSET CameraRow  BY DEF ServableCameras
      <4> QED  BY <3>2, <4>1
    <3>4. got \in UNION {[E -> SUBSET CameraRow] : E \in SUBSET District}  BY <3>3
    <3>5. \/ camFetch' = [camFetch EXCEPT !.got = got]
          \/ camFetch' = [camFetch EXCEPT !.failed = camFetch.failed \cup {d}]
      BY <2>3 DEF FetchDistrict
    <3> HIDE DEF got
    <3>6. camFetch' \in Fetches
      <4>1. [camFetch EXCEPT !.got = got] \in Fetches  BY <3>1, <3>4 DEF Fetches
      <4>2. [camFetch EXCEPT !.failed = camFetch.failed \cup {d}] \in Fetches  BY <3>1 DEF Fetches
      <4> QED  BY <3>5, <4>1, <4>2
    <3> QED  BY <2>0, <2>1, <2>3, <3>6 DEF FetchDistrict
  <2>4. CASE MergeCameras
    <3>1. /\ camDistrict' = [d \in District |-> MergeDistrict(camDistrict[d], d)]
          /\ camSnap' = BuildSnapshot(camDistrict') /\ camNow' = camNow /\ camFetch' = CamIdle
          /\ DOMAIN camFetch.got \cup camFetch.failed = District
      BY <2>4 DEF MergeCameras
    <3>2. camFetch \in Fetches  BY <2>0, <2>4 DEF MergeCameras, CamIdle
    <3>3. ASSUME NEW d \in District PROVE MergeDistrict(camDistrict[d], d) \in CameraEntry
      <4>1. camDistrict[d] \in CameraEntry  BY <2>0
      <4>2. CASE d \in camFetch.failed
        <5>1. MergeDistrict(camDistrict[d], d) = [camDistrict[d] EXCEPT !.err = TRUE]  BY <4>2 DEF MergeDistrict
        <5> QED  BY <4>1, <5>1 DEF CameraEntry
      <4>3. CASE d \notin camFetch.failed
        <5>1. camFetch.got[d] \in SUBSET CameraRow
          <6>1. PICK D \in SUBSET District : camFetch.got \in [D -> SUBSET CameraRow]  BY <3>2 DEF Fetches
          <6> QED  BY <3>1, <4>3, <6>1
        <5>2. MergeDistrict(camDistrict[d], d) = [cams |-> camFetch.got[d], fetchedAt |-> camNow, err |-> FALSE]
          BY <4>3 DEF MergeDistrict
        <5> QED  BY <2>0, <5>1, <5>2 DEF CameraEntry
      <4> QED  BY <4>2, <4>3
    <3>4. camDistrict' \in [District -> CameraEntry]  BY <3>1, <3>3
    <3> QED  BY <2>0, <3>1, <3>4 DEF CamerasInv, BuildSnapshot
  <2>5. CASE CamTick  BY <2>0, <2>1, <2>5 DEF CamTick
  <2>6. ASSUME NEW c \in CameraRow, ToggleCamera(c) PROVE CamerasInv'  BY <2>0, <2>1, <2>6 DEF ToggleCamera
  <2>7. ASSUME NEW p \in CamPlace, ListCameras(p) PROVE CamerasInv'  BY <2>0, <2>1, <2>7 DEF ListCameras
  <2>8. CASE UNCHANGED camVars  BY <2>0, <2>1, <2>8 DEF camVars
  <2> QED  BY <1>2, <2>2, <2>3, <2>4, <2>5, <2>6, <2>7, <2>8 DEF CamNext
<1>3. CamerasInv => CameraStatusHonest
  <2>1. CamerasInv => \A d \in District : camDistrict[d].fetchedAt \in Nat  BY DEF CamerasInv, CameraEntry
  <2> QED  BY <2>1, SnapshotHonest DEF CamerasInv
<1> QED  BY <1>1, <1>2, <1>3, PTL DEF CamerasSpec

(***************************************************************************)
(* The condition layers.  A complete layer tells of every checkpoint; a      *)
(* cached one, of every checkpoint that has not changed since it was built.  *)
(***************************************************************************)
Covered(c) == InHzArea(c.at) \/ c.at = NoPoint

HazardsInv ==
    /\ now \in Nat /\ DOMAIN cache = CacheKey
    /\ hzSince \in [Checkpoint -> Nat] /\ (\A c \in Checkpoint : hzSince[c] <= now) /\ DOMAIN hzStatus = Checkpoint
    /\ LET e == cache[HzKey("chain_control")] IN
       Exists(HzKey("chain_control")) =>
          /\ e.created \in Nat /\ e.created <= now /\ e.ttl = HzTTL /\ e.data.partial \in BOOLEAN
          /\ ~e.data.partial => \A c \in Checkpoint : Covered(c) /\ hzSince[c] < e.created => Told(c, e.data.features)
    /\ LayerErrorIsNoAllClear

\* A file that is fetched without an error is fetched whole.
LEMMA FetchedWhole ==
    ASSUME NEW file, FetchChainControls(file).err = "none" PROVE FetchChainControls(file).rows = file.rows
<1>1. \A rows : Fetched(rows).err = "none" /\ Fetched(rows).rows = rows  BY DEF Fetched
<1>2. \A why : Failed(why).err = why  BY DEF Failed
<1>3. FetchStamped(file).err = "none" => FetchStamped(file) = Fetched(file.rows)
  <2>1. CASE GetFile(file).err # "none"  BY <2>1 DEF FetchStamped
  <2>2. CASE GetFile(file).err = "none" /\ Parse(file).err # "none"  BY <2>2 DEF FetchStamped
  <2>3. CASE GetFile(file).err = "none" /\ Parse(file).err = "none" /\ CheckFresh(file) # "none"
    <3>1. FetchStamped(file) = Failed(CheckFresh(file))  BY <2>3 DEF FetchStamped
    <3> QED  BY <1>2, <2>3, <3>1
  <2>4. CASE GetFile(file).err = "none" /\ Parse(file).err = "none" /\ CheckFresh(file) = "none"
    BY <2>4 DEF FetchStamped
  <2> QED  BY <2>1, <2>2, <2>3, <2>4
<1> QED  BY <1>1, <1>3 DEF FetchChainControls

\* chainControlsCWWP2 without an error: every district's checkpoints, merged.
LEMMA ControlsWhole ==
    ASSUME NEW files, NEW kml, ChainControlsCWWP2(files, kml).err = "none"
    PROVE  LET rows == UNION {FetchChainControls(files[d]).rows : d \in DOMAIN files}
               active == {cp \in rows : LevelActive(ParseLevel(cp.status))
                                        \/ (ParseLevel(cp.status) = "unknown" /\ cp.inService)}
               quiet == {cp \in rows : ParseLevel(cp.status) = "R-0"}
           IN  /\ \A d \in DOMAIN files : FetchChainControls(files[d]).err = "none"
               /\ ChainControlsCWWP2(files, kml).controls =
                     MergeKML({ChainControlFromCWWP2(cp) : cp \in active},
                              {ChainControlFromCWWP2(cp) : cp \in quiet}, ParseKMLFeed(kml).rows)
<1> DEFINE cwDown == \E d \in DOMAIN files : FetchChainControls(files[d]).err # "none"
           rows == UNION {FetchChainControls(files[d]).rows : d \in DOMAIN files}
           read == IF cwDown THEN {} ELSE rows
           active(S) == {cp \in S : LevelActive(ParseLevel(cp.status))
                                    \/ (ParseLevel(cp.status) = "unknown" /\ cp.inService)}
           quiet(S) == {cp \in S : ParseLevel(cp.status) = "R-0"}
           marks == ParseKMLFeed(kml).rows
           kmlDown == ParseKMLFeed(kml).err # "none"
           merged(S) == MergeKML({ChainControlFromCWWP2(cp) : cp \in active(S)},
                                 {ChainControlFromCWWP2(cp) : cp \in quiet(S)}, marks)
<1>1. ChainControlsCWWP2(files, kml) =
        IF cwDown /\ (kmlDown \/ marks = {}) THEN [err |-> "hard", controls |-> {}]
        ELSE IF cwDown THEN [err |-> "partial", controls |-> {ParseChainControlDetail(m) : m \in marks}]
        ELSE IF kmlDown THEN [err |-> "partial", controls |-> {ChainControlFromCWWP2(cp) : cp \in active(read)}]
        ELSE [err |-> "none", controls |-> merged(read)]
  BY DEF ChainControlsCWWP2
<1> HIDE DEF merged, marks, kmlDown, active
<1>2. ~cwDown
  <2> HIDE DEF cwDown
  <2> QED  BY <1>1
<1>3. ChainControlsCWWP2(files, kml).controls = merged(read) /\ read = rows
  <2>1. read = rows  BY <1>2
  <2> HIDE DEF cwDown, read, rows
  <2> QED  BY <1>1, <1>2, <2>1
<1> QED  BY <1>2, <1>3 DEF merged, marks, active

\* What the merge with cc.kml leaves of a checkpoint: itself, or what stands in for it.
LEMMA Merged ==
    ASSUME NEW cw, NEW quiet, NEW marks, NEW c \in cw
    PROVE  LET all == MergeKML(cw, quiet, marks)
           IN  \/ c \in all
               \/ /\ c.unrecognized
                  /\ \E k \in all : ~k.unrecognized /\ SameCheckpoint(k, c) /\ \E m \in marks : k.at = m.at
<1> DEFINE keep == {m \in marks : IsKMLSupplement(m) \/ ~AtActiveCheckpoint(ParseChainControlDetail(m), cw)}
           stand(m) == LET k == ParseChainControlDetail(m)
                       IN  [k EXCEPT !.uncorroborated = ~IsKMLSupplement(m) /\ SameCheckpointAny(k, quiet)]
           kept == {stand(m) : m \in keep}
           all == {x \in cw : ~(x.unrecognized /\ SameCheckpointAny(x, kept))} \cup kept
<1>1. MergeKML(cw, quiet, marks) = all  BY DEF MergeKML
<1>2. \A m : stand(m).unrecognized = FALSE /\ stand(m).at = m.at  BY DEF ParseChainControlDetail
<1> HIDE DEF stand, keep
<1>3. CASE c \notin all
  <2>1. c.unrecognized /\ SameCheckpointAny(c, kept)  BY <1>3
  <2>2. PICK k \in kept : SameCheckpoint(k, c)  BY <2>1 DEF SameCheckpointAny
  <2>3. PICK m \in keep : k = stand(m)  BY <2>2
  <2>4. m \in marks  BY DEF keep
  <2>5. ~k.unrecognized /\ k.at = m.at /\ k \in all  BY <1>2, <2>3
  <2> QED  BY <1>1, <2>1, <2>2, <2>4, <2>5
<1> QED  BY <1>1, <1>3

\* chainControls: a layer without an error tells of every checkpoint it covers.
LEMMA LayerTells ==
    ASSUME NEW in \in HzInputs, ChainControlLayer(in).err = "none", NEW c \in Checkpoint, Covered(c)
    PROVE  Told(c, ChainControlLayer(in).features)
<1> DEFINE files == [d \in HzDistrict |-> CcFile(d, in.file[d])]
           kml == KmlFile(in.kml, in.marks)
           got == ParseChainControlsDetailed(files, kml)
           unplaced == {k \in got.controls : k.at = NoPoint}
           here == {k \in got.controls : InHzArea(k.at)}
           unrecognized == {k \in here : k.unrecognized}
           feature(k) == [at |-> k.at, level |-> k.level, severity |-> IF k.closed THEN MINOR ELSE FromChainLevel(k.level)]
           features == {feature(k) : k \in here \ unrecognized}
<1>1. ChainControlLayer(in) =
        IF got.err = "hard" THEN Built("hard", {})
        ELSE Built(IF got.err = "partial" \/ unrecognized # {} \/ unplaced # {} THEN "partial" ELSE "none", features)
  BY DEF ChainControlLayer
<1>2. \A err, f : Built(err, f).err = err /\ Built(err, f).features = f  BY DEF Built
<1>3. /\ got.err \notin {"hard", "partial"} /\ unrecognized = {} /\ unplaced = {}
      /\ ChainControlLayer(in).features = features
  <2> HIDE DEF got, unplaced, unrecognized, features
  <2> QED  BY <1>1, <1>2
<1>4. \A k \in got.controls : k.at # NoPoint  BY <1>3
<1>5. \A k \in got.controls : InHzArea(k.at) =>
         ~k.unrecognized /\ feature(k) \in features /\ feature(k).at = k.at /\ feature(k).level = k.level
  <2> SUFFICES ASSUME NEW k \in got.controls, InHzArea(k.at)
               PROVE  ~k.unrecognized /\ feature(k) \in features /\ feature(k).at = k.at /\ feature(k).level = k.level
    OBVIOUS
  <2>1. k \in here /\ k \notin unrecognized  BY <1>3
  <2>2. feature(k).at = k.at /\ feature(k).level = k.level  OBVIOUS
  <2> HIDE DEF feature, got
  <2> QED  BY <2>1, <2>2
<1> DEFINE row == [at |-> c.at, dir |-> c.dir, inService |-> c.inService, status |-> hzStatus[c], name |-> c.name]
           control == ChainControlFromCWWP2(row)
           rows == UNION {FetchChainControls(files[d]).rows : d \in DOMAIN files}
           active == {cp \in rows : LevelActive(ParseLevel(cp.status))
                                    \/ (ParseLevel(cp.status) = "unknown" /\ cp.inService)}
           quiet == {cp \in rows : ParseLevel(cp.status) = "R-0"}
           cw == {ChainControlFromCWWP2(cp) : cp \in active}
           calm == {ChainControlFromCWWP2(cp) : cp \in quiet}
           marks == ParseKMLFeed(kml).rows
<1>6. c.district \in HzDistrict /\ DOMAIN files = HzDistrict  BY HazardsAssumption
<1>7. got = ChainControlsCWWP2(files, kml)
  <2> HIDE DEF files, kml
  <2> QED  BY <1>6 DEF ParseChainControlsDetailed
<1>8. got.err = "none"
  <2> HIDE DEF files, kml
  <2>1. ChainControlsCWWP2(files, kml).err \in {"hard", "partial", "none"}  BY DEF ChainControlsCWWP2
  <2> QED  BY <1>3, <1>7, <2>1
<1>9. (\A d \in DOMAIN files : FetchChainControls(files[d]).err = "none") /\ got.controls = MergeKML(cw, calm, marks)
  <2> HIDE DEF files, kml
  <2> QED  BY <1>7, <1>8, ControlsWhole
<1>10. row \in rows
  <2>1. FetchChainControls(files[c.district]).rows = files[c.district].rows  BY <1>6, <1>9, FetchedWhole
  <2>2. files[c.district] = CcFile(c.district, in.file[c.district])  BY <1>6
  <2>3. row \in CcFile(c.district, in.file[c.district]).rows  BY DEF CcFile
  <2> HIDE DEF row, files
  <2> QED  BY <1>6, <2>1, <2>2, <2>3
<1>11. /\ control.at = c.at /\ row.status = hzStatus[c] /\ row.inService = c.inService
       /\ control.unrecognized = ~LevelActive(ParseLevel(hzStatus[c]))
       /\ LevelActive(ParseLevel(hzStatus[c])) => control.level = hzStatus[c]
  BY DEF ChainControlFromCWWP2
<1>12. \A m \in marks : m.at \in Int
  <2>1. in.marks \subseteq KmlMark  BY DEF HzInputs
  <2>2. ASSUME NEW m \in marks PROVE m \in in.marks /\ m.at # NoPoint
    BY DEF ParseKMLFeed, KmlFile, Failed, Fetched
  <2> QED  BY <2>1, <2>2, HazardsAssumption
<1> HIDE DEF got, rows, row, control, features, feature, marks, files, kml
<1>13. ASSUME LevelActive(hzStatus[c])
       PROVE  c.at # NoPoint /\ \E f \in features : f.at = c.at /\ f.level = hzStatus[c]
  <2>1. LevelActive(ParseLevel(hzStatus[c]))  BY <1>13 DEF ParseLevel, LevelActive
  <2>2. row \in active /\ control \in cw  BY <1>10, <1>11, <2>1 DEF control
  <2>3. control \in got.controls
    <3> HIDE DEF cw, calm
    <3>1. control \in MergeKML(cw, calm, marks) \/ control.unrecognized  BY <2>2, Merged
    <3> QED  BY <1>9, <1>11, <2>1, <3>1
  <2>4. c.at # NoPoint /\ InHzArea(control.at)  BY <1>4, <1>11, <2>3 DEF Covered
  <2> QED  BY <1>5, <1>11, <2>1, <2>3, <2>4
<1>14. ASSUME hzStatus[c] = "junk", c.inService, c.at = NoPoint \/ WellInside(c.at)
       PROVE  c.at # NoPoint /\ \E f \in features : f.at - c.at <= SameSpot /\ c.at - f.at <= SameSpot
  <2>1. ParseLevel(hzStatus[c]) = "unknown" /\ ~LevelActive(ParseLevel(hzStatus[c]))
    BY <1>14 DEF ParseLevel, LevelActive
  <2>2. row \in active /\ control \in cw  BY <1>10, <1>11, <1>14, <2>1 DEF control
  <2>3. control \notin got.controls
    <3> SUFFICES ASSUME control \in got.controls PROVE FALSE  OBVIOUS
    <3>1. InHzArea(control.at)  BY <1>4, <1>11 DEF Covered
    <3> QED  BY <1>5, <1>11, <2>1, <3>1
  <2>4. PICK k \in got.controls : ~k.unrecognized /\ SameCheckpoint(k, control) /\ \E m \in marks : k.at = m.at
    <3> HIDE DEF cw, calm
    <3>1. \/ control \in MergeKML(cw, calm, marks)
          \/ \E k \in MergeKML(cw, calm, marks) :
                ~k.unrecognized /\ SameCheckpoint(k, control) /\ \E m \in marks : k.at = m.at
      BY <2>2, Merged
    <3> QED  BY <1>9, <2>3, <3>1
  <2>5. /\ c.at # NoPoint /\ k.at \in Int /\ c.at \in Int
        /\ k.at - c.at <= SameSpot /\ c.at - k.at <= SameSpot
    BY <1>11, <1>12, <2>4, HazardsAssumption DEF SameCheckpoint
  <2>6. InHzArea(k.at)
    BY <1>4, <1>14, <2>5, HazardsAssumption DEF WellInside, InHzArea
  <2> QED  BY <1>5, <2>5, <2>6
<1> QED  BY <1>3, <1>13, <1>14 DEF Told

\* What a step keeps when neither the clock, the signs nor the chain entry change.
LEMMA EntryKept ==
    ASSUME HazardsInv, now' = now, hzStatus' = hzStatus, hzSince' = hzSince, DOMAIN cache' = CacheKey,
           cache'[HzKey("chain_control")] \in {cache[HzKey("chain_control")], NoEntry}, LayerErrorIsNoAllClear'
    PROVE  HazardsInv'
BY DEF HazardsInv, Exists, Told

LEMMA HazardKeys == \A l, m \in HzLayer : HzKey(l) = HzKey(m) => l = m
<1>1. \A l \in HzLayer : HzKey(l)[2] = l  BY DEF HzKey
<1> QED  BY <1>1

LEMMA ServeStep ==
    ASSUME HazardsInv, NEW layer \in HzLayer, ServeFresh(layer) PROVE HazardsInv'
<1> DEFINE e == cache[HzKey(layer)]
           status == IF e.data.partial THEN "STALE" ELSE "OK"
<1>0. /\ now' = now /\ cache' = cache /\ hzStatus' = hzStatus /\ hzSince' = hzSince
      /\ Exists(HzKey(layer)) /\ now < e.created + e.ttl
      /\ hzAnswer' = [layer |-> layer, status |-> status, features |-> e.data.features, fetched |-> "cache"]
  BY DEF ServeFresh, cacheVars, Finalize, GetWithMetadata
<1>1. /\ hzAnswer'.layer = layer /\ hzAnswer'.status = status /\ hzAnswer'.features = e.data.features
      /\ hzAnswer'.fetched = "cache"
  <2> HIDE DEF status, e
  <2> QED  BY <1>0
<1>2. LayerErrorIsNoAllClear'
  <2>1. ASSUME layer = "chain_control", status = "OK", NEW c \in Checkpoint, Covered(c), now > hzSince[c] + HzTTL
        PROVE  Told(c, e.data.features)
    <3>1. /\ e.created \in Nat /\ e.ttl = HzTTL
          /\ ~e.data.partial => \A d \in Checkpoint : Covered(d) /\ hzSince[d] < e.created => Told(d, e.data.features)
      BY <1>0, <2>1 DEF HazardsInv
    <3>2. ~e.data.partial  BY <2>1
    <3>3. hzSince[c] < e.created
      <4>1. hzSince[c] \in Nat /\ now \in Nat /\ HzTTL \in Nat  BY HazardsAssumption DEF HazardsInv
      <4> HIDE DEF e
      <4> QED  BY <1>0, <2>1, <3>1, <4>1
    <3> QED  BY <2>1, <3>1, <3>2, <3>3
  <2> HIDE DEF e, status
  <2> QED  BY <1>0, <1>1, <2>1 DEF LayerErrorIsNoAllClear, Told, Covered
<1>3. DOMAIN cache' = CacheKey  BY <1>0 DEF HazardsInv
<1> QED  BY <1>0, <1>2, <1>3, EntryKept

LEMMA BuildStep ==
    ASSUME HazardsInv, NEW layer \in HzLayer, NEW in \in HzInputs, BuildLayer(layer, in) PROVE HazardsInv'
<1> DEFINE b == Build(layer, in)
           key == HzKey("chain_control")
           status == IF b.err = "partial" THEN "STALE" ELSE "OK"
           data == [features |-> b.features, partial |-> b.err = "partial"]
           e == NewEntry(data, LayerTTL(layer))
<1>0. /\ now' = now /\ hzStatus' = hzStatus /\ hzSince' = hzSince
      /\ IF b.err = "hard" THEN Fallback(layer) ELSE Finalize(layer, status, b.features, "build")
      /\ cache' = cache \/ (b.err # "hard" /\ cache' = [cache EXCEPT ![HzKey(layer)] = e])
  BY DEF BuildLayer, Set
<1>1. now \in Nat /\ HzTTL \in Nat /\ key \in CacheKey /\ HzKey(layer) \in CacheKey /\ DOMAIN cache = CacheKey
  BY HazardsAssumption, HazardKeysAssumption DEF HazardsInv, HzLayer
<1>2. layer = "chain_control" => b = ChainControlLayer(in) /\ LayerTTL(layer) = HzTTL  BY DEF Build, LayerTTL
<1>3. layer = "chain_control" => b.err \in {"hard", "partial", "none"}
  <2>1. ChainControlLayer(in).err \in {"hard", "partial", "none"}  BY DEF ChainControlLayer, Built
  <2> QED  BY <1>2, <2>1
<1>4. ASSUME layer = "chain_control", b.err = "none", NEW c \in Checkpoint, Covered(c) PROVE Told(c, b.features)
  BY <1>2, <1>4, LayerTells
<1>5. e.created = now /\ e.ttl = LayerTTL(layer) /\ e.data.features = b.features /\ e.data.partial = (b.err = "partial")
  BY DEF NewEntry
<1> HIDE DEF b, e, status
<1>6. LayerErrorIsNoAllClear'
  <2>1. CASE b.err = "hard"
    <3>1. Fallback(layer)  BY <1>0, <2>1
    <3>2. /\ hzAnswer'.layer = layer /\ hzAnswer'.status \in {"STALE", "UNAVAILABLE"}
          /\ (hzAnswer'.status = "UNAVAILABLE") = (hzAnswer'.features = {})
      BY <3>1 DEF Fallback, Finalize
    <3> QED  BY <3>2 DEF LayerErrorIsNoAllClear
  <2>2. CASE b.err # "hard"
    <3>1. /\ hzAnswer'.layer = layer /\ hzAnswer'.status = status /\ hzAnswer'.features = b.features
          /\ hzAnswer'.fetched = "build"
      BY <1>0, <2>2 DEF Finalize
    <3>2. layer = "chain_control" /\ status = "OK" => b.err = "none"  BY <1>3, <2>2 DEF status
    <3> QED  BY <1>0, <1>4, <3>1, <3>2 DEF LayerErrorIsNoAllClear, Told, Covered
  <2> QED  BY <2>1, <2>2
<1>7. CASE cache'[key] = cache[key] /\ DOMAIN cache' = CacheKey
  <2> QED  BY <1>0, <1>6, <1>7, EntryKept
<1>8. CASE layer = "chain_control" /\ b.err # "hard" /\ cache' = [cache EXCEPT ![key] = e]
  <2>1. DOMAIN cache' = CacheKey /\ cache'[key] = e  BY <1>1, <1>8
  <2>2. e.data.partial \in BOOLEAN /\ (~e.data.partial => b.err = "none")  BY <1>3, <1>5, <1>8
  <2>3. ASSUME NEW c \in Checkpoint, Covered(c), b.err = "none" PROVE Told(c, cache[key].data.features)'
    <3>1. Told(c, b.features)  BY <1>4, <1>8, <2>3
    <3>2. cache'[key].data.features = b.features  BY <1>5, <2>1
    <3> QED  BY <1>0, <3>1, <3>2 DEF Told
  <2>4. /\ cache'[key].created = now /\ cache'[key].ttl = HzTTL /\ cache'[key].data.partial \in BOOLEAN
        /\ ~cache'[key].data.partial => b.err = "none"
    BY <1>2, <1>5, <1>8, <2>1, <2>2
  <2> QED  BY <1>0, <1>1, <1>6, <2>1, <2>3, <2>4 DEF HazardsInv, Covered
<1>9. layer # "chain_control" => HzKey(layer) # key  BY HazardKeys DEF HzLayer
<1>10. (cache'[key] = cache[key] /\ DOMAIN cache' = CacheKey)
       \/ (layer = "chain_control" /\ b.err # "hard" /\ cache' = [cache EXCEPT ![key] = e])
  BY <1>0, <1>1, <1>9
<1> QED  BY <1>7, <1>8, <1>10

\* A checkpoint that changes is no longer one the cached layer tells of.
LEMMA ChangeStep ==
    ASSUME HazardsInv, NEW c \in Checkpoint, NEW s \in HzStatuses, ChangeCheckpoint(c, s) PROVE HazardsInv'
<1>0. /\ hzStatus' = [hzStatus EXCEPT ![c] = s] /\ hzSince' = [hzSince EXCEPT ![c] = now]
      /\ hzAnswer' = [layer |-> "none"] /\ now' = now /\ cache' = cache
  BY DEF ChangeCheckpoint, cacheVars
<1>1. LayerErrorIsNoAllClear'  BY <1>0 DEF LayerErrorIsNoAllClear
<1>2. /\ hzSince' \in [Checkpoint -> Nat] /\ hzSince'[c] = now /\ DOMAIN hzStatus' = Checkpoint
      /\ \A d \in Checkpoint \ {c} : hzSince'[d] = hzSince[d] /\ hzStatus'[d] = hzStatus[d]
  BY <1>0 DEF HazardsInv
<1>3. \A d \in Checkpoint : hzSince'[d] <= now  BY <1>2 DEF HazardsInv
<1> DEFINE e == cache[HzKey("chain_control")]
<1>4. ASSUME Exists(HzKey("chain_control")), ~e.data.partial, NEW d \in Checkpoint, Covered(d), hzSince'[d] < e.created
      PROVE  Told(d, e.data.features)'
  <2>1. e.created \in Nat /\ e.created <= now /\ now \in Nat  BY <1>4 DEF HazardsInv
  <2>2. d # c  BY <1>2, <1>4, <2>1
  <2>3. Told(d, e.data.features)  BY <1>2, <1>4, <2>2 DEF HazardsInv
  <2> QED  BY <1>0, <1>2, <2>2, <2>3 DEF Told
<1> QED  BY <1>0, <1>1, <1>2, <1>3, <1>4 DEF HazardsInv, Exists, Covered

(* buildLayer, chainControls, ParseChainControlsDetailed: whichever files are *)
(* down, frozen or garbled, and whatever is cached, a chain-control layer     *)
(* that says OK tells of every checkpoint that has stood as it is for longer  *)
(* than the cache may lag, and a failed build never reads as nothing to show. *)
THEOREM LayersTheorem == HazardsSpec => []LayerErrorIsNoAllClear
<1>1. CacheInit /\ HzInit => HazardsInv
  <2> SUFFICES ASSUME CacheInit, HzInit PROVE HazardsInv  OBVIOUS
  <2>1. DOMAIN cache = CacheKey /\ now = 0 /\ ~Exists(HzKey("chain_control"))
    BY HazardKeysAssumption DEF CacheInit, Exists, HzLayer
  <2>2. hzAnswer.layer = "none" /\ DOMAIN hzStatus = Checkpoint /\ hzSince \in [Checkpoint -> Nat]
        /\ \A c \in Checkpoint : hzSince[c] <= now
    BY <2>1 DEF HzInit
  <2>3. LayerErrorIsNoAllClear  BY <2>2 DEF LayerErrorIsNoAllClear
  <2> QED  BY <2>1, <2>2, <2>3 DEF HazardsInv
<1>2. ASSUME HazardsInv, [HzNext(HzLayer, HzStatuses, HzInputs)]_<<cacheVars, hzVars>> PROVE HazardsInv'
  <2>1. CASE HzTick
    <3>1. now' = now + 1 /\ cache' = cache /\ hzStatus' = hzStatus /\ hzSince' = hzSince /\ hzAnswer' = [layer |-> "none"]
      BY <2>1 DEF HzTick, Tick
    <3>2. LayerErrorIsNoAllClear'  BY <3>1 DEF LayerErrorIsNoAllClear
    <3>3. \A c \in Checkpoint : hzSince[c] <= now + 1  BY <1>2 DEF HazardsInv
    <3> QED  BY <1>2, <3>1, <3>2, <3>3 DEF HazardsInv, Exists, Told
  <2>2. ASSUME now' = now, hzStatus' = hzStatus, hzSince' = hzSince, hzAnswer' = hzAnswer PROVE LayerErrorIsNoAllClear'
    BY <1>2, <2>2 DEF HazardsInv, LayerErrorIsNoAllClear, Told
  <2>3. CASE HzCleanup
    <3>1. now' = now /\ hzStatus' = hzStatus /\ hzSince' = hzSince /\ hzAnswer' = hzAnswer
      BY <2>3 DEF HzCleanup, PeriodicCleanup, hzVars
    <3>2. DOMAIN cache' = CacheKey /\ \A k \in CacheKey : cache'[k] \in {cache[k], NoEntry}
      BY <2>3 DEF HzCleanup, PeriodicCleanup, CleanupStale
    <3>3. HzKey("chain_control") \in CacheKey  BY HazardKeysAssumption DEF HzLayer
    <3> QED  BY <1>2, <2>2, <3>1, <3>2, <3>3, EntryKept
  <2>4. CASE UNCHANGED <<cacheVars, hzVars>>
    BY <1>2, <2>2, <2>4, EntryKept DEF cacheVars, hzVars, HazardsInv
  <2> QED  BY <1>2, <2>1, <2>3, <2>4, ServeStep, BuildStep, ChangeStep DEF HzNext
<1>3. HazardsInv => LayerErrorIsNoAllClear  BY DEF HazardsInv
<1> QED  BY <1>1, <1>2, <1>3, PTL DEF HazardsSpec
=============================================================================
