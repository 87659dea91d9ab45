------------------------------ MODULE Weather ------------------------------
(***************************************************************************)
(* services/weather.go, weather_nws.go, weather_forecast.go and the weather *)
(* part of the periodic refresher.  A datum is the time it was fetched:     *)
(* what the properties tell apart is how old an answer really is.           *)
(*                                                                         *)
(* One request to NWS and the bookkeeping around it is one step; the        *)
(* OpenWeather fan-out of ListWeather, which reads the old entry before it  *)
(* and writes the new one after it, is two.                                 *)
(***************************************************************************)
EXTENDS Cache, FiniteSets, FiniteSetsExt

CONSTANTS Location,      \* weather.locations
          WxCaller,      \* concurrent callers: requests and the refresher
          WeatherTTL,    \* weather.refreshInterval
          ForecastTTL,   \* weather.forecast.refreshInterval
          GridURLTTL,    \* gridURLTTL
          NoData         \* nothing, or not fetched

ASSUME WeatherIntervalsAssumption == {WeatherTTL, ForecastTTL, GridURLTTL} \subseteq Nat

VARIABLES wxCall,     \* [WxCaller -> a ListWeather refresh in progress]
          wxAnswer,   \* the latest answer: [of, at, stamp, failed]
          wxGrid,     \* the gridpoint tiling NWS serves: 0 or 1
          wxWarmed    \* ghost: the latest forecast tick reached NWS throughout

wxVars == <<wxCall, wxAnswer, wxGrid, wxWarmed>>

WxIdle == [pc |-> "idle"]
NWSKey == <<"nws:alerts">>
AllKey == <<"weather:all">>
AlertsKey == <<"weather:alerts">>
ForecastKey(l) == <<"nws:forecast", l>>
GridKey(l) == <<"nws:gridurl", l>>

ASSUME WeatherKeysAssumption ==
    /\ {NWSKey, AllKey, AlertsKey} \subseteq CacheKey
    /\ \A l \in Location : {ForecastKey(l), GridKey(l)} \subseteq CacheKey

\* An answer: of which kind, when its oldest datum was fetched, the time it
\* claims, and whether it carries an error.
Answer(of, at, stamp, failed) == wxAnswer' = [of |-> of, at |-> at, stamp |-> stamp, failed |-> failed]

(***************************************************************************)
(* The shared NWS alert list                                               *)
(***************************************************************************)
\* fetchNWSAlerts: the fetch time of the list it returns, or NoData (an error).
FetchNWSAlerts(nwsUp) ==
    IF GetFound(NWSKey) THEN cache[NWSKey].created ELSE IF nwsUp THEN now ELSE NoData

\* ... and what it leaves in the cache c.
CachedNWSAlerts(c, nwsUp) ==
    IF ~GetFound(NWSKey) /\ nwsUp THEN [c EXCEPT ![NWSKey] = NewEntry(now, WeatherTTL)] ELSE c

\* getNWSAlerts: last-good inside the very-stale bound, else no alerts.
GetNWSAlerts(nwsUp) ==
    IF FetchNWSAlerts(nwsUp) # NoData THEN FetchNWSAlerts(nwsUp)
    ELSE IF Exists(NWSKey) /\ ~IsVeryStale(NWSKey) THEN cache[NWSKey].created ELSE NoData

\* The fallback without its error: stale alerts pass for current ones.
RawNWSAlertsSilent(nwsUp) ==
    /\ cache' = CachedNWSAlerts(cache, nwsUp)
    /\ IF GetNWSAlerts(nwsUp) # NoData
       THEN Answer("raw", GetNWSAlerts(nwsUp), now, FALSE)
       ELSE Answer("raw", NoData, NoData, TRUE)
    /\ UNCHANGED <<now, wxCall, wxGrid, wxWarmed>>

\* RawNWSAlerts: data, error, or both.
RawNWSAlerts(nwsUp) ==
    /\ cache' = CachedNWSAlerts(cache, nwsUp)
    /\ IF FetchNWSAlerts(nwsUp) # NoData
       THEN Answer("raw", FetchNWSAlerts(nwsUp), FetchNWSAlerts(nwsUp), FALSE)
       ELSE IF Exists(NWSKey) /\ ~IsVeryStale(NWSKey)
            THEN Answer("raw", cache[NWSKey].created, cache[NWSKey].created, TRUE)
            ELSE Answer("raw", NoData, NoData, TRUE)
    /\ UNCHANGED <<now, wxCall, wxGrid, wxWarmed>>

\* ListWeatherAlerts caches the projection of a list that may itself be cached.
ListWeatherAlerts(nwsUp) ==
    /\ IF GetFound(AlertsKey)
       THEN /\ Answer("alerts", cache[AlertsKey].data, cache[AlertsKey].created, FALSE)
            /\ UNCHANGED cache
       ELSE IF FetchNWSAlerts(nwsUp) # NoData
       THEN /\ Answer("alerts", FetchNWSAlerts(nwsUp), now, FALSE)
            /\ cache' = [CachedNWSAlerts(cache, nwsUp) EXCEPT
                           ![AlertsKey] = NewEntry(FetchNWSAlerts(nwsUp), WeatherTTL)]
       ELSE /\ IF Exists(AlertsKey) /\ ~IsVeryStale(AlertsKey)
               THEN Answer("alerts", cache[AlertsKey].data, cache[AlertsKey].created, FALSE)
               ELSE Answer("alerts", NoData, NoData, TRUE)
            /\ UNCHANGED cache
    /\ UNCHANGED <<now, wxCall, wxGrid, wxWarmed>>

(***************************************************************************)
(* Current conditions                                                      *)
(***************************************************************************)
\* The oldest datum of a list of conditions, its attached alerts apart.
OldestOf(data) == Min({data[l].at : l \in DOMAIN data})

\* ListWeather: a fresh entry is served, otherwise the refresh starts by
\* reading the existing entry, stale or not, to fall back on per location.
ListWeather(c) ==
    /\ wxCall[c] = WxIdle
    /\ IF GetFound(AllKey)
       THEN /\ Answer("conditions", OldestOf(cache[AllKey].data), cache[AllKey].created, FALSE)
            /\ UNCHANGED wxCall
       ELSE /\ wxCall' = [wxCall EXCEPT ![c] =
                 [pc |-> "fanout",
                  existing |-> IF Exists(AllKey) THEN cache[AllKey].data ELSE [l \in {} |-> NoData]]]
            /\ UNCHANGED wxAnswer
    /\ UNCHANGED <<cacheVars, wxGrid, wxWarmed>>

\* processWeatherLocation for the locations that answered, the kept datum for
\* the ones that did not; a location with neither is left out.
RefreshWeatherData(existing, ok, nwsUp) ==
    [l \in ok \cup DOMAIN existing |->
        IF l \in ok THEN [at |-> now, alerts |-> GetNWSAlerts(nwsUp)] ELSE existing[l]]

\* The end of ListWeather.  Only an empty result is an error.
WeatherFanout(c) ==
    /\ wxCall[c].pc = "fanout"
    /\ \E ok \in SUBSET Location, nwsUp \in BOOLEAN :
         LET data == RefreshWeatherData(wxCall[c].existing, ok, nwsUp)
             warm == IF ok # {} THEN CachedNWSAlerts(cache, nwsUp) ELSE cache
         IN  IF DOMAIN data # {}
             THEN /\ cache' = [warm EXCEPT ![AllKey] = NewEntry(data, WeatherTTL)]
                  /\ Answer("conditions", OldestOf(data), now, FALSE)
             ELSE /\ UNCHANGED cache
                  /\ IF Exists(AllKey) /\ ~IsVeryStale(AllKey)
                     THEN Answer("conditions", OldestOf(cache[AllKey].data), cache[AllKey].created, FALSE)
                     ELSE Answer("conditions", NoData, NoData, TRUE)
    /\ wxCall' = [wxCall EXCEPT ![c] = WxIdle]
    /\ UNCHANGED <<now, wxGrid, wxWarmed>>

(***************************************************************************)
(* Forecasts: written by the refresher alone, read by every request        *)
(***************************************************************************)
\* locationGridURL over the cache c: fresh, or resolved, or a stale one when
\* resolving fails.
GridURL(c, l, resolves) ==
    IF c[GridKey(l)] # NoEntry /\ now <= c[GridKey(l)].created + c[GridKey(l)].ttl
    THEN c[GridKey(l)].data
    ELSE IF resolves THEN wxGrid
    ELSE IF c[GridKey(l)] # NoEntry THEN c[GridKey(l)].data ELSE NoData

CachedGridURL(c, l, resolves) ==
    IF resolves /\ (c[GridKey(l)] = NoEntry \/ now > c[GridKey(l)].created + c[GridKey(l)].ttl)
    THEN [c EXCEPT ![GridKey(l)] = NewEntry(wxGrid, GridURLTTL)]
    ELSE c

\* The cache after a 404 on a gridpoint that moved: the URL is dropped and
\* resolved again, once.
AfterNotFound(c, l, resolves) ==
    CachedGridURL(Delete(c, GridKey(l)), l, resolves)

\* refreshLocationForecast.  "up" covers GetGridForecast answering with points.
RefreshLocationForecast(l, resolves, up) ==
    /\ ~GetFound(ForecastKey(l))
    /\ LET first == CachedGridURL(cache, l, resolves)
           moved == GridURL(cache, l, resolves) \notin {wxGrid, NoData} /\ up
           then == IF moved THEN AfterNotFound(first, l, resolves) ELSE first
           url == IF moved
                  THEN IF then[GridKey(l)] = NoEntry THEN NoData ELSE then[GridKey(l)].data
                  ELSE GridURL(cache, l, resolves)
       IN  cache' = IF url = wxGrid /\ up
                    THEN [then EXCEPT ![ForecastKey(l)] = NewEntry(now, ForecastTTL)]
                    ELSE then
    /\ wxWarmed' = [loc |-> l, ok |-> resolves /\ up]
    /\ UNCHANGED <<now, wxCall, wxAnswer, wxGrid>>

\* readForecast: fresh, or last-good within the bound.
ReadForecast(l) ==
    /\ IF Exists(ForecastKey(l)) /\ ~IsVeryStale(ForecastKey(l))
       THEN Answer("forecast", cache[ForecastKey(l)].data, NoData, FALSE)
       ELSE Answer("forecast", NoData, NoData, FALSE)
    /\ UNCHANGED <<cacheVars, wxCall, wxGrid, wxWarmed>>

\* NWS re-tiles the grid: every URL resolved before is dead.
Retile ==
    /\ wxGrid = 0
    /\ wxGrid' = 1
    /\ UNCHANGED <<cacheVars, wxCall, wxAnswer, wxWarmed>>

\* A reader has taken the answer away; time passes and entries are evicted.
WxQuiet == wxAnswer' = NoData /\ wxWarmed' = NoData /\ UNCHANGED <<wxCall, wxGrid>>
WxTick == Tick /\ WxQuiet
WxCleanup == PeriodicCleanup /\ WxQuiet

WxInit ==
    /\ wxCall = [c \in WxCaller |-> WxIdle]
    /\ wxAnswer = NoData
    /\ wxGrid = 0
    /\ wxWarmed = NoData

\* Conditions with alerts, and forecasts, use disjoint parts of the cache.
ConditionsNext ==
    \/ \E up \in BOOLEAN : RawNWSAlerts(up) \/ ListWeatherAlerts(up)
    \/ \E c \in WxCaller : ListWeather(c) \/ WeatherFanout(c)
    \/ WxTick \/ WxCleanup

ForecastNext ==
    \/ \E l \in Location : ReadForecast(l) \/ \E r, up \in BOOLEAN : RefreshLocationForecast(l, r, up)
    \/ Retile \/ WxTick \/ WxCleanup

WeatherSpec == CacheInit /\ WxInit /\ [][ConditionsNext \/ ForecastNext]_<<cacheVars, wxVars>>

(***************************************************************************)
(* Properties                                                              *)
(***************************************************************************)
Age == now - wxAnswer.at

\* RawNWSAlerts, ListWeatherAlerts, readForecast: how old an answer can be.
\* Raw alerts without an error are at most one interval old and carry the time
\* they were fetched; with one, two intervals.  The list of alerts is a cache
\* over that cache: three.  A forecast is never older than twice its interval.
ServedWithinBound ==
    wxAnswer # NoData /\ wxAnswer.at # NoData =>
        /\ wxAnswer.of = "raw" =>
               /\ wxAnswer.stamp = wxAnswer.at
               /\ Age <= (IF wxAnswer.failed THEN 2 ELSE 1) * WeatherTTL
        /\ wxAnswer.of = "alerts" => Age <= 3 * WeatherTTL
        /\ wxAnswer.of = "forecast" => Age <= 2 * ForecastTTL

\* ListWeather: "Refresh failed - serve stale data if it's within the
\* very-stale bound".  No location's conditions are served beyond it.
ConditionsWithinBound ==
    wxAnswer # NoData /\ wxAnswer.of = "conditions" /\ wxAnswer.at # NoData =>
        Age <= 2 * WeatherTTL

\* refreshLocationForecast: a moved gridpoint heals within one refresh.  After
\* a tick during which NWS answered every request, the location is fresh.
ForecastHeals ==
    wxWarmed # NoData /\ wxWarmed.ok => GetFound(ForecastKey(wxWarmed.loc))
============================================================================
