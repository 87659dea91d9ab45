--------------------------- MODULE WeatherAlerts ---------------------------
(***************************************************************************)
(* Weather alerts and earthquakes.  The alert list of NWS (clients/nws) is  *)
(* cached by the weather service and fetched by whoever finds the cache     *)
(* old, the poller (ingest/weather_alert.go) or a visitor; fetches overlap. *)
(* Earthquakes come from one query (clients/usgs, ingest/earthquake.go).    *)
(***************************************************************************)
EXTENDS Feed, Severity

CONSTANTS Alert,          \* [id, effective, onset, expires, ends, zones, severity]: what NWS may issue
          Unset,          \* a time the product does not carry
          ExpireAfter,    \* the grace of the source
          AreaZones,      \* [areas -> their zones]
          AlertTTL,       \* weather.refreshInterval
          FetchTime,      \* the HTTP timeout
          Quake,          \* [id, at, time, mag], mag in tenths: what USGS may publish
          QuakeWindow, QuakeMinMagnitude,
          MaxAlertClock

\* An alert has an id of its own: an update of NWS is a new one.
ASSUME AlertAssumption ==
    /\ AlertTTL \in Nat /\ FetchTime \in Nat
    /\ \A a, b \in Alert : a.id = b.id => a = b
ASSUME QuakeAssumption ==
    QuakeWindow \in Int /\ QuakeMinMagnitude \in Int /\ \A q \in Quake : q.time \in Int /\ q.mag \in Int

NoFetch == [list |-> {}, began |-> -1]
NoList == [list |-> {}, at |-> -1]

\* Begins and EndsAt: the hazard's times, else those of the product.
Begins(a) == IF a.onset # Unset THEN a.onset ELSE a.effective
EndsAt(a) == IF a.ends # Unset THEN a.ends ELSE a.expires

\* GetActiveZoneAlerts, cleanZones, toAlerts: the alerts in force in the
\* configured zones, at the moment NWS answers.
Zones == UNION {AreaZones[a] : a \in DOMAIN AreaZones}
GetActiveZoneAlerts == {a \in world.inForce : a.zones \cap Zones # {}}

\* zonesMatch
ZonesMatch(areaZones, zones) == areaZones = {} \/ zones = {} \/ areaZones \cap zones # {}

\* The cache of the list: Get, and IsVeryStale.
CacheFresh == world.cache # NoList /\ world.now - world.cache.at <= AlertTTL
CacheUsable == world.cache # NoList /\ world.now - world.cache.at <= 2 * AlertTTL

\* The event of an alert.
BuildWeatherAlert(a) ==
    [id |-> <<"wx", a.id>>, source |-> "nws", severity |-> FromNWSSeverity(a.severity),
     status |-> IF Begins(a) > world.now THEN "SCHEDULED" ELSE "ACTIVE", ends |-> EndsAt(a), seen |-> world.now,
     places |-> {p \in DOMAIN AreaZones : ZonesMatch(AreaZones[p], a.zones)}]

\* A failed fetch with nothing to fall back on, as an empty list.
PollWeatherEmpty(list, err) ==
    IF Zones = {} THEN PollError
    ELSE PollResult({BuildWeatherAlert(a) : a \in list}, IF err /\ list # {} THEN {"nws"} ELSE {}, {}, {})

\* Poll, of the list and the error RawNWSAlerts gave.  An error with no alerts is
\* a hard one, also when the last-good list was empty.
PollWeather(list, err) ==
    IF Zones = {} \/ (err /\ list = {}) THEN PollError
    ELSE PollResult({BuildWeatherAlert(a) : a \in list}, IF err THEN {"nws"} ELSE {}, {}, {})

\* shouldExpire: past its own end, or unseen for the grace.
ShouldExpire(e) == (e.ends # Unset /\ world.now > e.ends) \/ world.now - e.seen > ExpireAfter
LapsedAlerts == {e.id : e \in {x \in live : ShouldExpire(x)}}

\* RawNWSAlerts on a fresh cache.
PollCached ==
    /\ world.poller = NoFetch /\ CacheFresh
    /\ Apply(PollWeather(world.cache.list, FALSE), LapsedAlerts)
    /\ UNCHANGED <<part, world>>

\* fetchNWSAlerts: the request leaves, NWS answers it, the answer comes back and
\* is cached with the time it came back, over whatever is there by then.
BeginFetch(who) ==
    /\ world[who] = NoFetch /\ ~CacheFresh
    /\ world' = [world EXCEPT ![who] = [list |-> GetActiveZoneAlerts, began |-> world.now]]
    /\ UNCHANGED <<part, live>> /\ result' = NeverPolled
Fetched(who, ok) ==
    [world EXCEPT ![who] = NoFetch,
                  !.cache = IF ok THEN [list |-> world[who].list, at |-> world.now] ELSE @]
VisitorEnds(ok) ==
    /\ world.visitor # NoFetch
    /\ world' = Fetched("visitor", ok)
    /\ UNCHANGED <<part, live>> /\ result' = NeverPolled

\* RawNWSAlerts after its own fetch: the list, or the last-good one with the error.
PollerEnds(ok) ==
    /\ world.poller # NoFetch
    /\ world' = Fetched("poller", ok)
    /\ Apply(IF ok THEN PollWeather(world.poller.list, FALSE)
             ELSE PollWeather(IF CacheUsable THEN world.cache.list ELSE {}, TRUE), LapsedAlerts)
    /\ UNCHANGED part

\* The offices issue and lift alerts, time passes; a request times out.
IssueOrLift(a) ==
    /\ world' = IF a \in world.inForce
                THEN [world EXCEPT !.inForce = @ \ {a}, !.lacked[a] = world.now]
                ELSE [world EXCEPT !.inForce = @ \cup {a}, !.listed[a] = world.now]
    /\ UNCHANGED <<part, live>> /\ result' = NeverPolled
AlertClock ==
    /\ world.now < MaxAlertClock
    /\ \A who \in {"poller", "visitor"} : world[who] # NoFetch => world.now < world[who].began + FetchTime
    /\ world' = [world EXCEPT !.now = @ + 1,
                   !.lacked = [a \in Alert |-> IF a \in world.inForce THEN @[a] ELSE world.now + 1],
                   !.listed = [a \in Alert |-> IF a \in world.inForce THEN world.now + 1 ELSE @[a]]]
    /\ UNCHANGED <<part, live>> /\ result' = NeverPolled

WeatherInit ==
    /\ world = [now |-> 0, inForce |-> {}, cache |-> NoList, poller |-> NoFetch, visitor |-> NoFetch,
                lacked |-> [a \in Alert |-> 0], listed |-> [a \in Alert |-> -99]]
    /\ live = {} /\ result = NeverPolled
WeatherNext ==
    \/ PollCached \/ AlertClock
    \/ \E who \in {"poller", "visitor"} : BeginFetch(who)
    \/ \E ok \in BOOLEAN : VisitorEnds(ok) \/ PollerEnds(ok)
    \/ \E a \in Alert : IssueOrLift(a)

WeatherSpec == part = "weather" /\ WeatherInit /\ [][WeatherNext]_feedVars

(***************************************************************************)
(* Earthquakes                                                             *)
(***************************************************************************)
\* GetEarthquakes, toQuakes: in the box, strong enough, in the window; a quake
\* without a magnitude is of magnitude zero.
GetEarthquakes == {q \in world.published : InUnion(q.at, 0) /\ q.mag >= QuakeMinMagnitude
                                           /\ q.time >= world.now - QuakeWindow}

\* Poll: a failed query is an error.
PollQuakes(up) ==
    IF Area = {} \/ ~up THEN PollError
    ELSE PollResult({[id |-> <<"usgs", q.id>>, source |-> "usgs", status |-> "ACTIVE",
                      severity |-> FromMagnitude(q.mag)] : q \in GetEarthquakes}, {}, {}, {})
QuakeTick(up) == Apply(PollQuakes(up), {}) /\ UNCHANGED <<part, world>>

\* USGS publishes a quake once it has happened, revises and withdraws it.
PublishOrRevise(q) ==
    /\ q.time <= world.now
    /\ world' = [world EXCEPT !.published = {p \in @ : p.id # q.id} \cup (IF q \in @ THEN {} ELSE {q})]
    /\ UNCHANGED <<part, live>> /\ result' = NeverPolled
QuakeClock ==
    /\ world.now < MaxAlertClock
    /\ world' = [world EXCEPT !.now = @ + 1]
    /\ UNCHANGED <<part, live>> /\ result' = NeverPolled
QuakeInit == world = [now |-> 0, published |-> {}] /\ live = {} /\ result = NeverPolled
QuakeNext == QuakeClock \/ (\E up \in BOOLEAN : QuakeTick(up)) \/ (\E q \in Quake : PublishOrRevise(q))
QuakeSpec == part = "quakes" /\ QuakeInit /\ [][QuakeNext]_feedVars

(***************************************************************************)
(* Properties                                                              *)
(***************************************************************************)
\* RawNWSAlerts, Poll: however fetches fail, overlap and overwrite each other's
\* list, an alert ends only when NWS did not list it a refresh interval and a
\* request ago or less, and appears only when NWS listed it two intervals and a
\* request ago or less.
AlertsFollowNws ==
    [][part = "weather" /\ live' # live =>
         \A a \in Alert :
            /\ <<"wx", a.id>> \in Ended => world.now - world.lacked[a] <= AlertTTL + FetchTime
            /\ <<"wx", a.id>> \in Ids(live') \ Ids(live) => world.now - world.listed[a] <= 2 * AlertTTL + FetchTime]_feedVars

\* EarthquakeNormalizer.Poll: a quake ends only when it is withdrawn or has left the window,
\* the box or the magnitudes, never because a query failed.
QuakeEndsWhenOver ==
    [][part = "quakes" =>
         \A q \in world.published : <<"usgs", q.id>> \in Ended =>
            world.now - q.time > QuakeWindow \/ q.mag < QuakeMinMagnitude \/ ~InAnyArea(q.at)]_feedVars
============================================================================
