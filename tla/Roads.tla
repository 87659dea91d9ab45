------------------------------- MODULE Roads -------------------------------
(***************************************************************************)
(* Segment status: services/roads.go, roads_lane_closures.go, the route     *)
(* matcher and the road part of the periodic refresher.                     *)
(*                                                                         *)
(* A refresh is two steps: the lane closures, whose failure decides whether *)
(* there is a refresh at all, and the rest of refreshRoadData with the      *)
(* store into the cache.  The periodic refresher and a request that finds   *)
(* no cached list both run it, at the same time if it so happens.           *)
(***************************************************************************)
EXTENDS Cache, FiniteSets, FiniteSetsExt, SequencesExt

CONSTANTS MonitoredRoad,   \* roads.monitoredRoads
          Refresher,       \* the periodic refresher
          RoadVisitor,     \* requests
          Window,          \* CWWP2 closure windows, as alerts
          ChpAlert,        \* CHP incidents, as alerts
          Condition,       \* roads.dot.ca.gov conditions: [type, matches]
          Control,         \* chain controls: [near, closed, unrecognized]
          OnRouteMeters,   \* onRouteThreshold
          MaxDistance,     \* Route.MaxDistance
          Invalid,         \* the distance of a point that cannot be measured
          RoadsTTL,        \* roads.refreshInterval
          GoogleTTL        \* 45 minutes

ASSUME RoadsIntervalAssumption == RoadsTTL \in Nat

VARIABLES rdLive,     \* windows set up right now
          rdCall      \* [caller -> refresh in progress]

rdVars == <<rdLive, rdCall>>

RdCaller == RoadVisitor \cup {Refresher}
RdIdle == [pc |-> "idle"]
RoadsKey == <<"roads:all">>
ClosuresKey == <<"cwwp2_lane_closures:active">>
GoogleKey(r) == <<"google_routes", r>>

ASSUME RoadsKeysAssumption == {RoadsKey, ClosuresKey} \subseteq CacheKey

(***************************************************************************)
(* Alerts and routes.  An alert carries, per road and per polyline of that  *)
(* road, the distances of its points: one for an incident, two for a        *)
(* closure with both endpoints.                                            *)
(***************************************************************************)
\* buildRouteFromMonitoredRoad: the decoded Google polyline or a straight line.
RouteOf(google, r) == IF r \in google THEN "google" ELSE "straight"

\* classifyPointBasedAlert, classifyPolylineBasedAlertSimple: the closest
\* point that can be measured.
Measured(alert, r, line) == alert.far[r][line] \ {Invalid}
RouteDistance(alert, r, line) == Min(Measured(alert, r, line))

\* ClassifyAlert against one route.
ClassifyAlert(alert, r, line) ==
    IF RouteDistance(alert, r, line) <= OnRouteMeters THEN "ON_ROUTE"
    ELSE IF RouteDistance(alert, r, line) <= MaxDistance THEN "NEARBY"
    ELSE "DISTANT"

\* processGlobalAlerts: an alert that cannot be measured is skipped, DISTANT
\* ones are left out.
GlobalClassifications(alerts, google) ==
    {c \in {[alert |-> p[1], road |-> p[2], class |-> ClassifyAlert(p[1], p[2], RouteOf(google, p[2]))] :
                p \in {q \in alerts \X MonitoredRoad :
                                  Measured(q[1], q[2], RouteOf(google, q[2])) # {}}} :
        c.class # "DISTANT"}

\* deduplicateAlerts: NEARBY gives way to the same AlertID ON_ROUTE elsewhere.
\* The AlertID is the title and the time of the fetch.
DeduplicateAlerts(classified) ==
    LET onRoute == {c.alert.title : c \in {d \in classified : d.class = "ON_ROUTE"}}
    IN  {c \in classified : ~(c.class = "NEARBY" /\ c.alert.title \in onRoute)}

(***************************************************************************)
(* One road                                                                *)
(***************************************************************************)
OpenRoad == [status |-> "OPEN", chains |-> "NONE"]

\* The loop of buildRoadFromRouteAndAlerts: only ON_ROUTE and enhanced alerts
\* speak, a closure is not downgraded.
ApplyAlert(road, c) ==
    IF c.class # "ON_ROUTE" \/ ~c.enhanced THEN road
    ELSE [status |-> IF c.alert.says = "closed" THEN "CLOSED"
                     ELSE IF c.alert.says = "restricted" /\ road.status # "CLOSED"
                     THEN "RESTRICTED" ELSE road.status,
          chains |-> IF c.alert.chains \in {"r1", "r2"} THEN "REQUIRED"
                     ELSE IF c.alert.chains = "active_unspecified" /\ road.chains = "NONE"
                     THEN "ADVISED" ELSE road.chains]

\* The loop of applyRoadConditions, over the conditions whose text matches.
ApplyRoadCondition(road, cond) ==
    CASE cond.type = "closure" -> [road EXCEPT !.status = "CLOSED"]
      [] cond.type = "chain" -> [road EXCEPT !.chains = "REQUIRED"]
      [] cond.type = "restriction" /\ road.status # "CLOSED" -> [road EXCEPT !.status = "RESTRICTED"]
      [] OTHER -> road

\* findChainControlForRoute: neither unreadable rows nor closures count.
FindChainControl(controls, r) ==
    \E cc \in controls : ~cc.unrecognized /\ ~cc.closed /\ r \in cc.near

\* buildRoadFromRouteAndAlerts
BuildRoad(classified, conditions, controls, r) ==
    LET byAlerts == FoldLeft(ApplyAlert, OpenRoad, SelectSeq(classified, LAMBDA c : c.road = r))
        byConditions == FoldLeft(ApplyRoadCondition, byAlerts,
                                 SelectSeq(conditions, LAMBDA d : r \in d.matches))
    IN  IF FindChainControl(controls, r)
        THEN [byConditions EXCEPT !.chains = "REQUIRED"]
        ELSE byConditions

\* Ghost: the worst that the sources say of a road, in no particular order.
WorstSaid(spoken, conditions, r) ==
    LET told == {k.alert.says : k \in {s \in spoken : s.road = r /\ s.class = "ON_ROUTE" /\ s.enhanced}}
        wide == {d.type : d \in {e \in conditions : r \in e.matches}}
    IN  IF "closed" \in told \/ "closure" \in wide THEN "CLOSED"
        ELSE IF "restricted" \in told \/ "restriction" \in wide THEN "RESTRICTED" ELSE "OPEN"

(***************************************************************************)
(* Requests and refreshes                                                  *)
(***************************************************************************)
StartRefresh(c) == rdCall' = [rdCall EXCEPT ![c] = [pc |-> "closures"]]

\* ListRoads serves whatever is cached, stale or very stale, with its time:
\* the answer is the entry.  With nothing cached the request refreshes.
ListRoads(c) ==
    /\ rdCall[c] = RdIdle
    /\ IF Exists(RoadsKey) THEN UNCHANGED rdCall ELSE StartRefresh(c)
    /\ UNCHANGED <<cacheVars, rdLive>>

\* refreshLoop: a tick, or the refresh at start.
RefreshTick ==
    /\ rdCall[Refresher] = RdIdle
    /\ StartRefresh(Refresher)
    /\ UNCHANGED <<cacheVars, rdLive>>

\* The fallback without its bound: the last good set, however old.
SegmentLaneClosuresAnyAge(c, ok) ==
    /\ rdCall[c].pc = "closures"
    /\ ok \/ Exists(ClosuresKey)
    /\ rdCall' = [rdCall EXCEPT ![c] =
           [pc |-> "rest", closures |-> IF ok THEN rdLive ELSE cache[ClosuresKey].data,
            age |-> IF ok THEN 0 ELSE now - cache[ClosuresKey].created]]
    /\ IF ok THEN Set(ClosuresKey, rdLive, RoadsTTL) ELSE UNCHANGED cache
    /\ UNCHANGED <<now, rdLive>>

\* segmentLaneClosures with districts configured.  One failing district fails
\* the set; the last good set serves until it is very stale; then the refresh
\* fails and the cached list stays what it was.
SegmentLaneClosures(c, ok) ==
    /\ rdCall[c].pc = "closures"
    /\ LET set == IF ok THEN rdLive ELSE cache[ClosuresKey].data
           read == IF ok THEN now ELSE cache[ClosuresKey].created
       IN  IF ok \/ (Exists(ClosuresKey) /\ ~IsVeryStale(ClosuresKey))
           THEN /\ rdCall' = [rdCall EXCEPT ![c] =
                       [pc |-> "rest", closures |-> set, age |-> now - read]]
                /\ IF ok THEN Set(ClosuresKey, rdLive, RoadsTTL) ELSE UNCHANGED cache
           ELSE /\ rdCall' = [rdCall EXCEPT ![c] = RdIdle]
                /\ UNCHANGED cache
    /\ UNCHANGED <<now, rdLive>>

\* getTrafficDataWithPolyline: the roads that have Google's polyline, from the
\* cache or because Google answers.
HaveGoogle(answers) == {r \in MonitoredRoad : GetFound(GoogleKey(r)) \/ r \in answers}
CacheGoogle(c, answers) ==
    [k \in CacheKey |-> IF \E r \in answers : k = GoogleKey(r) /\ ~GetFound(k)
                        THEN NewEntry("route", GoogleTTL) ELSE c[k]]

\* The rest of refreshRoadData, and its caller's Cache.Set.  Every source but
\* the closures may fail silently: no incidents, no conditions, no controls, no
\* traffic; enhanceRawAlert may fail for any alert.
RefreshRoadData(c) ==
    /\ rdCall[c].pc = "rest"
    /\ \E chp \in SUBSET ChpAlert, conditions \in SUBSET Condition,
          controls \in SUBSET Control, answers \in SUBSET MonitoredRoad :
       LET classified == DeduplicateAlerts(GlobalClassifications(rdCall[c].closures \cup chp,
                                                                 HaveGoogle(answers)))
       IN  \E failed \in SUBSET {k.alert : k \in classified} :
           LET spoken == {[alert |-> k.alert, road |-> k.road, class |-> k.class,
                           enhanced |-> k.alert \notin failed] : k \in classified}
           IN  \E alertOrder \in SetToSeqs(spoken), condOrder \in SetToSeqs(conditions) :
               LET roads == [r \in MonitoredRoad |-> BuildRoad(alertOrder, condOrder, controls, r)]
               IN  cache' = [CacheGoogle(cache, answers) EXCEPT
                                ![RoadsKey] = NewEntry([roads |-> roads,
                                    worst |-> [r \in MonitoredRoad |-> WorstSaid(spoken, conditions, r)],
                                    age |-> rdCall[c].age], RoadsTTL)]
    /\ rdCall' = [rdCall EXCEPT ![c] = RdIdle]
    /\ UNCHANGED <<now, rdLive>>

\* A window is set up or picked up.
MoveWindow(w) ==
    /\ rdLive' = IF w \in rdLive THEN rdLive \ {w} ELSE rdLive \cup {w}
    /\ UNCHANGED <<cacheVars, rdCall>>

RdInit ==
    /\ rdLive = {}
    /\ rdCall = [c \in RdCaller |-> RdIdle]

RdNext ==
    \/ RefreshTick
    \/ \E c \in RoadVisitor : ListRoads(c)
    \/ \E c \in RdCaller : RefreshRoadData(c) \/ \E ok \in BOOLEAN : SegmentLaneClosures(c, ok)
    \/ \E w \in Window : MoveWindow(w)
    \/ Tick /\ UNCHANGED rdVars
    \/ PeriodicCleanup /\ UNCHANGED rdVars

RoadsSpec == CacheInit /\ RdInit /\ [][RdNext]_<<cacheVars, rdVars>>

(***************************************************************************)
(* Properties                                                              *)
(***************************************************************************)
\* segmentLaneClosures: "an error, which fails refreshRoadData and leaves the
\* last good roads:all in place rather than publishing a guessed OPEN".  Every
\* published list was built on a closure set that all districts had delivered,
\* at most two intervals before the refresh that used it.
ClosuresKnown ==
    Exists(RoadsKey) => cache[RoadsKey].data.age <= 2 * RoadsTTL

\* buildRoadFromRouteAndAlerts and applyRoadConditions: whatever the order of
\* the alerts and the conditions, a road shows the worst its evidence says.
RoadShowsTheWorst ==
    Exists(RoadsKey) =>
        \A r \in MonitoredRoad : cache[RoadsKey].data.roads[r].status = cache[RoadsKey].data.worst[r]

\* processGlobalAlerts: "if an alert is ON_ROUTE for any road, remove it from
\* NEARBY for others".  Removing it elsewhere never removes it everywhere: an
\* alert near some road is shown on some road.
NearbyAlertIsShown ==
    \A w1, w2 \in Window : \A google \in SUBSET MonitoredRoad :
        LET classified == GlobalClassifications({w1, w2} \cap rdLive, google)
        IN  \A k \in classified : \E s \in DeduplicateAlerts(classified) : s.alert = k.alert
============================================================================
