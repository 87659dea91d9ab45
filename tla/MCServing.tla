----------------------------- MODULE MCServing -----------------------------
(***************************************************************************)
(* The read services of the first API, and the gate that admits requests.   *)
(* They share the cache but no key, so a behaviour is one service or the    *)
(* gate at work, chosen at the start: the product of their states would add *)
(* nothing but size.                                                        *)
(***************************************************************************)
EXTENDS Incidents, Weather, Roads, Cameras, Hazards, Gate

CONSTANTS Parts, OneArea, noPlace, poller, visitor, refresher, somewhere

VARIABLE part

allVars == <<part, cacheVars, incVars, wxVars, rdVars, camVars, hzVars, gateVars>>

\* One CHP incident and one lcs2way.kml closure with two endpoints, plus the
\* same incident as a placemark that is only geometry and as one without
\* coordinates.
MCRow == {[id |-> "chp1", feed |-> "chp", at |-> 1, described |-> TRUE],
          [id |-> "chp1", feed |-> "chp", at |-> 2, described |-> FALSE],
          [id |-> "chp1", feed |-> "chp", at |-> noPlace, described |-> TRUE],
          [id |-> "lane1", feed |-> "lane", at |-> 1, described |-> TRUE],
          [id |-> "lane1", feed |-> "lane", at |-> 2, described |-> TRUE]}
MCArea == {OneArea}
MCWithin == [a \in MCArea |-> {1, 2}]

\* Two roads.  The first window closes road A as Google draws it, but lies off
\* the straight line; the second, of the same title, is near B alone.
Point(a, b) == [A |-> a, B |-> b]
Line(g, s) == [google |-> {g}, straight |-> {s}]
FullClosure == [title |-> "Route 4 Lane Closure", says |-> "closed", chains |-> "none",
                far |-> Point([google |-> {50, 9000}, straight |-> {900, 9000}], Line(9000, 9000))]
SameTitle == [title |-> "Route 4 Lane Closure", says |-> "restricted", chains |-> "none",
              far |-> Point(Line(9000, 9000), Line(3000, 3000))]
Crash == [title |-> "CHP Incident 1", says |-> "restricted", chains |-> "active_unspecified",
          far |-> Point(Line(100, 100), Line(5000, 5000))]

\* The chain-control rows only raise the chains of a built road; their own layer
\* checks them.
Works == [type |-> "restriction", matches |-> {"A"}]
MCWindow == {FullClosure}
TwoWindows == {FullClosure, SameTitle}
MCChp == {Crash}
MCCondition == {Works}
MCRoad == {"A"}
TwoRoads == {"A", "B"}

MCCameraRow == {[id |-> "c1", district |-> 10, placed |-> TRUE, image |-> TRUE],
                [id |-> "c2", district |-> 3, placed |-> TRUE, image |-> TRUE]}
MCFar == [i \in {"c1", "c2"} |-> [p \in {"coverage", "arnold"} |-> IF i = "c1" THEN 3 ELSE IF p = "coverage" THEN 2 ELSE 9]]

\* A checkpoint of each district, the second without a position; a gate and a
\* duplicate of the first checkpoint in cc.kml.
MCCheckpoint == {[name |-> "Dorrington", district |-> 10, at |-> 12, dir |-> "E", inService |-> TRUE],
                 [name |-> "Picketts", district |-> 3, at |-> NoPoint, dir |-> "W", inService |-> TRUE]}
MCSign == {[name |-> "42", district |-> 10, at |-> 14, mode |-> "one", pages |-> {1, 2}, notReported |-> FALSE],
           [name |-> "7", district |-> 3, at |-> 15, mode |-> "blank", pages |-> {}, notReported |-> FALSE]}
MCMark == {[at |-> 12, dir |-> "", level |-> "R-2", style |-> "chain", truck |-> FALSE, saysClosed |-> FALSE],
           [at |-> 19, dir |-> "E", level |-> "", style |-> "full-closure", truck |-> FALSE, saysClosed |-> TRUE]}
MCHzArea == [lo |-> 10, hi |-> 20, zones |-> {"CAZ069"}]
MCHzRoad == {[id |-> "A", origin |-> 11, destination |-> 30], [id |-> "B", origin |-> 30, destination |-> 40]}
MCProduct == {[state |-> "red-flag", zones |-> {"CAZ069"}], [state |-> "elevated", zones |-> {"CAZ017"}]}
AllFine == [file |-> [d \in HzDistrict |-> "ok"], kml |-> "ok", marks |-> {}, roads |-> "OPEN", weather |-> "red-flag"]
MCInput == {AllFine, [AllFine EXCEPT !.kml = "down", !.roads = "down", !.weather = "down"],
            [AllFine EXCEPT !.roads = "CLOSED", !.weather = "elevated", !.marks = MCMark]}
           \cup {[AllFine EXCEPT !.file[d] = why] : d \in HzDistrict, why \in {"down", "frozen", "unstamped", "garbled"}}
           \cup {[AllFine EXCEPT !.file = [d \in HzDistrict |-> "down"], !.marks = MCMark]}

MCCacheKey ==
    {IncKey(a) : a \in Area} \cup {NWSKey, AllKey, AlertsKey, RoadsKey, ClosuresKey}
        \cup {ForecastKey(l) : l \in Location} \cup {GridKey(l) : l \in Location}
        \cup {GoogleKey(r) : r \in MonitoredRoad} \cup {HzKey(l) : l \in HzLayer}

ServingInit ==
    /\ part \in Parts
    /\ CacheInit /\ IncInit /\ WxInit /\ RdInit /\ HzInit /\ GateInit
    /\ IF part = "cameras" THEN CamInit ELSE CamInit /\ camService = {}

Incidental ==
    /\ part = "incidents"
    /\ IncNext \/ (Tick /\ UNCHANGED incVars) \/ (PeriodicCleanup /\ UNCHANGED incVars)
    /\ UNCHANGED <<part, wxVars, rdVars, camVars, hzVars>>
Conditions ==
    /\ part = "conditions" /\ ConditionsNext
    /\ UNCHANGED <<part, incVars, rdVars, camVars, hzVars>>
Forecasts ==
    /\ part = "forecasts" /\ ForecastNext
    /\ UNCHANGED <<part, incVars, rdVars, camVars, hzVars>>
Segments ==
    /\ part = "roads" /\ RdNext
    /\ UNCHANGED <<part, incVars, wxVars, camVars, hzVars>>
Directory ==
    /\ part = "cameras" /\ CamNext
    /\ UNCHANGED <<part, cacheVars, incVars, wxVars, rdVars, hzVars>>

Layers ==
    /\ part \in HzLayer
    /\ HzNext({part}, IF part = "chain_control" THEN {"R-0", "R-2", "junk"} ELSE {}, MCInput)
    /\ UNCHANGED <<part, incVars, wxVars, rdVars, camVars>>

Admission ==
    /\ part = "gate" /\ GateNext
    /\ UNCHANGED <<part, cacheVars, incVars, wxVars, rdVars, camVars, hzVars>>

ServingNext ==
    \/ (Incidental \/ Conditions \/ Forecasts \/ Segments \/ Directory \/ Layers) /\ UNCHANGED gateVars
    \/ Admission

Spec == ServingInit /\ [][ServingNext]_allVars
============================================================================
