------------------------------ MODULE MCFeeds ------------------------------
(***************************************************************************)
(* The feed normalizers, the telemetry poller, the reads of the API, the    *)
(* store's opening, the poll loop, the place directory and the relay, one    *)
(* at a time: they share nothing but the variables of module Feed.           *)
(***************************************************************************)
EXTENDS LaneClosures, Wildfire, ArcGisLayers, BurnLines, WeatherAlerts, RelayProcess, MeshArchive, GridReads,
        StoreOpen, PollLoop, PlaceDirectory

CONSTANTS FeedParts, LegacyStarts, TokenA

MCArea == {[lo |-> 10, hi |-> 20]}

\* Two days of one job at one place, and a window at another of which one end
\* has no position.
Day(n, d) == [index |-> <<"C4QB", n>>, district |-> 10, closure |-> "C4QB", log |-> 4,
              begin |-> 12, end |-> 14, start |-> d, until |-> d + 1]
Elsewhere == [index |-> <<"C88", 1>>, district |-> 3, closure |-> "C88", log |-> 1,
              begin |-> Nowhere, end |-> 20, start |-> 0, until |-> NoEnd]
MCWindow == {Day(1, 1), Elsewhere}
TwoDays == {Day(1, 1), Day(2, 2)}
MCLegacy == {[id |-> <<0, <<"C4QB", 0>>>>, source |-> "caltrans", win |-> Day(1, 1), status |-> "ACTIVE",
              closure |-> "C4QB", log |-> 4, at |-> 12]}

MCFiles == [ClosureDistrict -> {"ok", "down", "empty"}]
NoGarbling == [flags |-> {}, times |-> {}, places |-> {}]
MCGarblings == {NoGarbling} \cup
    {[NoGarbling EXCEPT !.flags = {w}] : w \in ClosureWindow} \cup
    {[NoGarbling EXCEPT !.places = {w}] : w \in ClosureWindow}

\* A fire beyond the edge of the region that reaches in, and two of one name
\* inside it, of which CAL FIRE may list the first.
EdgeFire == [uuid |-> "edge", name |-> "OAK", at |-> 24]
NamedFire == [uuid |-> "named", name |-> "DOVE", at |-> 12]
Namesake == [uuid |-> "namesake", name |-> "DOVE", at |-> 16]
Flown(f, number, lo, hi) ==
    [fire |-> f.uuid, name |-> f.name, number |-> number, status |-> "Active", drawn |-> TRUE, date |-> 1,
     flight |-> 2, acres |-> 1, lo |-> lo, hi |-> hi]
MCFires == {EdgeFire, NamedFire}
MCFireRows == {Flown(EdgeFire, 7, 20, 26), Flown(NamedFire, 0, 11, 13), Flown(Namesake, 0, 15, 17)}

\* Two outages, one of them drawn, and one shutoff of two rows.
MCOutage == {[id |-> 1, customers |-> 0, planned |-> FALSE, parts |-> 2],
             [id |-> 2, customers |-> 1200, planned |-> TRUE, parts |-> 0]}
MCShutoff == {[event |-> 9, period |-> 1, start |-> 0, stage |-> "watch", drawn |-> TRUE],
              [event |-> 9, period |-> 1, start |-> 1, stage |-> "warning", drawn |-> FALSE]}

\* A zone under two events, and another of its name in another county.
Zone(zone, name, county, words, at) == [zone |-> zone, name |-> name, county |-> county, words |-> words, at |-> at]
MCZones == {Zone(<<>>, <<"Elm">>, 5, {}, 15), Zone(<<>>, <<"Elm">>, 5, {"order", "fire"}, 15),
            Zone(<<>>, <<"Elm">>, 55, {"advisory"}, 18)}
\* A zone and a part of it.
Subzones == {Zone(<<"E032">>, <<>>, 5, {"order"}, 11), Zone(<<"E032", "A">>, <<>>, 5, {"order"}, 15)}
ZonesAndSubzones == MCZones \cup Subzones

\* The worker's reporter, one whose hash this deployment lacks, and a relay.
MCReporter == <<[id |-> "burn-line", committed |-> NoHash, atDeploy |-> FALSE, streams |-> {"burn.line"}],
                [id |-> "spare", committed |-> NoHash, atDeploy |-> TRUE, streams |-> {"burn.line"}]>>
MCSupplied == [id \in {"burn-line"} |-> TokenA]

\* A warning in force at once, and a watch for later that reaches beyond the region.
MCAlert == {[id |-> 1, effective |-> 0, onset |-> Unset, expires |-> 3, ends |-> Unset, zones |-> {"CAZ064"}, severity |-> "Severe"],
            [id |-> 2, effective |-> 0, onset |-> 2, expires |-> Unset, ends |-> Unset, zones |-> {"CAZ064", "NVZ001"},
             severity |-> "Extreme"]}
MCAreaZones == [a \in {"sierra", "valley"} |-> IF a = "sierra" THEN {"CAZ064"} ELSE {}]

\* A quake, its revision, and one beyond the box.
MCQuake == {[id |-> 1, at |-> 12, time |-> 0, mag |-> 31], [id |-> 1, at |-> 12, time |-> 0, mag |-> 24],
            [id |-> 2, at |-> 15, time |-> 1, mag |-> 52], [id |-> 3, at |-> 25, time |-> 1, mag |-> 40]}

\* Two gateways, and one retry on each.
MCGateway == <<"g1", "g2">>
MCRetries == <<1>>

\* An operator's monitor and the relay.
MCMonitor == [m \in {"alanpi", "relay"} |-> IF m = "alanpi" THEN 2 ELSE 1]

\* A zone under an order or an advisory, a fire that may grow, and what else is
\* stored: roadwork to come and a lost premise.
GridEvent(id, rank, layer, source, status, severity, level, observed) ==
    [id |-> id, rank |-> rank, layer |-> layer, source |-> source, status |-> status, severity |-> severity,
     level |-> level, observed |-> observed]
MCVersions == {GridEvent("E", 1, "evacuation", "caloes", "ACTIVE", 4, "ORDER", 1),
               GridEvent("E", 1, "evacuation", "caloes", "ACTIVE", 2, "ADVISORY", 2),
               GridEvent("F", 2, "wildfire", "calfire", "ACTIVE", 3, "", 1),
               GridEvent("F", 2, "wildfire", "calfire", "ACTIVE", 2, "", 1)}
MCStanding == {GridEvent("R", 3, "road_incident", "caltrans", "SCHEDULED", 2, "", 1),
               GridEvent("P", 4, "power", "pge", "ACTIVE", 0, "", 1)}
MCLayerSources == [wildfire |-> {"calfire", "firis"}, evacuation |-> {"caloes"}, road_incident |-> {"chp", "caltrans"},
                   power |-> {"pge", "psps"}, weather_alert |-> {"nws"}, earthquake |-> {"usgs"},
                   burn_status |-> {"burnline", "calfire-burn"}, mesh_node |-> {"meshcore"}]
Banner(state) == {[severity |-> IF state = "normal" THEN 0 ELSE 2]}
MCCondition == {[status |-> [l \in {"fire_weather", "chain_control", "road_segment"} |-> s],
                 features |-> [l \in {"fire_weather", "chain_control", "road_segment"} |->
                                 IF s = "OK" /\ l = "fire_weather" THEN Banner(w) ELSE {}],
                 fireWeather |-> IF s = "OK" THEN w ELSE ""] : s \in {"OK", "UNAVAILABLE"}, w \in {"normal", "red-flag"}}

\* A release with a source that the next one retires, and the next one, of one
\* migration more, on WAL.
MCRelease ==
    [v1 |-> [schema |-> 2, journal |-> "TRUNCATE", sources |-> {"wfigs"}, reporters |-> {"alanpi"}, retired |-> {}],
     v2 |-> [schema |-> 3, journal |-> "WAL", sources |-> {"firis"}, reporters |-> {"alanpi"}, retired |-> {"wfigs"}]]

\* Three counties, the last beyond the coverage.  The second deployment moves a
\* town over the county line and an area away; the third makes an area of what
\* was a town.
MCCounties == {[slug |-> "calaveras", lo |-> 0, hi |-> 10000], [slug |-> "tuolumne", lo |-> 10001, hi |-> 20000],
               [slug |-> "mono", lo |-> 30000, hi |-> 40000]}
Coverage(id, lo, hi, zones) == [id |-> id, lo |-> lo, hi |-> hi, drawn |-> <<lo + 203, hi - 203>>, zones |-> zones]
MCDeployment ==
    [first |-> [areas |-> {Coverage("ebbetts", 2000, 12000, {"CAZ137"}), Coverage("sonora", 14000, 18000, {"CAZ138"})},
                towns |-> {[id |-> "murphys", at |-> 4003], [id |-> "arnold", at |-> 9994]},
                roads |-> {[id |-> "hwy4", from |-> 3000, to |-> 11000, path |-> <<2987, 11003>>]}],
     moved |-> [areas |-> {[Coverage("ebbetts", 2000, 12004, {"CAZ137"}) EXCEPT !.drawn = <<>>]},
                towns |-> {[id |-> "murphys", at |-> 4003], [id |-> "arnold", at |-> 10007]},
                roads |-> {[id |-> "hwy4", from |-> 3000, to |-> 11000, path |-> <<>>]}],
     recast |-> [areas |-> {Coverage("arnold", 2000, 12000, {"CAZ137"})},
                 towns |-> {[id |-> "murphys", at |-> 4003]}, roads |-> {}]]
MCLinkPositions == {15, 25, Nowhere}
MCRegion == [lo |-> 10, hi |-> 20]
MCProduct == {[state |-> "red-flag", zones |-> {"CAZ137"}], [state |-> "elevated", zones |-> {"CAZ138"}]}

FeedsInit ==
    /\ part \in FeedParts
    /\ part = "lanes" => \E l \in LegacyStarts : LaneInit(IF l THEN MCLegacy ELSE {})
    /\ part = "wildfire" => FireInit
    /\ part = "power" => PowerInit
    /\ part = "evacuation" => EvacInit
    /\ part = "burn" => BurnInit
    /\ part = "weather" => WeatherInit
    /\ part = "quakes" => QuakeInit
    /\ part = "telemetry" => TelemetryInit
    /\ part = "companion" => NodeInit
    /\ part = "archive" => ArchiveInit("alanpi")
    /\ part = "summary" => SummaryInit
    /\ part = "open" => OpenInit
    /\ part = "loop" => LoopInit
    /\ part = "places" => DirectoryInit
    /\ part = "relay" => RelayInit
    /\ part = "links" => LinksInit

FeedsNext ==
    \/ part = "lanes" /\ LaneNext(MCFiles, MCGarblings)
    \/ part = "wildfire" /\ FireNext
    \/ part = "power" /\ PowerNext
    \/ part = "evacuation" /\ EvacNext
    \/ part = "burn" /\ BurnNext({"placer"})
    \/ part = "weather" /\ WeatherNext
    \/ part = "quakes" /\ QuakeNext
    \/ part = "telemetry" /\ TelemetryNext
    \/ part = "companion" /\ NodeNext
    \/ part = "archive" /\ ArchiveNext
    \/ part = "summary" /\ SummaryNext
    \/ part = "open" /\ OpenNext
    \/ part = "loop" /\ LoopNext
    \/ part = "places" /\ DirectoryNext
    \/ part = "relay" /\ RelayNext
    \/ part = "links" /\ LinksNext

Spec == FeedsInit /\ [][FeedsNext]_feedVars
============================================================================
