------------------------------ MODULE Hazards ------------------------------
(***************************************************************************)
(* The condition layers of the map, hazards/service.go and messagesign.go:   *)
(* chain controls, message signs, road segments and fire weather, each built *)
(* on demand and cached so that a burst of clients is one fetch, and a       *)
(* failed fetch can fall back to the last good one.  One area.              *)
(***************************************************************************)
EXTENDS Cache, Severity, Sequences, FiniteSets

(***************************************************************************)
(* The Caltrans clients, clients/cwwp2 and clients/caltrans: what they make*)
(* of the files they fetch.  A file is [state, rows]; the state says whether*)
(* it arrived, decodes, has rows and carries a recent stamp.               *)
(***************************************************************************)

CONSTANTS NoPoint,      \* no position
          SameSpot      \* sameCheckpointMeters

Fetched(rows) == [err |-> "none", rows |-> rows]
Failed(why) == [err |-> why, rows |-> {}]

\* Client.get: transport, status and body.
GetFile(file) == IF file.state = "down" THEN Failed("http") ELSE Fetched(file.rows)

\* checkFresh: the newest stamp of a file that has rows.
CheckFresh(file) ==
    IF file.rows = {} THEN "none"
    ELSE IF file.state = "unstamped" THEN "ErrNoRecordTime"
    ELSE IF file.state = "frozen" THEN "ErrStaleFeed" ELSE "none"

\* ParseChainControls, ParseCameras, ParseMessageSigns: no rows is an error.
Parse(file) ==
    IF file.state = "garbled" THEN Failed("decode")
    ELSE IF file.rows = {} THEN Failed("ErrEmptyFeed") ELSE Fetched(file.rows)

FetchStamped(file) ==
    IF GetFile(file).err # "none" THEN GetFile(file)
    ELSE IF Parse(file).err # "none" THEN Parse(file)
    ELSE IF CheckFresh(file) # "none" THEN Failed(CheckFresh(file)) ELSE Fetched(file.rows)

\* Client.ChainControls, Client.MessageSigns: fresh or an error.
FetchChainControls(file) == FetchStamped(file)
FetchMessageSigns(file) == FetchStamped(file)

(***************************************************************************)
(* Chain controls                                                          *)
(***************************************************************************)
\* ParseLevel and Level.Active
ParseLevel(status) == IF status \in {"R-0", "R-1", "R-2", "R-3"} THEN status ELSE "unknown"
LevelActive(l) == l \in {"R-1", "R-2", "R-3"}

\* chainControlFromCWWP2
ChainControlFromCWWP2(cp) ==
    [at |-> cp.at, dir |-> cp.dir, source |-> "cwwp2",
     level |-> IF LevelActive(ParseLevel(cp.status)) THEN cp.status ELSE "",
     unrecognized |-> ~LevelActive(ParseLevel(cp.status)),
     closed |-> FALSE, uncorroborated |-> FALSE]

\* parseChainControlDetails with parseChainControlName: what a cc.kml placemark
\* says; a blank name has neither direction nor level.
ParseChainControlDetail(mark) ==
    [at |-> mark.at, dir |-> mark.dir, source |-> "quickmap", level |-> mark.level,
     unrecognized |-> FALSE, closed |-> mark.style = "full-closure" \/ mark.saysClosed, uncorroborated |-> FALSE]

\* isKMLSupplement: road closures and truck levels, of which CWWP2 says nothing.
IsKMLSupplement(mark) == mark.style = "full-closure" \/ mark.truck

\* sameCheckpoint: the same spot, and the same direction when both name one.
SameCheckpoint(a, b) ==
    /\ a.at # NoPoint /\ b.at # NoPoint
    /\ a.dir = "" \/ b.dir = "" \/ a.dir = b.dir
    /\ a.at - b.at <= SameSpot /\ b.at - a.at <= SameSpot

AtActiveCheckpoint(k, cw) == \E c \in cw : ~c.unrecognized /\ SameCheckpoint(k, c)
SameCheckpointAny(c, others) == \E k \in others : SameCheckpoint(k, c)

\* mergeKML
MergeKML(cw, quiet, marks) ==
    LET keep == {m \in marks : IsKMLSupplement(m) \/ ~AtActiveCheckpoint(ParseChainControlDetail(m), cw)}
        kept == {LET k == ParseChainControlDetail(m)
                 IN  [k EXCEPT !.uncorroborated = ~IsKMLSupplement(m) /\ SameCheckpointAny(k, quiet)] : m \in keep}
    IN  {c \in cw : ~(c.unrecognized /\ SameCheckpointAny(c, kept))} \cup kept

\* extractGeometry and processPlacemark: a placemark without geometry is skipped.
ParseKMLFeed(file) ==
    IF file.state \in {"down", "garbled"} THEN Failed("kml")
    ELSE Fetched({m \in file.rows : m.at # NoPoint})

\* chainControlsCWWP2: every district or none; one source down is partial data,
\* and an empty cc.kml is not trusted alone.
ChainControlsCWWP2(files, kml) ==
    LET cwDown == \E d \in DOMAIN files : FetchChainControls(files[d]).err # "none"
        rows == IF cwDown THEN {} ELSE UNION {FetchChainControls(files[d]).rows : d \in DOMAIN files}
        active == {cp \in rows : LevelActive(ParseLevel(cp.status))
                                 \/ (ParseLevel(cp.status) = "unknown" /\ cp.inService)}
        quiet == {cp \in rows : ParseLevel(cp.status) = "R-0"}
        cw == {ChainControlFromCWWP2(cp) : cp \in active}
        marks == ParseKMLFeed(kml).rows
        kmlDown == ParseKMLFeed(kml).err # "none"
    IN  IF cwDown /\ (kmlDown \/ marks = {}) THEN [err |-> "hard", controls |-> {}]
        ELSE IF cwDown THEN [err |-> "partial", controls |-> {ParseChainControlDetail(m) : m \in marks}]
        ELSE IF kmlDown THEN [err |-> "partial", controls |-> cw]
        ELSE [err |-> "none",
              controls |-> MergeKML(cw, {ChainControlFromCWWP2(cp) : cp \in quiet}, marks)]

\* ParseChainControlsDetailed: without CWWP2 districts cc.kml alone.
ParseChainControlsDetailed(files, kml) ==
    IF DOMAIN files # {} THEN ChainControlsCWWP2(files, kml)
    ELSE IF ParseKMLFeed(kml).err # "none" THEN [err |-> "hard", controls |-> {}]
    ELSE [err |-> "none", controls |-> {ParseChainControlDetail(m) : m \in ParseKMLFeed(kml).rows}]

(***************************************************************************)
(* Message signs                                                           *)
(***************************************************************************)
\* parseDisplay: the mode must agree with the pages that carry text.
ParseDisplay(sign) ==
    IF sign.notReported THEN "unknown"
    ELSE IF sign.mode = "blank" /\ sign.pages = {} THEN "blank"
    ELSE IF sign.mode = "one" /\ sign.pages = {1} THEN "one"
    ELSE IF sign.mode = "two" /\ sign.pages = {1, 2} THEN "two" ELSE "unknown"

\* MessageSign.Pages
ShownPages(sign) == IF ParseDisplay(sign) \in {"one", "two"} THEN sign.pages ELSE {}

(***************************************************************************)
(* The layers                                                              *)
(***************************************************************************)

CONSTANTS Checkpoint,    \* CWWP2 checkpoints: [name, district, at, dir, inService]
          Sign,          \* message signs: [name, district, at, mode, pages, notReported]
          KmlMark,       \* cc.kml placemarks
          HzDistrict,    \* districts of both
          HzArea,        \* the area, [lo, hi, zones]
          HzRoad,        \* monitored roads: [id, origin, destination]
          FireProduct,   \* fire weather products: [state, zones]
          HzTTL          \* layerTTL, five minutes

ASSUME HazardsAssumption ==
    /\ HzTTL \in Nat /\ SameSpot \in Nat /\ NoPoint \notin Int
    /\ {HzArea.lo, HzArea.hi} \subseteq Int
    /\ \A c \in Checkpoint : c.district \in HzDistrict /\ c.at \in Int \cup {NoPoint}
    /\ \A m \in KmlMark : m.at \in Int \cup {NoPoint}

VARIABLES hzStatus,   \* [Checkpoint -> the status its sign shows]
          hzSince,    \* [Checkpoint -> since when]
          hzAnswer    \* the latest layer served

hzVars == <<hzStatus, hzSince, hzAnswer>>

HzKey(layer) == <<"hazard", layer>>
HzLayer == {"chain_control", "message_sign", "road_segment", "fire_weather"}

ASSUME HazardKeysAssumption == \A layer \in HzLayer : HzKey(layer) \in CacheKey

\* layerTTL: road segments are cached by the roads service.
LayerTTL(layer) == IF layer = "road_segment" THEN 0 ELSE HzTTL

InHzArea(at) == at # NoPoint /\ HzArea.lo <= at /\ at <= HzArea.hi

Built(err, features) == [err |-> err, features |-> features]

\* The files of this moment, with what befell each on the way.
CcFile(d, state) ==
    [state |-> state, rows |-> {[at |-> c.at, dir |-> c.dir, inService |-> c.inService,
                                 status |-> hzStatus[c], name |-> c.name] :
                                   c \in {k \in Checkpoint : k.district = d}}]
KmlFile(state, marks) == [state |-> state, rows |-> marks]

\* chainControls: an entry without a position, or one inside the area that
\* cannot be read, keeps the layer from being complete.
ChainControlLayer(in) ==
    LET got == ParseChainControlsDetailed([d \in HzDistrict |-> CcFile(d, in.file[d])], KmlFile(in.kml, in.marks))
        unplaced == {c \in got.controls : c.at = NoPoint}
        here == {c \in got.controls : InHzArea(c.at)}
        unrecognized == {c \in here : c.unrecognized}
        severity(c) == IF c.closed THEN MINOR ELSE FromChainLevel(c.level)
    IN  IF got.err = "hard" THEN Built("hard", {})
        ELSE Built(IF got.err = "partial" \/ unrecognized # {} \/ unplaced # {} THEN "partial" ELSE "none",
                   {[at |-> c.at, level |-> c.level, severity |-> severity(c)] : c \in here \ unrecognized})

\* messageSignFeature: an unreadable sign is listed as unknown.
MessageSignFeature(s) == [at |-> s.at, shows |-> ParseDisplay(s), pages |-> ShownPages(s), severity |-> INFO]

\* messageSigns: a missing district would read as no signs.
MessageSignLayer(in) ==
    LET file(d) == [state |-> in.file[d], rows |-> {s \in Sign : s.district = d}]
        got == [d \in HzDistrict |-> FetchMessageSigns(file(d))]
        signs == UNION {got[d].rows : d \in HzDistrict}
    IN  IF HzDistrict = {} \/ \E d \in HzDistrict : got[d].err # "none" THEN Built("hard", {})
        ELSE Built(IF \E s \in signs : s.at = NoPoint THEN "partial" ELSE "none",
                   {MessageSignFeature(s) : s \in {x \in signs : InHzArea(x.at)}})

\* roadSeverity
RoadSeverity(status, congestion) ==
    IF status = "CLOSED" THEN SEVERE
    ELSE IF status \in {"RESTRICTED", "MAINTENANCE"} \/ congestion \in {"SEVERE", "HEAVY"} THEN MODERATE
    ELSE IF congestion = "MODERATE" THEN MINOR ELSE INFO

\* roadSegments: an endpoint inside, or the segment's own corridor; a road the
\* service does not list is drawn without a status.
RoadSegmentLayer(in) ==
    IF in.roads = "down" THEN Built("hard", {})
    ELSE Built("none", {[at |-> r.origin, severity |-> RoadSeverity(in.roads, "NONE")] :
                          r \in {x \in HzRoad : InHzArea(x.origin) \/ InHzArea(x.destination)}})

\* zonesMatch: what names no zone cannot be scoped out.
ZonesMatch(mine, theirs) == mine = {} \/ theirs = {} \/ mine \cap theirs # {}

\* fireWeather: the issued state as a banner, forecasts where there are any.
FireWeatherLayer(in) ==
    IF in.weather = "down" THEN Built("hard", {})
    ELSE Built("none", {[at |-> NoPoint, severity |-> FromFireWeatherState(p.state)] :
                          p \in {x \in FireProduct : x.state = in.weather /\ ZonesMatch(HzArea.zones, x.zones)}})

\* layerRegistry
Build(layer, in) ==
    CASE layer = "chain_control" -> ChainControlLayer(in)
      [] layer = "message_sign" -> MessageSignLayer(in)
      [] layer = "road_segment" -> RoadSegmentLayer(in)
      [] layer = "fire_weather" -> FireWeatherLayer(in)

Finalize(layer, status, features, fetched) ==
    hzAnswer' = [layer |-> layer, status |-> status, features |-> features, fetched |-> fetched]

\* buildLayer, a fresh entry: a partial one stays STALE for its whole life.
ServeFresh(layer) ==
    LET e == GetWithMetadata(HzKey(layer))
    IN  /\ LayerTTL(layer) > 0 /\ Exists(HzKey(layer)) /\ now < e.created + e.ttl
        /\ Finalize(layer, IF e.data.partial THEN "STALE" ELSE "OK", e.data.features, "cache")
        /\ UNCHANGED <<cacheVars, hzStatus, hzSince>>

\* The fallback of a failed build serves whatever is cached.
FallbackAny(layer) ==
    IF LayerTTL(layer) > 0 /\ Exists(HzKey(layer))
    THEN Finalize(layer, "STALE", GetWithMetadata(HzKey(layer)).data.features, "error")
    ELSE Finalize(layer, "UNAVAILABLE", {}, "error")

\* The fallback of a failed build: the last good features if there are any; a
\* cached nothing is no answer to an error.
Fallback(layer) ==
    IF LayerTTL(layer) > 0 /\ Exists(HzKey(layer)) /\ GetWithMetadata(HzKey(layer)).data.features # {}
    THEN Finalize(layer, "STALE", GetWithMetadata(HzKey(layer)).data.features, "error")
    ELSE Finalize(layer, "UNAVAILABLE", {}, "error")

\* buildLayer, a build.
BuildLayer(layer, in) ==
    LET b == Build(layer, in)
        e == GetWithMetadata(HzKey(layer))
        fresh == LayerTTL(layer) > 0 /\ Exists(HzKey(layer)) /\ now < e.created + e.ttl
    IN  /\ ~fresh
        /\ IF b.err = "hard" THEN Fallback(layer) ELSE Finalize(layer, IF b.err = "partial" THEN "STALE" ELSE "OK", b.features, "build")
        /\ IF b.err # "hard" /\ LayerTTL(layer) > 0 /\ (b.features # {} \/ b.err = "none")
           THEN Set(HzKey(layer), [features |-> b.features, partial |-> b.err = "partial"], LayerTTL(layer))
           ELSE UNCHANGED cache
        /\ UNCHANGED <<now, hzStatus, hzSince>>

\* Caltrans changes a checkpoint; the portal may show junk instead.
ChangeCheckpoint(c, status) ==
    /\ hzStatus[c] # status
    /\ hzStatus' = [hzStatus EXCEPT ![c] = status]
    /\ hzSince' = [hzSince EXCEPT ![c] = now]
    /\ hzAnswer' = [layer |-> "none"]
    /\ UNCHANGED cacheVars

HzTick == Tick /\ hzAnswer' = [layer |-> "none"] /\ UNCHANGED <<hzStatus, hzSince>>
HzCleanup == PeriodicCleanup /\ UNCHANGED hzVars

HzInit ==
    /\ hzStatus = [c \in Checkpoint |-> "R-0"]
    /\ hzSince = [c \in Checkpoint |-> 0]
    /\ hzAnswer = [layer |-> "none"]

HzNext(layers, statuses, inputs) ==
    \/ HzTick \/ HzCleanup
    \/ \E c \in Checkpoint, s \in statuses : ChangeCheckpoint(c, s)
    \/ \E layer \in layers : ServeFresh(layer)
    \/ \E layer \in layers, in \in inputs : BuildLayer(layer, in)

\* What a sign can show, and what can befall the files of one build.
HzStatuses == {"R-0", "R-1", "R-2", "R-3", "junk"}
HzInputs == [file : [HzDistrict -> {"ok", "down", "frozen", "unstamped", "garbled"}], kml : {"ok", "down", "garbled"},
             marks : SUBSET KmlMark, roads : {"OPEN", "CLOSED", "down"}, weather : {"red-flag", "elevated", "down"}]

HazardsSpec == CacheInit /\ HzInit /\ [][HzNext(HzLayer, HzStatuses, HzInputs)]_<<cacheVars, hzVars>>

(***************************************************************************)
(* Properties                                                              *)
(***************************************************************************)
\* Far enough inside that whatever is at the same checkpoint is inside too.
WellInside(at) == at # NoPoint /\ HzArea.lo <= at - SameSpot /\ at + SameSpot <= HzArea.hi

\* What a complete layer says of a checkpoint: its requirement, and if its sign
\* cannot be read, the cc.kml placemark that stands in for it.
Told(c, features) ==
    /\ LevelActive(hzStatus[c]) => c.at # NoPoint /\ \E f \in features : f.at = c.at /\ f.level = hzStatus[c]
    /\ hzStatus[c] = "junk" /\ c.inService /\ (c.at = NoPoint \/ WellInside(c.at)) =>
          c.at # NoPoint /\ \E f \in features : f.at - c.at <= SameSpot /\ c.at - f.at <= SameSpot

\* buildLayer, chainControls, ParseChainControlsDetailed: "an error never
\* becomes a 0".  A chain-control layer that says OK shows every requirement in
\* the area that has stood for longer than the layer is cached, and none of its
\* checkpoints has been unreadable for that long; a failed build shows old
\* features or says UNAVAILABLE.
LayerErrorIsNoAllClear ==
    /\ (hzAnswer.layer = "chain_control" /\ hzAnswer.status = "OK") =>
           \A c \in Checkpoint :
              (InHzArea(c.at) \/ c.at = NoPoint) /\ now > hzSince[c] + HzTTL => Told(c, hzAnswer.features)
    /\ (hzAnswer.layer # "none" /\ hzAnswer.fetched = "error") =>
           (hzAnswer.status = "UNAVAILABLE") = (hzAnswer.features = {})
=============================================================================
