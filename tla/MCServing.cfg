SPECIFICATION Spec
CHECK_DEADLOCK FALSE
CONSTANTS
    Parts = {"incidents", "conditions", "forecasts", "roads", "cameras",
             "chain_control", "message_sign", "road_segment", "fire_weather", "gate"}
    CacheKey <- MCCacheKey
    NoEntry = NoEntry
    MaxNow = 3
    OneArea = mother_lode
    Area <- MCArea
    Row <- MCRow
    Within <- MCWithin
    noPlace = noPlace
    NoPlace = noPlace
    poller = poller
    visitor = visitor
    refresher = refresher
    somewhere = somewhere
    Poller = poller
    Visitor = {visitor}
    KmlClosures = TRUE
    IncidentTTL = 1
    MaxEnhancements = 1
    Location = {"murphys"}
    WxCaller = {visitor}
    WeatherTTL = 1
    ForecastTTL = 1
    GridURLTTL = 2
    NoData = NoData
    MonitoredRoad <- MCRoad
    Refresher = refresher
    RoadVisitor = {visitor}
    Window <- MCWindow
    ChpAlert <- MCChp
    Condition <- MCCondition
    Control = {}
    OnRouteMeters = 100
    MaxDistance = 5000
    Invalid = Invalid
    RoadsTTL = 1
    GoogleTTL = 2
    District = {10, 3}
    CameraRow <- MCCameraRow
    RefreshWait = 2
    RetryWait = 1
    Never = 0
    CamPlace = {"arnold"}
    CamFar <- MCFar
    NearMeters = 5
    MaxCamNow = 4
    NoPoint = NoPoint
    SameSpot = 0
    Checkpoint <- MCCheckpoint
    Sign <- MCSign
    KmlMark <- MCMark
    HzDistrict = {10, 3}
    HzArea <- MCHzArea
    HzRoad <- MCHzRoad
    FireProduct <- MCProduct
    HzTTL = 2
    Requests = {r1, r2, r3, r4}
    Ignoring = {r4}
INVARIANTS ServedWithinBound ClosuresKnown CameraStatusHonest LayerErrorIsNoAllClear DrainIsHonest
PROPERTIES RecordedListIsNoAllClear
