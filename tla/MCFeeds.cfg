SPECIFICATION Spec
CHECK_DEADLOCK FALSE
CONSTANTS
    FeedParts = {"lanes", "wildfire", "power", "evacuation", "burn", "weather", "quakes", "telemetry", "companion", "archive", "summary", "open", "loop", "places", "relay", "links"}
    LegacyStarts = {FALSE}
    Area <- MCArea
    Nowhere = Nowhere
    ExpireSource = {"firis", "nws"}
    ClosureDistrict = {10, 3}
    ClosureWindow <- MCWindow
    NoEnd = NoEnd
    OverrunGrace = 0
    DefaultGrace = 1
    AdoptMeters = 1
    LegacyEvents <- MCLegacy
    MaxClock = 4
    Fire <- MCFires
    PerimRow <- MCFireRows
    WildfireMargin = 1
    ClusterWidth = 4
    Reporter <- MCReporter
    Supplied <- MCSupplied
    NoHash = NoHash
    TokenA = TokenA
    MinInterval = 1
    StaleAfter = 2
    ReporterDeadMultiple = 4
    BurnLine = {"placer", "nevada"}
    DialedLine = {"placer", "nevada"}
    BurnToken = {TokenA}
    BurnDayStale = 1
    DayLength = 3
    NotBefore = 1
    MaxBurnClock = 3
    MaxBodies = 2
    Outage <- MCOutage
    ShutoffRow <- MCShutoff
    Alert <- MCAlert
    Unset = Unset
    ExpireAfter = 2
    AreaZones <- MCAreaZones
    AlertTTL = 1
    FetchTime = 1
    Quake <- MCQuake
    QuakeWindow = 2
    QuakeMinMagnitude = 25
    MaxAlertClock = 4
    EvacRow <- ZonesAndSubzones
    Gateway <- MCGateway
    MaxMeshTries = 1
    RepeaterInterval = 2
    HibernateAfter = 1
    HibernateInterval = 4
    RepeaterRetries <- MCRetries
    Offset = 0
    CheckTime = 1
    NodeKey = {"k1", "k2"}
    MaxPollClock = 4
    Monitor <- MCMonitor
    MonitorStale = 1
    MonitorDead = 2
    ArchiveRetention = 1
    MaxArchiveClock = 3
    WrongClock = {"relay"}
    ClockBack = 1
    LayerSources <- MCLayerSources
    MeshEnabled = TRUE
    PolledSource = {"caloes", "calfire"}
    EventVersion <- MCVersions
    StandingEvent <- MCStanding
    StalePolls = 1
    ReadPageSize = 2
    Condition <- MCCondition
    NoRequest = NoRequest
    MaxReads = 1
    MaxSummaryPolls = 2
    Release <- MCRelease
    KindMigration = 3
    NoProcess = NoProcess
    MaxLaunches = 4
    StatsRefreshInterval = 3
    BootStatsRefreshDelay = 1
    MaxPushes = 2
    MaxBoots = 3
    Deployment <- MCDeployment
    CountyShape <- MCCounties
    Precision = 10
    Epsilon = 100
    TownRadius = 3000
    CorridorBuffer = 500
    Product <- MCProduct
    Query = {4003, 12000, 31000}
    MaxDeploys = 3
    MaxActivations = 3
    MeshKey = {"k1", "k2", "k3"}
    LinkPosition <- MCLinkPositions
    MeshRegion <- MCRegion
    MaxLinkChanges = 5
INVARIANTS OneReadingOneRow QuietIsBacked SchemaIsWhole WakeIsNotLost FireWeatherIsLocal BurnReachesTheTown
           RelayReleaseIsTrue MeshMapIsWhole RefusedIsNotResent
PROPERTIES ClosureEndsWhenOver FireStaysOnTheMap OutageStaysAsDrawn UnsplitZonesAtTheirWorst AllowedIsBacked AlertsFollowNws
