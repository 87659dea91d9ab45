SPECIFICATION Spec
CONSTANTS
    wildfire = wildfire
    calfire = calfire
    firis = firis
    incident = incident
    perimeter = perimeter
    plain = plain
    dated = dated
    enh = enh
    tel = tel
    town = town
    Nil = Nil
    NoExtra = NoExtra
    Event <- TwoEvents
    Content <- OnlyPlain
    Extra <- OnlyEnh
    Place <- NoPlaces
    Near <- Nowhere
    Poller <- OnePoller
    Source <- TwoSources
    PollerOf <- BothPolled
    SourceOf <- Owners
    Policy <- Policies
    ExpireAfter = 2
    StaleAfter = 1
    Coalesce = 1
    ExpiresAt <- UndatedOne
    Alerts <- OneEvent
    Enhanced = enh
    Telemetry <- NoExtras
    BudgetPerTick = 1
    PollStatus <- ActiveOnly
    Faults = TRUE
    MaxTime = 0
    MaxRev = 3
CHECK_DEADLOCK FALSE
INVARIANTS CleanTickSettles
PROPERTIES EndsOnEvidence
