SPECIFICATION Spec
CONSTANTS
    wildfire = wildfire
    calfire = calfire
    firis = firis
    incident = incident
    perimeter = perimeter
    plain = plain
    dated = dated
    enh = enh
    tel = tel
    town = town
    Nil = Nil
    NoExtra = NoExtra
    Event <- OneEvent
    Content <- Both
    Extra <- OnlyTel
    Place <- OneTown
    Near <- OneInTown
    Poller <- OnePoller
    Source <- OneSource
    PollerOf <- OnePolled
    SourceOf <- OneOwner
    Policy <- ExpirePolicy
    ExpireAfter = 2
    StaleAfter = 1
    Coalesce = 1
    ExpiresAt <- Dated
    Alerts <- NoExtras
    Enhanced = NoExtra
    Telemetry <- OnlyTel
    BudgetPerTick = 0
    PollStatus <- ActiveOnly
    Faults = TRUE
    MaxTime = 3
    MaxRev = 2
CHECK_DEADLOCK FALSE
INVARIANTS SeenTracksConfirmation ReconcileAttaches
