\* legacy activates at boot, standby waits for a command; one of the two at a time (Alone).
SPECIFICATION FairSpec
CONSTANTS
    Proc = {legacy, standby}
    Standby = {standby}
    Ids = {opA, opB, "none"}
    LockEnforced = TRUE
CONSTRAINT Alone
CHECK_DEADLOCK FALSE
INVARIANTS HeldCoversUse UsersStopBeforeClose
PROPERTIES ShutdownTerminates
