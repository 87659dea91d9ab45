SPECIFICATION CoordSpec
CONSTANTS
    old = old
    new = new
    again = again
    taskA = taskA
    taskB = taskB
    opA = opA
    Proc <- Three
    Standby <- ThreeStandby
    Slot <- Slots
    SlotOf <- ThreeSlots
    Ids <- OneId
    LockEnforced = FALSE
CONSTRAINT Handover
CHECK_DEADLOCK FALSE
INVARIANTS SingleWriter
PROPERTIES ImplementsOwnership
