SPECIFICATION FairSpec
CONSTANTS
    MaxLen = 3
    Faults = {"ARBLOST", "BUSERR"}
INVARIANTS InBounds Parked BusReleased Whole
PROPERTIES StackSafe Returns
