SPECIFICATION FairSpec
CONSTANTS
    MaxQueue = 1
    Faults = {"header", "data", "rxdone", "start"}
    TcpSockMax = 1
    MaxSession = 2
    MaxParts = 3
INVARIANTS AnnouncedOnce HeldWhileRead DataForSession RecvComing
PROPERTIES Handled
CHECK_DEADLOCK FALSE
