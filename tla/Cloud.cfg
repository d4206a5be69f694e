SPECIFICATION FairSpec
CONSTANTS
    HifFails = TRUE
    MaxUp = 1
    MaxDown = 2
    UserActs = TRUE
    NetFails = TRUE
    Refuses = TRUE
INVARIANTS Watched ConnectedUnwatched SocketAgrees NoLeak KeepsAlive Subscribes
PROPERTIES ConnectFirst Recovers ConnackAwaited
CHECK_DEADLOCK FALSE
