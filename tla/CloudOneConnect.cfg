SPECIFICATION Spec
CONSTANTS
    HifFails = FALSE
    MaxUp = 2
    MaxDown = 2
    UserActs = TRUE
    NetFails = TRUE
    Refuses = FALSE
PROPERTIES OneConnect
CHECK_DEADLOCK FALSE
