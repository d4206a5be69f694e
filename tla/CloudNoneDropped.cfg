SPECIFICATION Spec
CONSTANTS
    HifFails = FALSE
    MaxUp = 2
    MaxDown = 2
    UserActs = FALSE
    NetFails = TRUE
    Refuses = FALSE
PROPERTIES NoneDropped
CHECK_DEADLOCK FALSE
