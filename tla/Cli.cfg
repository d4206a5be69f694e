\* A command array of two characters, places of three and their NUL, and a name that
\* is longer than its place.
SPECIFICATION Spec
CONSTANTS
    a = a
    b = b
    o = o
    p = p
    NUL = NUL
    Erased = Erased
    CR = CR
    LF = LF
    MaxLength = 4
    Chars <- MCChars
    Default <- MCDefault
    Provisions <- MCProvisions
    Keys <- MCKeys
    MAX_COMMAND_SIZE = 2
    Commands <- MCCommands
    Behind = {"commandTooLongFlag", "other"}
    MaxTyped = 2
INVARIANTS SavedIsRead LineKept
PROPERTY LinesRun
CHECK_DEADLOCK FALSE
