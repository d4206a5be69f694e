---------------------------- MODULE CommandLine ----------------------------
(* The command line (M/cli/cli.c, with M for src/mcc_generated_files) and   *)
(* the credentials it saves.                                                *)
(*                                                                          *)
(* CLI_task reads what USART 2 has received, a character at a time, and     *)
(* runs a command at the end of each line, in the same call: while one      *)
(* saves credentials the characters wait.  The user's terminal ends every   *)
(* line the same way, with CR, LF or both.                                  *)
(*                                                                          *)
(* A line one character too long has its NUL written behind the array       *)
(* command: onto commandTooLongFlag or onto something else, as the build    *)
(* has it.                                                                  *)
EXTENDS CredentialStorage, SequencesExt

CONSTANTS
    Keys,              \* the characters of lines
    CR, LF,            \* the characters that end them
    MAX_COMMAND_SIZE,  \* the length of command
    Commands,          \* what the lines that are commands ask for
    Behind,            \* the variables that may lie behind command
    MaxTyped           \* bound: characters that wait in USART 2

Line == Seq(Keys)

ASSUME CommandAssumption ==
    /\ CR \notin Keys /\ LF \notin Keys \cup {CR} /\ NUL \notin {CR, LF}
    /\ MAX_COMMAND_SIZE \in Nat \ {0} /\ MaxTyped \in Nat \ {0}
    /\ DOMAIN Commands \subseteq Line \ {<<>>}
    /\ \A t \in DOMAIN Commands :
         \/ /\ Commands[t].op \in {"open", "psk"} /\ Commands[t].arg \in Credentials
            /\ Commands[t].op = "open" => Commands[t].arg.pass = <<>>
         \/ Commands[t].op \in {"reset", "other"}
    /\ Behind \subseteq {"commandTooLongFlag", "other"} /\ Behind # {}

VARIABLES
    rx,                  \* received and not read
    command,             \* the characters of the line, command[0 .. index - 1]
    commandTooLongFlag,
    test,                \* the last end of a line, as endOfLineTest has it
    ending,              \* the user: how the terminal ends a line
    typed,               \* ghost: the line that is being typed
    lines                \* ghost: the lines entered and not read to their end

lineVars == <<command, commandTooLongFlag, test>>
userVars == <<ending, typed, lines>>
vars == <<storageVars, rx, lineVars, userVars>>

Endings == {<<CR>>, <<LF>>, <<CR, LF>>}

Init ==
    /\ StorageInit
    /\ rx = <<>> /\ command = <<>> /\ commandTooLongFlag = FALSE /\ test = NUL
    /\ ending \in Endings /\ typed = <<>> /\ lines = <<>>

-----------------------------------------------------------------------------
(* The user.                                                                  *)

Types(c) ==
    /\ pc \in {"up", "saving"}            \* nothing is read any more in "hung"
    /\ Len(rx) < MaxTyped
    /\ Len(typed) <= MAX_COMMAND_SIZE       \* longer lines are like these
    /\ rx' = Append(rx, c) /\ typed' = Append(typed, c)
    /\ UNCHANGED <<storageVars, lineVars, ending, lines>>

Enters ==
    /\ pc \in {"up", "saving"}
    /\ Len(rx) + Len(ending) <= MaxTyped
    /\ rx' = rx \o ending
    /\ lines' = Append(lines, typed) /\ typed' = <<>>
    /\ UNCHANGED <<storageVars, lineVars, ending>>

-----------------------------------------------------------------------------
(* CLI_task.                                                                  *)

\* command_received; a line that is no command is answered with the list of them
Runs(t) ==
    IF t \notin DOMAIN Commands THEN UNCHANGED storageVars
    ELSE LET c == Commands[t]
         IN  CASE c.op = "open"  -> SetWifiAuth(c.arg, TRUE)
               [] c.op = "psk"   -> SetWifiAuth(c.arg, FALSE)
               [] c.op = "reset" -> Reset
               [] c.op = "other" -> UNCHANGED storageVars

Reads(c) ==
    /\ pc = "up"
    /\ rx # <<>> /\ c = Head(rx)
    /\ rx' = Tail(rx)

\* mutant of ReadsKey: the line may be one longer than the array
ReadsKeyPast(c) ==
    /\ Reads(c) /\ c \in Keys
    /\ IF Len(command) <= MAX_COMMAND_SIZE
       THEN command' = Append(command, c) /\ UNCHANGED commandTooLongFlag
       ELSE commandTooLongFlag' = TRUE /\ UNCHANGED command
    /\ UNCHANGED <<storageVars, test, userVars>>

ReadsKey(c) ==
    /\ Reads(c) /\ c \in Keys
    /\ IF Len(command) < MAX_COMMAND_SIZE
       THEN command' = Append(command, c) /\ UNCHANGED commandTooLongFlag
       ELSE commandTooLongFlag' = TRUE /\ UNCHANGED command
    /\ UNCHANGED <<storageVars, test, userVars>>

\* the user's lines: one less, but for the second character of an end
LineEnds(c) ==
    /\ lines' = IF c = LF /\ ending = <<CR, LF>> THEN lines ELSE Tail(lines)
    /\ UNCHANGED <<ending, typed>>

\* mutant of ReadsEnd: only a line that was run clears the flag
ReadsEndStuck(c) ==
    /\ Reads(c) /\ c \in {CR, LF}
    /\ \E b \in Behind :
         LET tooLong == commandTooLongFlag /\ (Len(command) = MAX_COMMAND_SIZE =>
                                                  b # "commandTooLongFlag")
         IN  IF tooLong
             THEN UNCHANGED <<test, storageVars, commandTooLongFlag>>
             ELSE /\ IF c = LF /\ test = CR THEN UNCHANGED storageVars ELSE Runs(command)
                  /\ test' = c /\ commandTooLongFlag' = FALSE
    /\ command' = <<>>
    /\ LineEnds(c)

\* The NUL behind a line of the array's length clears what is there.  endOfLineTest
\* is not called for a line that is too long.
ReadsEnd(c) ==
    /\ Reads(c) /\ c \in {CR, LF}
    /\ \E b \in Behind :
         LET tooLong == commandTooLongFlag /\ (Len(command) = MAX_COMMAND_SIZE =>
                                                  b # "commandTooLongFlag")
         IN  IF tooLong
             THEN UNCHANGED <<test, storageVars>>
             ELSE /\ IF c = LF /\ test = CR THEN UNCHANGED storageVars ELSE Runs(command)
                  /\ test' = c
    /\ command' = <<>> /\ commandTooLongFlag' = FALSE
    /\ LineEnds(c)

CLI_task == \E c \in Keys \cup {CR, LF} : ReadsKey(c) \/ ReadsEnd(c)

-----------------------------------------------------------------------------
(* The rest.                                                                  *)

Restarts ==
    /\ Stops
    /\ rx' = <<>> /\ command' = <<>> /\ commandTooLongFlag' = FALSE /\ test' = NUL
    /\ typed' = <<>> /\ lines' = <<>>
    /\ UNCHANGED ending

Storage ==
    /\ EepromWrite \/ Starts \/ \E c \in Provisions : Provisioned(c)
    /\ UNCHANGED <<rx, lineVars, userVars>>

Next ==
    \/ \E c \in Keys : Types(c)
    \/ Enters
    \/ CLI_task \/ Storage \/ Restarts

Spec == Init /\ [][Next]_vars

-----------------------------------------------------------------------------
(* Properties.                                                                *)

LineType ==
    /\ rx \in Seq(Keys \cup {CR, LF})
    /\ command \in Line /\ Len(command) <= MAX_COMMAND_SIZE
    /\ commandTooLongFlag \in BOOLEAN /\ test \in {NUL, CR, LF}
    /\ ending \in Endings /\ typed \in Line /\ lines \in Seq(Line)

TypeOK == StorageType /\ LineType

\* what the user has typed, from the line that CLI_task is at
Entered == FlattenSeq([i \in 1 .. Len(lines) |-> lines[i] \o ending]) \o typed

\* No character is lost and none read twice: the line that is being read and what
\* waits in USART 2 make what the user has typed.  The array has as much of a line as
\* it can hold, and the flag says that there was more.
LineKept ==
    LET rest == IF rx # <<>> /\ Head(rx) = LF /\ ending = <<CR, LF>> THEN Tail(rx) ELSE rx
        read == Len(Entered) - Len(rest)
    IN  /\ read >= 0 /\ SubSeq(Entered, read + 1, Len(Entered)) = rest
        /\ commandTooLongFlag <=> read > MAX_COMMAND_SIZE
        /\ command = SubSeq(Entered, 1, IF commandTooLongFlag THEN MAX_COMMAND_SIZE ELSE read)

\* what a line does
Does(t) ==
    IF t \notin DOMAIN Commands THEN UNCHANGED storageVars
    ELSE CASE Commands[t].op \in {"open", "psk"} -> pc' = "saving" /\ saved' = Commands[t].arg
           [] Commands[t].op = "reset"           -> pc' = "hung"
           [] Commands[t].op = "other"           -> UNCHANGED storageVars

\* Each line the user enters is run once, in order, and nothing else is but empty
\* lines; one that is too long is refused, or run as far as it fits.
LinesRun ==
    [][ CLI_task /\ (lines' # lines \/ ~UNCHANGED storageVars)
        => /\ lines # <<>> /\ lines' = Tail(lines)
           /\ LET t == Head(lines)
              IN  IF Len(t) <= MAX_COMMAND_SIZE THEN Does(t)
                  ELSE \/ UNCHANGED storageVars
                       \/ Does(SubSeq(t, 1, MAX_COMMAND_SIZE)) ]_vars

=============================================================================
