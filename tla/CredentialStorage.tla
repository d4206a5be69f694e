------------------------- MODULE CredentialStorage -------------------------
(* The Wi-Fi credentials in the EEPROM and their copies in memory           *)
(* (M/credentials_storage/credentials_storage.c, with M for                 *)
(* src/mcc_generated_files), as the start of the program, the wifi command  *)
(* and the provisioning use them.                                           *)
(*                                                                          *)
(* The name, the password and the kind of security have places of a fixed   *)
(* length.  A save writes a byte at a time, up to the NUL of each string,   *)
(* and leaves what is behind it; a read takes every byte.  The power may go *)
(* between two bytes.                                                       *)
(*                                                                          *)
(* What a provisioned password writes behind the kind of security is the    *)
(* debug level, which is never read.                                        *)
EXTENDS Integers, Sequences

CONSTANTS
    MaxLength,  \* MAX_WIFI_CREDENTIALS_LENGTH: a string and its NUL
    Chars,      \* the bytes of names and passwords, and of the kinds of security
    NUL,        \* the byte that ends a string
    Erased,     \* an erased byte, 0xFF
    Default,    \* the credentials of cloud_config.h
    Provisions  \* what a client of the access point may send

Text == Seq(Chars)
Credentials == [name : Text \ {<<>>}, pass : Text, auth : Chars]

ASSUME StorageAssumption ==
    /\ MaxLength \in Nat /\ MaxLength > 2
    /\ NUL \notin Chars /\ Erased \notin Chars \cup {NUL}
    /\ Default \in Credentials /\ Provisions \subseteq Credentials
    /\ Len(Default.name) < MaxLength /\ Len(Default.pass) < MaxLength

VARIABLES
    eeprom,    \* the bytes of the EEPROM
    ssid,      \* the copies in memory
    pass,
    authType,
    writes,    \* the bytes a save has to write yet, with their places
    then,      \* what follows the save
    pc,        \* "down", "up", "saving", or "hung": in wait for the watchdog
    saved,     \* ghost: the credentials that were to be saved last
    partial    \* ghost: they were not saved to the last byte

storageVars == <<eeprom, ssid, pass, authType, writes, then, pc, saved, partial>>

Byte == Chars \cup {NUL, Erased}
Buffer == 0 .. MaxLength - 1

EEPROM_SSID == 0
EEPROM_PSW == MaxLength
EEPROM_SEC == 2 * MaxLength

Places == EEPROM_SSID .. EEPROM_SEC

StorageInit ==
    /\ eeprom = [a \in Places |-> Erased]
    /\ ssid = [i \in Buffer |-> NUL] /\ pass = ssid /\ authType = NUL
    /\ writes = <<>> /\ then = "up" /\ pc = "down"
    /\ saved = Default /\ partial = FALSE

\* the string in a buffer: up to the first NUL, or all of it
String(b) ==
    CHOOSE t \in {[i \in 1 .. n |-> b[i - 1]] : n \in 0 .. MaxLength} :
        /\ \A i \in 1 .. Len(t) : t[i] # NUL
        /\ Len(t) < MaxLength => b[Len(t)] = NUL

\* strcpy and strncpy of t, of at most n bytes
Strcpy(b, t) ==
    [i \in Buffer |-> IF i < Len(t) THEN t[i + 1] ELSE IF i = Len(t) THEN NUL ELSE b[i]]

Strncpy(b, t, n) ==
    [i \in Buffer |-> IF i >= n THEN b[i] ELSE IF i < Len(t) THEN t[i + 1] ELSE NUL]

-----------------------------------------------------------------------------
(* Saving.                                                                    *)

\* mutant of Written: i = strlen
WrittenOpen(place, t) == [i \in 1 .. Len(t) |-> <<place + i - 1, t[i]>>]

\* A string without its NUL goes on into what is behind its buffer, and these bytes are
\* written over with the next field.
Written(place, t) ==
    [i \in 1 .. Len(t) + 1 |-> <<place + i - 1, IF i <= Len(t) THEN t[i] ELSE NUL>>]

\* CREDENTIALS_STORAGE_save; the caller goes on with k
Save(n, p, a, k) ==
    /\ writes' = Written(EEPROM_SSID, n) \o Written(EEPROM_PSW, p) \o <<<<EEPROM_SEC, a>>>>
    /\ pc' = "saving" /\ then' = k
    /\ partial' = TRUE

EepromWrite ==
    /\ pc = "saving"
    /\ LET w == Head(writes)
       IN  eeprom' = [a \in Places |-> IF a = w[1] THEN w[2] ELSE eeprom[a]]
    /\ writes' = Tail(writes)
    /\ IF writes' = <<>>
       THEN pc' = then /\ then' = "up" /\ partial' = FALSE
       ELSE UNCHANGED <<pc, then, partial>>
    /\ UNCHANGED <<ssid, pass, authType, saved>>

\* set_wifi_auth with one parameter, or with two and more
SetWifiAuth(c, isOpen) ==
    /\ ssid' = Strncpy(ssid, c.name, MaxLength - 1)
    /\ pass' = IF isOpen THEN Strcpy(pass, <<>>) ELSE Strncpy(pass, c.pass, MaxLength - 1)
    /\ authType' = c.auth
    /\ saved' = c
    /\ Save(String(ssid'), String(pass'), authType', "up")
    /\ UNCHANGED eeprom

\* M2M_WIFI_RESP_PROVISION_INFO: saved, and the watchdog is waited for
Provisioned(c) ==
    /\ pc = "up"
    /\ saved' = c
    /\ Save(c.name, c.pass, c.auth, "hung")
    /\ UNCHANGED <<eeprom, ssid, pass, authType>>

-----------------------------------------------------------------------------
(* Stop and start.                                                            *)

\* the reset command
Reset ==
    /\ pc' = "hung"
    /\ UNCHANGED <<eeprom, ssid, pass, authType, writes, then, saved, partial>>

\* the watchdog, or the power, any time
Stops ==
    /\ pc # "down"
    /\ pc' = "down"
    /\ ssid' = [i \in Buffer |-> NUL] /\ pass' = [i \in Buffer |-> NUL] /\ authType' = NUL
    /\ writes' = <<>> /\ then' = "up"
    /\ UNCHANGED <<eeprom, saved, partial>>

\* application_init: CREDENTIALS_STORAGE_read, and the defaults when the EEPROM is blank
Starts ==
    /\ pc = "down"
    /\ pc' = "up"
    /\ LET name == [i \in Buffer |-> eeprom[EEPROM_SSID + i]]
           psw == [i \in Buffer |-> eeprom[EEPROM_PSW + i]]
       IN  IF name[0] = Erased
           THEN /\ ssid' = Strcpy(name, Default.name) /\ pass' = Strcpy(psw, Default.pass)
                /\ authType' = Default.auth
           ELSE ssid' = name /\ pass' = psw /\ authType' = eeprom[EEPROM_SEC]
    /\ UNCHANGED <<eeprom, writes, then, saved, partial>>

-----------------------------------------------------------------------------
(* Properties.                                                                *)

StorageType ==
    /\ eeprom \in [Places -> Byte]
    /\ ssid \in [Buffer -> Byte] /\ pass \in [Buffer -> Byte] /\ authType \in Byte
    /\ writes \in Seq(Nat \X Byte)
    /\ then \in {"up", "hung"} /\ pc \in {"down", "up", "saving", "hung"}
    /\ saved \in Credentials /\ partial \in BOOLEAN

\* the strings in memory, and in the EEPROM
InMemory(c) == String(ssid) = c.name /\ String(pass) = c.pass /\ authType = c.auth

\* Credentials of fewer than 30 characters are what the program has after the command
\* that saved them and after every start, whatever was in the EEPROM before, unless
\* their save was cut off.
SavedIsRead ==
    /\ pc = "up" /\ ~partial
    /\ Len(saved.name) < MaxLength - 1 /\ Len(saved.pass) < MaxLength - 1
    => InMemory(saved)

=============================================================================
