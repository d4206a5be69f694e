--------------------------- MODULE MCCommandLine ---------------------------
(* CommandLine for TLC: "w" and a character saves credentials.              *)
EXTENDS CommandLine

CONSTANTS a, b, o, p    \* characters, and the kinds of security

Credential(n, s, k) == [name |-> n, pass |-> s, auth |-> k]

MCChars == {a, b, o, p}
MCDefault == Credential(<<b>>, <<b>>, p)
MCProvisions == {Credential(<<b, b, b, b, b>>, <<b>>, p)}
MCKeys == {"w", "x"}

MCCommands ==
    [t \in {<<"w">>, <<"w", "w">>, <<"x">>, <<"x", "w">>} |->
        CASE t = <<"w">>      -> [op |-> "open", arg |-> Credential(<<a>>, <<>>, o)]
          [] t = <<"w", "w">> -> [op |-> "psk", arg |-> Credential(<<a, b>>, <<b, a>>, p)]
          [] t = <<"x">>      -> [op |-> "reset"]
          [] t = <<"x", "w">> -> [op |-> "other"]]

=============================================================================
