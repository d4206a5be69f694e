----------------------------- MODULE MCMessages -----------------------------
(* Messages for TLC.                                                        *)
EXTENDS Messages

One == 49
a == 97
r == 114

MCWords == {True, False, r, YellowKey[1], a, One}
MCTopic == <<a, r>>

\* a number, a number with a sign, and a string that quotes "r":true
Values ==
    { <<True>>, <<False>>, <<One>>, <<Minus, One>>,
      String(<<Backslash, Quote, r, Backslash, Quote, Colon, True>>) }

Pair(k, v) == [key |-> k, value |-> v]

Firsts == { Pair(k, v) : k \in {RedKey, YellowKey, <<r, a>>}, v \in Values }
Seconds == { Pair(k, <<v>>) : k \in {RedKey, YellowKey}, v \in {True, False} }

\* strings of these lengths make a length of two bytes, and packets longer than a
\* uint8_t says
Longs ==
    { <<Pair(RedKey, <<True>>), Pair(<<a>>, String([i \in 1 .. n |-> a]))>> :
        n \in {12, 20, 45, 49, 70} }

MCObjects == {<<>>} \cup {<<f>> : f \in Firsts} \cup {<<f, s>> : f \in Firsts, s \in Seconds} \cup Longs
MCSpacings == {<<>>, <<Space>>}

=============================================================================
