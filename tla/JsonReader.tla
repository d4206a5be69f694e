----------------------------- MODULE JsonReader -----------------------------
(* The search in the JSON text of a message (src/json.c).                   *)
(*                                                                          *)
(* A text is a sequence of characters, by their codes, with zero bytes      *)
(* behind it.  What the reader tells apart are quotes, backslashes, spaces, *)
(* the marks of an object, and letters and digits, of which t and f stand   *)
(* for the words true and false.  The loops are functions of the position   *)
(* they start at.                                                           *)
EXTENDS Integers, Sequences

CONSTANT Words   \* letters and digits

NUL == 0
Space == 32
Quote == 34
Comma == 44
Minus == 45
Colon == 58
Backslash == 92
False == 102
True == 116
Open == 123
Close == 125

Marks == {Space, Quote, Comma, Minus, Colon, Backslash, Open, Close}

ASSUME WordsAssumption ==
    /\ {True, False} \subseteq Words /\ Words \subseteq Nat
    /\ Words \cap (Marks \cup {NUL}) = {}

Text == Seq(Words \cup Marks)

At(t, i) == IF i \in 1 .. Len(t) THEN t[i] ELSE NUL

\* strncmp(&t[i], s, strlen(s)) == 0
Matches(t, i, s) == \A k \in 1 .. Len(s) : At(t, i + k - 1) = s[k]

\* mutant of JSON_findQuote: every quote counts
FindAnyQuote(t, i) ==
    LET scan[j \in Nat] == IF At(t, j) \in {NUL, Quote} THEN j ELSE scan[j + 1]
    IN  scan[i]

\* the next quote that no backslash precedes, or the end of the text
JSON_findQuote(t, i) ==
    LET scan[j \in Nat] ==
          IF At(t, j) \in {NUL, Quote} THEN j
          ELSE IF At(t, j) # Backslash THEN scan[j + 1]
          ELSE IF At(t, j + 1) = NUL THEN j + 1
          ELSE scan[j + 2]
    IN  scan[i]

\* past spaces, and past a number or a word
next(t, i) ==
    LET skip[j \in Nat] == IF At(t, j) = Space THEN skip[j + 1] ELSE j
    IN  skip[i]

WordEnd(t, i) ==
    LET skip[j \in Nat] == IF At(t, j) \in Words THEN skip[j + 1] ELSE j
    IN  skip[i]

None == 0   \* the null pointer

\* where the value is after a key that ends before i, or None
ValueAfter(t, i) ==
    LET colon == next(t, i)
        value == next(t, colon + 1)
    IN  IF At(t, colon) = Colon /\ At(t, value) \notin {NUL, Close} THEN value ELSE None

\* where the pair ends whose value is at i, or None for a string without its quote
PairEnd(t, i) ==
    LET close == JSON_findQuote(t, i + 1)
    IN  IF At(t, i) # Quote THEN next(t, WordEnd(t, i))
        ELSE IF At(t, close) = NUL THEN None ELSE next(t, close + 1)

\* The position of the value, or None.  A key that only begins with the one that is
\* sought is gone past as far as they agree, and then one more.
JSON_getValue(t, key) ==
    LET from[i \in Nat] ==
          LET open == JSON_findQuote(t, i)
              match == Matches(t, open + 1, key)
              after == IF match THEN open + 1 + Len(key) ELSE open
              close == JSON_findQuote(t, after + 1)
              value == ValueAfter(t, close + 1)
              end == PairEnd(t, value)
          IN  IF At(t, i) = NUL THEN None
              ELSE IF match /\ At(t, after) = Quote THEN ValueAfter(t, after + 1)
              ELSE IF At(t, close) = NUL \/ value = None \/ end = None \/ At(t, end) # Comma THEN None
              ELSE from[end]
    IN  from[1]

\* JSON_getBool: the value of the key, or what it was
JSON_getBool(t, key, old) ==
    LET v == JSON_getValue(t, key)
    IN  IF v # None /\ At(t, v) \in {True, False} THEN At(t, v) = True ELSE old

-----------------------------------------------------------------------------
(* What the reader is for: the text of an object, and where its values are.   *)

\* what a string says: a quote or a backslash in it is escaped by a backslash
InString(s) ==
    \E escaped \in SUBSET (2 .. Len(s)) : \A i \in 1 .. Len(s) :
        /\ i + 1 \in escaped <=> s[i] = Backslash /\ i \notin escaped
        /\ s[i] = Quote => i \in escaped

String(s) == <<Quote>> \o s \o <<Quote>>

\* a boolean, another word or number, a number with a sign, or a string
IsValue(v) ==
    \/ v \in {<<True>>, <<False>>}
    \/ v \in Seq(Words) \ {<<>>} /\ Head(v) \notin {True, False}
    \/ v # <<>> /\ Head(v) = Minus /\ Tail(v) \in Seq(Words)
    \/ LET s == SubSeq(v, 2, Len(v) - 1) IN v = String(s) /\ InString(s)

PairType == [key : Seq(Words), value : {v \in Text : IsValue(v)}]
ObjectType == Seq(PairType)

\* An object is a sequence of pairs; the spaces are written at every place that JSON
\* allows them, or at none.
PairText(p, sp) == sp \o String(p.key) \o sp \o <<Colon>> \o sp \o p.value \o sp

ObjectText(o, sp) ==
    LET pairs[i \in 0 .. Len(o)] ==
          IF i = 0 THEN <<>>
          ELSE pairs[i - 1] \o (IF i = 1 THEN <<>> ELSE <<Comma>>) \o PairText(o[i], sp)
    IN  <<Open>> \o pairs[Len(o)] \o <<Close>> \o sp

\* the place of the value of the i-th pair in its text
ValuePlace(o, i, sp) ==
    Len(ObjectText(SubSeq(o, 1, i), sp)) - Len(sp \o <<Close>> \o sp) - Len(o[i].value) + 1

\* the pair a key names: the first, if the object has the key twice
Found(o, key) == { i \in DOMAIN o : o[i].key = key /\ \A j \in 1 .. i - 1 : o[j].key # key }

\* No number with a sign stands before the pair of the key.  JSON_getValue goes past
\* letters and digits only, and gives up at a sign.
Readable(o, key) == \A i \in Found(o, key) : \A j \in 1 .. i - 1 : Head(o[j].value) # Minus

\* the value of a key of the object, for a key that has a boolean value
Wanted(o, key, old) ==
    IF \E i \in Found(o, key) : o[i].value \in {<<True>>, <<False>>}
    THEN \E i \in Found(o, key) : o[i].value = <<True>>
    ELSE old

=============================================================================
