-------------------------- MODULE JsonReader_proofs --------------------------
(* What the search of JsonReader finds in the text of an object, for every  *)
(* object, spacing and key: the loops of the reader, each a function that   *)
(* looks ahead, where the characters of an object's text stand, and the     *)
(* search from pair to pair.                                                *)
EXTENDS JsonReader, SequenceTheorems, WellFoundedInduction, TLAPS

-----------------------------------------------------------------------------
(* Numbers, and functions that look ahead.                                    *)

\* A set of naturals that is not empty has a least element.
LEMMA LeastMember ==
    ASSUME NEW T, T \subseteq Nat, T # {}
    PROVE  \E m \in T : \A n \in T : m <= n
<1> DEFINE R == OpToRel(<, Nat)
<1>1. \E m \in T : \A n \in T : <<n, m>> \notin R
  BY NatLessThanWellFounded, WFMin
<1>2. \A m, n \in Nat : m < n => <<m, n>> \in R
  BY DEF OpToRel
<1> HIDE DEF R
<1>3. PICK m \in T : \A n \in T : <<n, m>> \notin R
  BY <1>1
<1>4. \A n \in T : ~(n < m)
  BY <1>2, <1>3
<1>5. \A n \in T : m <= n
  BY <1>4
<1> QED BY <1>5

\* Induction over the naturals, for a set.
LEMMA NatInd ==
    ASSUME NEW S, 0 \in S, \A n \in Nat : n \in S => n + 1 \in S
    PROVE  Nat \subseteq S
<1> SUFFICES ASSUME Nat \ S # {} PROVE FALSE
  OBVIOUS
<1>1. PICK m \in Nat \ S : \A n \in Nat \ S : m <= n
  BY LeastMember
<1>2. m # 0 /\ m - 1 \in Nat /\ m - 1 \notin Nat \ S
  BY <1>1
<1> QED BY <1>1, <1>2

\* Every loop of the reader is a function of this form: at the places of Stop it says
\* its result, from any other it goes on to a later place.
IsChain(g, Stop, val, step) ==
    g = [j \in Nat |-> IF j \in Stop THEN val[j] ELSE g[step[j]]]

\* It goes on forwards, and stops behind N.
Forwards(N, Stop, val, step) ==
    /\ N \in Nat /\ val \in [Nat -> Nat] /\ step \in [Nat -> Nat]
    /\ \A j \in Nat : j > N => j \in Stop
    /\ \A j \in Nat : j \notin Stop => step[j] > j

\* a way to j inside of V
Way(V, Stop, step, j) ==
    /\ V \subseteq Nat /\ j \in V
    /\ \A k \in V : k <= j
    /\ \A k \in V : k # j => k \notin Stop /\ step[k] \in V /\ step[k] > k

\* What the loop says from i on is said at a place that is not before.
Ends(g, Stop, val, i) == \E k \in Nat : k >= i /\ k \in Stop /\ g[i] = val[k]

\* one place of a loop
LEMMA ChainAt ==
    ASSUME NEW g, NEW Stop, NEW val, NEW step, IsChain(g, Stop, val, step), NEW j \in Nat
    PROVE  g[j] = IF j \in Stop THEN val[j] ELSE g[step[j]]
BY DEF IsChain

\* There is such a function, when the loop stops behind some place.
LEMMA ChainFound ==
    ASSUME NEW N, NEW Stop, NEW val, NEW step, Forwards(N, Stop, val, step)
    PROVE  \E g \in [Nat -> Nat] : IsChain(g, Stop, val, step)
<1> USE DEF Forwards
<1> DEFINE Upto(k, g) ==
             \A j \in Nat : j + k > N => g[j] = IF j \in Stop THEN val[j] ELSE g[step[j]]
           S == {k \in Nat : \E g \in [Nat -> Nat] : Upto(k, g)}
<1>1. 0 \in S
  <2>1. Upto(0, val)
    OBVIOUS
  <2> QED BY <2>1
<1>2. ASSUME NEW k \in Nat, k \in S PROVE k + 1 \in S
  <2>1. PICK g \in [Nat -> Nat] : Upto(k, g)
    BY <1>2
  <2> DEFINE h == [j \in Nat |-> IF j \in Stop THEN val[j] ELSE g[step[j]]]
  <2>2. h \in [Nat -> Nat]
    OBVIOUS
  <2>3. \A j \in Nat : h[j] = IF j \in Stop THEN val[j] ELSE g[step[j]]
    OBVIOUS
  <2> HIDE DEF h
  <2>4. ASSUME NEW j \in Nat, j + (k + 1) > N
        PROVE  h[j] = IF j \in Stop THEN val[j] ELSE h[step[j]]
    <3>1. CASE j \in Stop
      BY <2>3, <3>1
    <3>2. CASE j \notin Stop
      <4>1. step[j] \in Nat /\ step[j] > j
        BY <3>2
      <4>2. step[j] + k > N
        BY <2>4, <4>1
      <4>3. g[step[j]] = IF step[j] \in Stop THEN val[step[j]] ELSE g[step[step[j]]]
        BY <2>1, <4>1, <4>2
      <4>4. h[step[j]] = g[step[j]]
        BY <2>3, <4>1, <4>3
      <4> QED BY <2>3, <3>2, <4>4
    <3> QED BY <3>1, <3>2
  <2>5. Upto(k + 1, h)
    BY <2>4
  <2> QED BY <2>2, <2>5
<1>3. N + 1 \in S
  <2> HIDE DEF S
  <2>1. Nat \subseteq S
    BY <1>1, <1>2, NatInd
  <2> QED BY <2>1
<1>4. PICK g \in [Nat -> Nat] : Upto(N + 1, g)
  BY <1>3
<1>5. \A j \in Nat : g[j] = IF j \in Stop THEN val[j] ELSE g[step[j]]
  BY <1>4
<1>6. g = [j \in Nat |-> IF j \in Stop THEN val[j] ELSE g[step[j]]]
  BY <1>5
<1> QED BY <1>6 DEF IsChain

\* Such a loop ends, behind the place it starts at and no further than where it must stop.
LEMMA ChainEnds ==
    ASSUME NEW N, NEW g, NEW Stop, NEW val, NEW step, Forwards(N, Stop, val, step),
           IsChain(g, Stop, val, step), NEW i \in Nat
    PROVE  Ends(g, Stop, val, i)
<1> USE DEF Forwards, Ends
<1> DEFINE S == {n \in Nat : \A j \in Nat : j + n > N => Ends(g, Stop, val, j)}
<1>1. 0 \in S
  <2>1. ASSUME NEW j \in Nat, j > N PROVE Ends(g, Stop, val, j)
    BY <2>1, ChainAt
  <2> QED BY <2>1
<1>2. ASSUME NEW n \in Nat, n \in S PROVE n + 1 \in S
  <2>1. ASSUME NEW j \in Nat, j + (n + 1) > N PROVE Ends(g, Stop, val, j)
    <3>1. CASE j \in Stop
      BY <3>1, ChainAt
    <3>2. CASE j \notin Stop
      <4>1. step[j] \in Nat /\ step[j] > j
        BY <3>2
      <4>2. step[j] + n > N
        BY <2>1, <4>1
      <4>3. Ends(g, Stop, val, step[j])
        BY <1>2, <4>1, <4>2
      <4>4. g[j] = g[step[j]]
        BY <3>2, ChainAt
      <4> QED BY <4>1, <4>3, <4>4
    <3> QED BY <3>1, <3>2
  <2> QED BY <2>1
<1>3. N + 1 \in S
  <2> HIDE DEF S
  <2>1. Nat \subseteq S
    BY <1>1, <1>2, NatInd
  <2> QED BY <2>1
<1>4. i + (N + 1) > N
  OBVIOUS
<1> QED BY <1>3, <1>4

\* From one place of a set to another it says the same, if it goes on inside the set.
LEMMA ChainAlong ==
    ASSUME NEW g, NEW Stop, NEW val, NEW step, IsChain(g, Stop, val, step),
           NEW V, NEW j, Way(V, Stop, step, j), NEW i \in V
    PROVE  g[i] = g[j]
<1> USE DEF Way
<1> DEFINE S == {n \in Nat : \A k \in V : k + n >= j => g[k] = g[j]}
<1>1. 0 \in S
  <2>1. ASSUME NEW k \in V, k + 0 >= j PROVE g[k] = g[j]
    <3>1. k = j
      <4>1. k \in Nat /\ j \in Nat /\ k <= j
        OBVIOUS
      <4> QED BY <2>1, <4>1
    <3> QED BY <3>1
  <2> QED BY <2>1
<1>2. ASSUME NEW n \in Nat, n \in S PROVE n + 1 \in S
  <2>1. ASSUME NEW k \in V, k + (n + 1) >= j PROVE g[k] = g[j]
    <3>1. CASE k = j
      BY <3>1
    <3>2. CASE k # j
      <4>1. k \notin Stop /\ step[k] \in V /\ step[k] > k
        BY <3>2
      <4>2. step[k] + n >= j
        <5>1. k \in Nat /\ step[k] \in Nat /\ j \in Nat
          BY <4>1
        <5> QED BY <2>1, <4>1, <5>1
      <4>3. g[step[k]] = g[j]
        BY <1>2, <4>1, <4>2
      <4>4. g[k] = g[step[k]]
        BY <4>1, ChainAt
      <4> QED BY <4>3, <4>4
    <3> QED BY <3>1, <3>2
  <2> QED BY <2>1
<1>3. j \in S
  <2> HIDE DEF S
  <2>1. Nat \subseteq S
    BY <1>1, <1>2, NatInd
  <2> QED BY <2>1
<1>4. i + j >= j
  <2>1. i \in Nat /\ j \in Nat
    OBVIOUS
  <2> QED BY <2>1
<1> QED BY <1>3, <1>4

\* what a text is made of, and what follows it
LEMMA AtType ==
    ASSUME NEW t \in Seq(Nat), NEW i \in Nat
    PROVE  At(t, i) \in Nat /\ (i > Len(t) => At(t, i) = NUL) /\ (i = 0 => At(t, i) = NUL)
BY DEF At, NUL

-----------------------------------------------------------------------------
(* The loops.                                                                 *)

\* where JSON_findQuote stops, what it says there, and where it goes on otherwise
QuoteStop(t) ==
    {j \in Nat : At(t, j) \in {NUL, Quote} \/ (At(t, j) = Backslash /\ At(t, j + 1) = NUL)}
QuoteVal(t) == [j \in Nat |-> IF At(t, j) \in {NUL, Quote} THEN j ELSE j + 1]
QuoteStep(t) == [j \in Nat |-> IF At(t, j) # Backslash THEN j + 1 ELSE j + 2]

\* its function, out of its LET
IsScan(t, f) ==
    f = [j \in Nat |->
          IF At(t, j) \in {NUL, Quote} THEN j
          ELSE IF At(t, j) # Backslash THEN f[j + 1]
          ELSE IF At(t, j + 1) = NUL THEN j + 1
          ELSE f[j + 2]]

Scan(t) == CHOOSE f : IsScan(t, f)

\* JSON_findQuote is that function
LEMMA ScanIs ==
    ASSUME NEW t, NEW i
    PROVE  JSON_findQuote(t, i) = Scan(t)[i]
BY DEF JSON_findQuote, Scan, IsScan

\* ... which is a loop of the form above
LEMMA ScanChain ==
    ASSUME NEW t, NEW f
    PROVE  IsScan(t, f) <=> IsChain(f, QuoteStop(t), QuoteVal(t), QuoteStep(t))
<1> DEFINE A == [j \in Nat |->
          IF At(t, j) \in {NUL, Quote} THEN j
          ELSE IF At(t, j) # Backslash THEN f[j + 1]
          ELSE IF At(t, j + 1) = NUL THEN j + 1
          ELSE f[j + 2]]
           B == [j \in Nat |-> IF j \in QuoteStop(t) THEN QuoteVal(t)[j] ELSE f[QuoteStep(t)[j]]]
<1>1. ASSUME NEW j \in Nat PROVE A[j] = B[j]
  <2>1. A[j] = IF At(t, j) \in {NUL, Quote} THEN j
          ELSE IF At(t, j) # Backslash THEN f[j + 1]
          ELSE IF At(t, j + 1) = NUL THEN j + 1
          ELSE f[j + 2]
    OBVIOUS
  <2>2. B[j] = IF j \in QuoteStop(t) THEN QuoteVal(t)[j] ELSE f[QuoteStep(t)[j]]
    OBVIOUS
  <2>3. j \in QuoteStop(t) <=> (At(t, j) \in {NUL, Quote} \/ (At(t, j) = Backslash /\ At(t, j + 1) = NUL))
    BY DEF QuoteStop
  <2>4. QuoteVal(t)[j] = IF At(t, j) \in {NUL, Quote} THEN j ELSE j + 1
    BY DEF QuoteVal
  <2>5. QuoteStep(t)[j] = IF At(t, j) # Backslash THEN j + 1 ELSE j + 2
    BY DEF QuoteStep
  <2> HIDE DEF A, B
  <2> QED BY <2>1, <2>2, <2>3, <2>4, <2>5
<1>2. A = B
  BY <1>1
<1>3. IsScan(t, f) <=> f = A
  BY DEF IsScan
<1>4. IsChain(f, QuoteStop(t), QuoteVal(t), QuoteStep(t)) <=> f = B
  BY DEF IsChain
<1> HIDE DEF A, B
<1> QED BY <1>2, <1>3, <1>4

\* ... and goes forwards.
LEMMA QuoteChain ==
    ASSUME NEW t \in Seq(Nat)
    PROVE  /\ Forwards(Len(t), QuoteStop(t), QuoteVal(t), QuoteStep(t))
           /\ IsChain(Scan(t), QuoteStop(t), QuoteVal(t), QuoteStep(t))
<1>1. Len(t) \in Nat
  OBVIOUS
<1>2. QuoteVal(t) \in [Nat -> Nat] /\ QuoteStep(t) \in [Nat -> Nat]
  BY DEF QuoteVal, QuoteStep
<1>3. ASSUME NEW j \in Nat, j > Len(t) PROVE j \in QuoteStop(t)
  BY <1>3, AtType DEF QuoteStop
<1>4. ASSUME NEW j \in Nat PROVE QuoteStep(t)[j] > j
  BY DEF QuoteStep
<1>5. Forwards(Len(t), QuoteStop(t), QuoteVal(t), QuoteStep(t))
  BY <1>1, <1>2, <1>3, <1>4 DEF Forwards
<1>6. \E g : IsScan(t, g)
  BY <1>5, ChainFound, ScanChain
<1>7. IsScan(t, Scan(t))
  BY <1>6 DEF Scan
<1> QED BY <1>5, <1>7, ScanChain

\* The quote that is found is not before.
LEMMA QuoteFound ==
    ASSUME NEW t \in Seq(Nat), NEW i \in Nat
    PROVE  JSON_findQuote(t, i) \in Nat /\ JSON_findQuote(t, i) >= i
<1>0. /\ Forwards(Len(t), QuoteStop(t), QuoteVal(t), QuoteStep(t))
      /\ IsChain(Scan(t), QuoteStop(t), QuoteVal(t), QuoteStep(t))
  BY QuoteChain
<1>1. Ends(Scan(t), QuoteStop(t), QuoteVal(t), i)
  BY <1>0, ChainEnds
<1>3. PICK k \in Nat : k >= i /\ k \in QuoteStop(t) /\ Scan(t)[i] = QuoteVal(t)[k]
  BY <1>1 DEF Ends
<1>2. QuoteVal(t)[k] \in Nat /\ QuoteVal(t)[k] >= k
  BY DEF QuoteVal
<1> QED BY <1>2, <1>3, ScanIs

\* It is the next one, over characters that are no quotes and no backslashes ...
LEMMA QuoteOver ==
    ASSUME NEW t \in Seq(Nat), NEW i \in Nat, NEW j \in Nat, i <= j,
           \A k \in i .. j - 1 : At(t, k) \notin {NUL, Quote, Backslash},
           At(t, j) \in {NUL, Quote}
    PROVE  JSON_findQuote(t, i) = j
<1> DEFINE V == i .. j
<1>1. V \subseteq Nat /\ i \in V /\ j \in V /\ \A k \in V : k <= j
  OBVIOUS
<1>2. ASSUME NEW k \in V, k # j
      PROVE  k \notin QuoteStop(t) /\ QuoteStep(t)[k] \in V /\ QuoteStep(t)[k] > k
  <2>1. k \in Nat /\ k \in i .. j - 1
    BY <1>2
  <2>2. At(t, k) \notin {NUL, Quote, Backslash}
    BY <2>1
  <2>3. QuoteStep(t)[k] = k + 1
    BY <2>1, <2>2 DEF QuoteStep
  <2>4. k \notin QuoteStop(t)
    BY <2>2 DEF QuoteStop
  <2> QED BY <2>1, <2>3, <2>4
<1>3. IsChain(Scan(t), QuoteStop(t), QuoteVal(t), QuoteStep(t))
  BY QuoteChain
<1>6. Way(V, QuoteStop(t), QuoteStep(t), j)
  BY <1>1, <1>2 DEF Way
<1> HIDE DEF V
<1>4. Scan(t)[i] = Scan(t)[j]
  BY <1>1, <1>3, <1>6, ChainAlong
<1>5. Scan(t)[j] = j
  <2>1. j \in QuoteStop(t) /\ QuoteVal(t)[j] = j
    BY DEF QuoteStop, QuoteVal
  <2> QED BY <1>3, <2>1, ChainAt
<1> QED BY <1>4, <1>5, ScanIs

\* past characters of one kind
SkipStop(t, C) == {j \in Nat : At(t, j) \notin C}
Here == [j \in Nat |-> j]
Further == [j \in Nat |-> j + 1]

Skip(t, C) == CHOOSE f : IsChain(f, SkipStop(t, C), Here, Further)

\* there is such a loop
LEMMA SkipChain ==
    ASSUME NEW t \in Seq(Nat), NEW C, NUL \notin C
    PROVE  /\ Forwards(Len(t), SkipStop(t, C), Here, Further)
           /\ IsChain(Skip(t, C), SkipStop(t, C), Here, Further)
<1>1. Len(t) \in Nat /\ Here \in [Nat -> Nat] /\ Further \in [Nat -> Nat]
  BY DEF Here, Further
<1>2. ASSUME NEW j \in Nat, j > Len(t) PROVE j \in SkipStop(t, C)
  <2>1. At(t, j) = NUL
    BY <1>2, AtType
  <2> QED BY <2>1 DEF SkipStop
<1>3. \A j \in Nat : Further[j] > j
  BY DEF Further
<1>4. Forwards(Len(t), SkipStop(t, C), Here, Further)
  BY <1>1, <1>2, <1>3 DEF Forwards
<1>5. \E g : IsChain(g, SkipStop(t, C), Here, Further)
  BY <1>4, ChainFound
<1>6. IsChain(Skip(t, C), SkipStop(t, C), Here, Further)
  BY <1>5 DEF Skip
<1> QED BY <1>4, <1>6

\* what a skip comes to is no character of the set
LEMMA SkipFound ==
    ASSUME NEW t \in Seq(Nat), NEW C, NUL \notin C, NEW i \in Nat
    PROVE  Skip(t, C)[i] \in Nat /\ Skip(t, C)[i] >= i
<1>0. /\ Forwards(Len(t), SkipStop(t, C), Here, Further)
      /\ IsChain(Skip(t, C), SkipStop(t, C), Here, Further)
  BY SkipChain
<1>1. Ends(Skip(t, C), SkipStop(t, C), Here, i)
  BY <1>0, ChainEnds
<1>2. PICK k \in Nat : k >= i /\ Skip(t, C)[i] = Here[k]
  BY <1>1 DEF Ends
<1>3. Here[k] = k
  BY DEF Here
<1> QED BY <1>2, <1>3

\* a skip goes over characters of the set
LEMMA SkipOver ==
    ASSUME NEW t \in Seq(Nat), NEW C, NUL \notin C, NEW i \in Nat, NEW j \in Nat, i <= j,
           \A k \in i .. j - 1 : At(t, k) \in C,
           At(t, j) \notin C
    PROVE  Skip(t, C)[i] = j
<1> DEFINE V == i .. j
<1>1. V \subseteq Nat /\ i \in V /\ j \in V /\ \A k \in V : k <= j
  OBVIOUS
<1>2. ASSUME NEW k \in V, k # j
      PROVE  k \notin SkipStop(t, C) /\ Further[k] \in V /\ Further[k] > k
  <2>1. k \in Nat /\ k \in i .. j - 1
    BY <1>2
  <2>2. At(t, k) \in C
    BY <2>1
  <2>3. Further[k] = k + 1
    BY <2>1 DEF Further
  <2>4. k \notin SkipStop(t, C)
    BY <2>2 DEF SkipStop
  <2> QED BY <2>1, <2>3, <2>4
<1>3. IsChain(Skip(t, C), SkipStop(t, C), Here, Further)
  BY SkipChain
<1>4. Way(V, SkipStop(t, C), Further, j)
  BY <1>1, <1>2 DEF Way
<1> HIDE DEF V
<1>5. Skip(t, C)[i] = Skip(t, C)[j]
  BY <1>1, <1>3, <1>4, ChainAlong
<1>6. Skip(t, C)[j] = j
  <2>1. j \in SkipStop(t, C) /\ Here[j] = j
    BY DEF SkipStop, Here
  <2> QED BY <1>3, <2>1, ChainAt
<1> QED BY <1>5, <1>6

\* next and WordEnd are such functions.
IsNext(t, f) == f = [j \in Nat |-> IF At(t, j) = Space THEN f[j + 1] ELSE j]
IsWordEnd(t, f) == f = [j \in Nat |-> IF At(t, j) \in Words THEN f[j + 1] ELSE j]

\* next skips spaces
LEMMA NextChain ==
    ASSUME NEW t, NEW f
    PROVE  IsNext(t, f) <=> IsChain(f, SkipStop(t, {Space}), Here, Further)
<1> DEFINE A == [j \in Nat |-> IF At(t, j) = Space THEN f[j + 1] ELSE j]
           B == [j \in Nat |-> IF j \in SkipStop(t, {Space}) THEN Here[j] ELSE f[Further[j]]]
<1>1. ASSUME NEW j \in Nat PROVE A[j] = B[j]
  <2>1. A[j] = (IF At(t, j) = Space THEN f[j + 1] ELSE j)
    OBVIOUS
  <2>2. B[j] = IF j \in SkipStop(t, {Space}) THEN Here[j] ELSE f[Further[j]]
    OBVIOUS
  <2>3. j \in SkipStop(t, {Space}) <=> At(t, j) # Space
    BY DEF SkipStop
  <2>4. Here[j] = j /\ Further[j] = j + 1
    BY DEF Here, Further
  <2> HIDE DEF A, B
  <2> QED BY <2>1, <2>2, <2>3, <2>4
<1>2. A = B
  BY <1>1
<1>3. IsNext(t, f) <=> f = A
  BY DEF IsNext
<1>4. IsChain(f, SkipStop(t, {Space}), Here, Further) <=> f = B
  BY DEF IsChain
<1> HIDE DEF A, B
<1> QED BY <1>2, <1>3, <1>4

\* WordEnd skips letters and digits
LEMMA WordChain ==
    ASSUME NEW t, NEW f
    PROVE  IsWordEnd(t, f) <=> IsChain(f, SkipStop(t, Words), Here, Further)
<1> DEFINE A == [j \in Nat |-> IF At(t, j) \in Words THEN f[j + 1] ELSE j]
           B == [j \in Nat |-> IF j \in SkipStop(t, Words) THEN Here[j] ELSE f[Further[j]]]
<1>1. ASSUME NEW j \in Nat PROVE A[j] = B[j]
  <2>1. A[j] = (IF At(t, j) \in Words THEN f[j + 1] ELSE j)
    OBVIOUS
  <2>2. B[j] = IF j \in SkipStop(t, Words) THEN Here[j] ELSE f[Further[j]]
    OBVIOUS
  <2>3. j \in SkipStop(t, Words) <=> At(t, j) \notin Words
    BY DEF SkipStop
  <2>4. Here[j] = j /\ Further[j] = j + 1
    BY DEF Here, Further
  <2> HIDE DEF A, B
  <2> QED BY <2>1, <2>2, <2>3, <2>4
<1>2. A = B
  BY <1>1
<1>3. IsWordEnd(t, f) <=> f = A
  BY DEF IsWordEnd
<1>4. IsChain(f, SkipStop(t, Words), Here, Further) <=> f = B
  BY DEF IsChain
<1> HIDE DEF A, B
<1> QED BY <1>2, <1>3, <1>4

\* next, as a skip
LEMMA NextIs ==
    ASSUME NEW t, NEW i
    PROVE  next(t, i) = Skip(t, {Space})[i]
<1> DEFINE F == CHOOSE f : IsNext(t, f)
<1>1. next(t, i) = F[i]
  BY DEF next, IsNext
<1>2. F = Skip(t, {Space})
  BY NextChain DEF Skip
<1> QED BY <1>1, <1>2

\* WordEnd, as a skip
LEMMA WordIs ==
    ASSUME NEW t, NEW i
    PROVE  WordEnd(t, i) = Skip(t, Words)[i]
<1> DEFINE F == CHOOSE f : IsWordEnd(t, f)
<1>1. WordEnd(t, i) = F[i]
  BY DEF WordEnd, IsWordEnd
<1>2. F = Skip(t, Words)
  BY WordChain DEF Skip
<1> QED BY <1>1, <1>2

\* the kinds of characters
LEMMA Kinds ==
    /\ NUL \notin Words /\ NUL \notin {Space}
    /\ Words \cap {Space, Quote, Comma, Minus, Colon, Backslash, Open, Close} = {}
    /\ True \in Words /\ False \in Words
BY WordsAssumption DEF Marks, NUL, Space

\* What is found behind a place is not before it ...
LEMMA NextFound ==
    ASSUME NEW t \in Seq(Nat), NEW i \in Nat
    PROVE  next(t, i) \in Nat /\ next(t, i) >= i
BY Kinds, NextIs, SkipFound

\* where a word ends
LEMMA WordFound ==
    ASSUME NEW t \in Seq(Nat), NEW i \in Nat
    PROVE  WordEnd(t, i) \in Nat /\ WordEnd(t, i) >= i
BY Kinds, WordIs, SkipFound

\* ... and is the first place with another kind of character.
LEMMA NextOver ==
    ASSUME NEW t \in Seq(Nat), NEW i \in Nat, NEW j \in Nat, i <= j,
           \A k \in i .. j - 1 : At(t, k) = Space, At(t, j) # Space
    PROVE  next(t, i) = j
<1>1. (\A k \in i .. j - 1 : At(t, k) \in {Space}) /\ At(t, j) \notin {Space}
  OBVIOUS
<1> QED BY <1>1, Kinds, NextIs, SkipOver

\* what WordEnd goes over
LEMMA WordOver ==
    ASSUME NEW t \in Seq(Nat), NEW i \in Nat, NEW j \in Nat, i <= j,
           \A k \in i .. j - 1 : At(t, k) \in Words, At(t, j) \notin Words
    PROVE  WordEnd(t, i) = j
BY Kinds, WordIs, SkipOver

\* the place of a value, if there is one, is behind the key
LEMMA ValueFound ==
    ASSUME NEW t \in Seq(Nat), NEW i \in Nat
    PROVE  ValueAfter(t, i) \in Nat /\ (ValueAfter(t, i) = None \/ ValueAfter(t, i) > i)
<1> DEFINE c == next(t, i)
           v == next(t, c + 1)
<1>1. c \in Nat /\ c >= i
  BY NextFound
<1>2. ValueAfter(t, i) = v \/ ValueAfter(t, i) = None
  BY DEF ValueAfter
<1> HIDE DEF c
<1>3. c + 1 \in Nat
  BY <1>1
<1>4. v \in Nat /\ v >= c + 1
  BY <1>3, NextFound
<1> HIDE DEF v
<1> QED BY <1>1, <1>2, <1>4 DEF None

\* the end of a pair, if it has one, is behind its value
LEMMA EndFound ==
    ASSUME NEW t \in Seq(Nat), NEW i \in Nat
    PROVE  PairEnd(t, i) \in Nat /\ (PairEnd(t, i) = None \/ PairEnd(t, i) >= i)
<1> DEFINE c == JSON_findQuote(t, i + 1)
           w == WordEnd(t, i)
           v == next(t, w)
           u == next(t, c + 1)
<1>1. i + 1 \in Nat
  OBVIOUS
<1>2. c \in Nat /\ c >= i + 1 /\ w \in Nat /\ w >= i
  BY <1>1, QuoteFound, WordFound
<1>3. PairEnd(t, i) \in {v, u, None}
  BY DEF PairEnd
<1> HIDE DEF c, w
<1>4. v \in Nat /\ v >= w
  BY <1>2, NextFound
<1>5. c + 1 \in Nat
  BY <1>2
<1>6. u \in Nat /\ u >= c + 1
  BY <1>5, NextFound
<1> HIDE DEF u, v
<1> QED BY <1>2, <1>3, <1>4, <1>6 DEF None

\* What JSON_getValue finds from a place on: the names of its variables.
KeyAt(t, i) == JSON_findQuote(t, i)
Agrees(t, key, i) == Matches(t, KeyAt(t, i) + 1, key)
Passed(t, key, i) == IF Agrees(t, key, i) THEN KeyAt(t, i) + 1 + Len(key) ELSE KeyAt(t, i)
KeyEnd(t, key, i) == JSON_findQuote(t, Passed(t, key, i) + 1)
ValueOf(t, key, i) == ValueAfter(t, KeyEnd(t, key, i) + 1)
EndOf(t, key, i) == PairEnd(t, ValueOf(t, key, i))

Hits(t, key, i) == Agrees(t, key, i) /\ At(t, Passed(t, key, i)) = Quote
GivesUp(t, key, i) ==
    \/ At(t, KeyEnd(t, key, i)) = NUL \/ ValueOf(t, key, i) = None
    \/ EndOf(t, key, i) = None \/ At(t, EndOf(t, key, i)) # Comma

Looks(t, key, f, i) ==
    IF At(t, i) = NUL THEN None
    ELSE IF Hits(t, key, i) THEN ValueAfter(t, Passed(t, key, i) + 1)
    ELSE IF GivesUp(t, key, i) THEN None
    ELSE f[EndOf(t, key, i)]

IsSearch(t, key, f) == f = [i \in Nat |-> Looks(t, key, f, i)]
Search(t, key) == CHOOSE f : IsSearch(t, key, f)

\* JSON_getValue is that search, from the beginning of the text.
LEMMA SearchIs ==
    ASSUME NEW t, NEW key
    PROVE  JSON_getValue(t, key) = Search(t, key)[1]
BY DEF JSON_getValue, Search, IsSearch, Looks, Hits, GivesUp, EndOf, ValueOf, KeyEnd, Passed,
       Agrees, KeyAt

\* where the search stops, what it says there, and where it goes on otherwise
SearchStop(t, key) ==
    {i \in Nat : At(t, i) = NUL \/ Hits(t, key, i) \/ GivesUp(t, key, i)}
SearchVal(t, key) ==
    [i \in Nat |-> IF At(t, i) # NUL /\ Hits(t, key, i)
                   THEN ValueAfter(t, Passed(t, key, i) + 1) ELSE None]
SearchStep(t, key) ==
    [i \in Nat |-> IF i \in SearchStop(t, key) THEN i + 1 ELSE EndOf(t, key, i)]

\* the search is a loop of the form above
LEMMA SearchChain ==
    ASSUME NEW t, NEW key, NEW f
    PROVE  IsSearch(t, key, f)
             <=> IsChain(f, SearchStop(t, key), SearchVal(t, key), SearchStep(t, key))
<1> DEFINE A == [i \in Nat |-> Looks(t, key, f, i)]
           B == [i \in Nat |-> IF i \in SearchStop(t, key) THEN SearchVal(t, key)[i]
                               ELSE f[SearchStep(t, key)[i]]]
<1>1. ASSUME NEW i \in Nat PROVE A[i] = B[i]
  <2>1. A[i] = Looks(t, key, f, i)
    OBVIOUS
  <2>2. B[i] = IF i \in SearchStop(t, key) THEN SearchVal(t, key)[i]
               ELSE f[SearchStep(t, key)[i]]
    OBVIOUS
  <2>3. i \in SearchStop(t, key) <=> At(t, i) = NUL \/ Hits(t, key, i) \/ GivesUp(t, key, i)
    BY DEF SearchStop
  <2>4. SearchVal(t, key)[i] = IF At(t, i) # NUL /\ Hits(t, key, i)
                   THEN ValueAfter(t, Passed(t, key, i) + 1) ELSE None
    BY DEF SearchVal
  <2>5. i \notin SearchStop(t, key) => SearchStep(t, key)[i] = EndOf(t, key, i)
    BY DEF SearchStep
  <2> HIDE DEF A, B
  <2>6. CASE At(t, i) = NUL
    BY <2>1, <2>2, <2>3, <2>4, <2>6 DEF Looks
  <2>7. CASE At(t, i) # NUL /\ Hits(t, key, i)
    BY <2>1, <2>2, <2>3, <2>4, <2>7 DEF Looks
  <2>8. CASE At(t, i) # NUL /\ ~Hits(t, key, i) /\ GivesUp(t, key, i)
    BY <2>1, <2>2, <2>3, <2>4, <2>8 DEF Looks
  <2>9. CASE At(t, i) # NUL /\ ~Hits(t, key, i) /\ ~GivesUp(t, key, i)
    BY <2>1, <2>2, <2>3, <2>5, <2>9 DEF Looks
  <2> QED BY <2>6, <2>7, <2>8, <2>9
<1>2. A = B
  BY <1>1
<1>3. IsSearch(t, key, f) <=> f = A
  BY DEF IsSearch
<1>4. IsChain(f, SearchStop(t, key), SearchVal(t, key), SearchStep(t, key)) <=> f = B
  BY DEF IsChain
<1> HIDE DEF A, B
<1> QED BY <1>2, <1>3, <1>4

\* The search goes on to a later place.
LEMMA SearchForwards ==
    ASSUME NEW t \in Seq(Nat), NEW key \in Seq(Words)
    PROVE  Forwards(Len(t), SearchStop(t, key), SearchVal(t, key), SearchStep(t, key))
<1>1. Len(t) \in Nat /\ Len(key) \in Nat
  OBVIOUS
<1>2. \A i \in Nat : KeyAt(t, i) \in Nat /\ KeyAt(t, i) >= i
  BY QuoteFound DEF KeyAt
<1>3. ASSUME NEW i \in Nat PROVE Passed(t, key, i) \in Nat /\ Passed(t, key, i) >= i
  <2>1. KeyAt(t, i) \in Nat /\ KeyAt(t, i) >= i
    BY <1>2
  <2>2. Passed(t, key, i) = KeyAt(t, i) \/ Passed(t, key, i) = KeyAt(t, i) + 1 + Len(key)
    BY DEF Passed
  <2> QED BY <1>1, <2>1, <2>2
<1>4. ASSUME NEW i \in Nat
      PROVE  /\ KeyEnd(t, key, i) \in Nat /\ KeyEnd(t, key, i) > i
             /\ ValueAfter(t, Passed(t, key, i) + 1) \in Nat
  <2>0. Passed(t, key, i) \in Nat /\ Passed(t, key, i) >= i
    BY <1>3
  <2>1. Passed(t, key, i) + 1 \in Nat /\ Passed(t, key, i) + 1 > i
    BY <2>0
  <2>2. KeyEnd(t, key, i) \in Nat /\ KeyEnd(t, key, i) >= Passed(t, key, i) + 1
    BY <2>1, QuoteFound DEF KeyEnd
  <2>3. KeyEnd(t, key, i) \in Nat /\ KeyEnd(t, key, i) > i
    BY <2>0, <2>1, <2>2
  <2>4. ValueAfter(t, Passed(t, key, i) + 1) \in Nat
    BY <2>1, ValueFound
  <2> QED BY <2>3, <2>4
<1>5. ASSUME NEW i \in Nat
      PROVE  ValueOf(t, key, i) \in Nat /\ (ValueOf(t, key, i) = None \/ ValueOf(t, key, i) > i)
  <2>0. KeyEnd(t, key, i) \in Nat /\ KeyEnd(t, key, i) > i
    BY <1>4
  <2>1. KeyEnd(t, key, i) + 1 \in Nat /\ KeyEnd(t, key, i) + 1 > i
    BY <2>0
  <2>2. ValueOf(t, key, i) \in Nat
        /\ (ValueOf(t, key, i) = None \/ ValueOf(t, key, i) > KeyEnd(t, key, i) + 1)
    BY <2>1, ValueFound DEF ValueOf
  <2> QED BY <2>1, <2>2
<1>6. ASSUME NEW i \in Nat
      PROVE  /\ EndOf(t, key, i) \in Nat
             /\ ~GivesUp(t, key, i) => EndOf(t, key, i) > i
  <2>1. ValueOf(t, key, i) \in Nat /\ (ValueOf(t, key, i) = None \/ ValueOf(t, key, i) > i)
    BY <1>5
  <2>2. EndOf(t, key, i) \in Nat
        /\ (EndOf(t, key, i) = None \/ EndOf(t, key, i) >= ValueOf(t, key, i))
    BY <2>1, EndFound DEF EndOf
  <2> QED BY <2>1, <2>2 DEF GivesUp
<1>7. SearchVal(t, key) \in [Nat -> Nat]
  BY <1>4 DEF SearchVal, None
<1>8. SearchStep(t, key) \in [Nat -> Nat]
  <2>1. \A i \in Nat : (IF i \in SearchStop(t, key) THEN i + 1 ELSE EndOf(t, key, i)) \in Nat
    BY <1>6
  <2> QED BY <2>1 DEF SearchStep
<1>9. ASSUME NEW i \in Nat, i > Len(t) PROVE i \in SearchStop(t, key)
  BY <1>9, AtType DEF SearchStop
<1>10. ASSUME NEW i \in Nat, i \notin SearchStop(t, key) PROVE SearchStep(t, key)[i] > i
  <2>1. SearchStep(t, key)[i] = EndOf(t, key, i) /\ ~GivesUp(t, key, i)
    BY <1>10 DEF SearchStep, SearchStop
  <2> QED BY <1>6, <2>1
<1> QED BY <1>1, <1>7, <1>8, <1>9, <1>10 DEF Forwards

\* one look at a place
LEMMA SearchLooks ==
    ASSUME NEW t \in Seq(Nat), NEW key \in Seq(Words), NEW i \in Nat
    PROVE  Search(t, key)[i] = Looks(t, key, Search(t, key), i)
<1>1. \E f : IsSearch(t, key, f)
  BY SearchForwards, ChainFound, SearchChain
<1>2. IsSearch(t, key, Search(t, key))
  BY <1>1 DEF Search
<1> QED BY <1>2 DEF IsSearch

\* x stands in t, behind the first n characters.
Part(t, n, x) == n + Len(x) <= Len(t) /\ \A k \in 1 .. Len(x) : t[n + k] = x[k]

\* a character of a part
LEMMA PartAt ==
    ASSUME NEW t \in Seq(Nat), NEW x \in Seq(Nat), NEW n \in Nat, Part(t, n, x),
           NEW k \in 1 .. Len(x)
    PROVE  At(t, n + k) = x[k]
<1>1. Len(x) \in Nat /\ Len(t) \in Nat
  OBVIOUS
<1>2. n + Len(x) <= Len(t) /\ t[n + k] = x[k]
  BY DEF Part
<1>3. n + k \in 1 .. Len(t)
  BY <1>1, <1>2
<1> QED BY <1>2, <1>3 DEF At

\* two sequences joined, and what stood in the first
LEMMA PartOfJoin ==
    ASSUME NEW x \in Seq(Nat), NEW y \in Seq(Nat)
    PROVE  /\ x \o y \in Seq(Nat) /\ Len(x \o y) = Len(x) + Len(y)
           /\ Part(x \o y, Len(x), y)
           /\ \A z \in Seq(Nat), n \in Nat : Part(x, n, z) => Part(x \o y, n, z)
<1> DEFINE w == x \o y
<1>1. /\ w \in Seq(Nat) /\ Len(w) = Len(x) + Len(y)
      /\ \A i \in 1 .. Len(x) + Len(y) : w[i] = IF i <= Len(x) THEN x[i] ELSE y[i - Len(x)]
  BY ConcatProperties
<1>2. Len(x) \in Nat /\ Len(y) \in Nat
  OBVIOUS
<1> HIDE DEF w
<1>3. Part(w, Len(x), y)
  <2>1. ASSUME NEW k \in 1 .. Len(y) PROVE w[Len(x) + k] = y[k]
    <3>1. Len(x) + k \in 1 .. Len(x) + Len(y) /\ ~(Len(x) + k <= Len(x)) /\ (Len(x) + k) - Len(x) = k
      BY <1>2
    <3> QED BY <1>1, <3>1
  <2> QED BY <1>1, <1>2, <2>1 DEF Part
<1>4. ASSUME NEW z \in Seq(Nat), NEW n \in Nat, Part(x, n, z) PROVE Part(w, n, z)
  <2>1. Len(z) \in Nat /\ n + Len(z) <= Len(x)
    BY <1>4 DEF Part
  <2>2. ASSUME NEW k \in 1 .. Len(z) PROVE w[n + k] = z[k]
    <3>1. n + k \in 1 .. Len(x) + Len(y) /\ n + k <= Len(x)
      BY <1>2, <2>1
    <3>2. w[n + k] = x[n + k]
      BY <1>1, <3>1
    <3> QED BY <1>4, <3>2 DEF Part
  <2> QED BY <1>1, <1>2, <2>1, <2>2 DEF Part
<1> QED BY <1>1, <1>3, <1>4 DEF w

\* a sequence stands in itself
LEMMA PartWhole ==
    ASSUME NEW x \in Seq(Nat)
    PROVE  Part(x, 0, x)
<1>1. Len(x) \in Nat
  OBVIOUS
<1>2. \A k \in 1 .. Len(x) : 0 + k = k
  BY <1>1
<1> QED BY <1>1, <1>2 DEF Part

\* what stands in a part
LEMMA PartOfPart ==
    ASSUME NEW t \in Seq(Nat), NEW x \in Seq(Nat), NEW z \in Seq(Nat), NEW n \in Nat, NEW m \in Nat,
           Part(t, n, x), Part(x, m, z)
    PROVE  Part(t, n + m, z)
<1>1. Len(t) \in Nat /\ Len(x) \in Nat /\ Len(z) \in Nat /\ m + Len(z) <= Len(x) /\ n + Len(x) <= Len(t)
  BY DEF Part
<1>2. ASSUME NEW k \in 1 .. Len(z) PROVE t[(n + m) + k] = z[k]
  <2>1. m + k \in 1 .. Len(x) /\ (n + m) + k = n + (m + k)
    BY <1>1
  <2>2. t[n + (m + k)] = x[m + k] /\ x[m + k] = z[k]
    BY <2>1 DEF Part
  <2> QED BY <2>1, <2>2
<1>3. (n + m) + Len(z) <= Len(t)
  BY <1>1
<1> QED BY <1>2, <1>3 DEF Part

-----------------------------------------------------------------------------
(* A pair in its text.                                                        *)

\* the parts of a pair
LEMMA PairParts ==
    ASSUME NEW p \in PairType, NEW sp \in Seq({Space})
    PROVE  /\ p.key \in Seq(Words) /\ p.key \in Seq(Nat) /\ p.value \in Text /\ p.value \in Seq(Nat)
           /\ IsValue(p.value) /\ sp \in Seq(Nat)
           /\ Len(sp) \in Nat /\ Len(p.key) \in Nat /\ Len(p.value) \in Nat
<1>1. p.key \in Seq(Words) /\ p.value \in Text /\ IsValue(p.value)
  BY DEF PairType
<1>2. Words \subseteq Nat /\ Words \cup Marks \subseteq Nat /\ {Space} \subseteq Nat
  BY WordsAssumption DEF Marks, Space, Quote, Comma, Minus, Colon, Backslash, Open, Close
<1>3. p.key \in Seq(Nat) /\ p.value \in Seq(Nat) /\ sp \in Seq(Nat)
  BY <1>1, <1>2, SeqMonotonic DEF Text
<1>4. Len(sp) \in Nat /\ Len(p.key) \in Nat /\ Len(p.value) \in Nat
  BY <1>3
<1> QED BY <1>1, <1>3, <1>4

\* where the parts of a pair are, for lengths S, K and V of the spaces, the key and the value
Laid(t, c, p, sp) ==
    LET S == Len(sp)
        K == Len(p.key)
        V == Len(p.value)
    IN  /\ Part(t, c, sp) /\ Part(t, c + S, <<Quote>>)
        /\ Part(t, c + S + 1, p.key)
        /\ Part(t, c + S + 1 + K, <<Quote>>)
        /\ Part(t, c + S + K + 2, sp)
        /\ Part(t, c + 2 * S + K + 2, <<Colon>>)
        /\ Part(t, c + 2 * S + K + 3, sp)
        /\ Part(t, c + 3 * S + K + 3, p.value)
        /\ Part(t, c + 3 * S + K + 3 + V, sp)

\* a sequence of one character
LEMMA Single ==
    /\ <<Quote>> \in Seq(Nat) /\ Len(<<Quote>>) = 1 /\ <<Quote>>[1] = Quote
    /\ <<Colon>> \in Seq(Nat) /\ Len(<<Colon>>) = 1 /\ <<Colon>>[1] = Colon
    /\ <<Comma>> \in Seq(Nat) /\ Len(<<Comma>>) = 1 /\ <<Comma>>[1] = Comma
    /\ <<Open>> \in Seq(Nat) /\ Len(<<Open>>) = 1 /\ <<Open>>[1] = Open
    /\ <<Close>> \in Seq(Nat) /\ Len(<<Close>>) = 1 /\ <<Close>>[1] = Close
BY DEF Quote, Colon, Comma, Open, Close

\* what stands where in a string
LEMMA StringLaid ==
    ASSUME NEW k \in Seq(Nat)
    PROVE  /\ String(k) \in Seq(Nat) /\ Len(String(k)) = Len(k) + 2
           /\ Part(String(k), 0, <<Quote>>) /\ Part(String(k), 1, k)
           /\ Part(String(k), 1 + Len(k), <<Quote>>)
<1> DEFINE q == <<Quote>>
           a == q \o k
           b == a \o q
<1>1. q \in Seq(Nat) /\ Len(q) = 1 /\ Len(k) \in Nat
  BY Single
<1> HIDE DEF q
<1>2. a \in Seq(Nat) /\ Len(a) = 1 + Len(k) /\ Part(a, 1, k) /\ Part(a, 0, q)
  <2>1. Part(q, 0, q)
    BY <1>1, PartWhole
  <2> QED BY <1>1, <2>1, PartOfJoin
<1> HIDE DEF a
<1>3. b \in Seq(Nat) /\ Len(b) = Len(a) + 1 /\ Part(b, Len(a), q)
      /\ Part(b, 1, k) /\ Part(b, 0, q)
  BY <1>1, <1>2, PartOfJoin
<1>4. b = String(k)
  BY DEF b, a, q, String
<1>5. Len(b) = Len(k) + 2
  BY <1>1, <1>2, <1>3
<1> HIDE DEF b
<1> QED BY <1>2, <1>3, <1>4, <1>5 DEF q

\* ... and in the text of a pair
LEMMA PairLaid ==
    ASSUME NEW p \in PairType, NEW sp \in Seq({Space})
    PROVE  /\ PairText(p, sp) \in Seq(Nat)
           /\ Len(PairText(p, sp)) = 4 * Len(sp) + Len(p.key) + Len(p.value) + 3
           /\ Laid(PairText(p, sp), 0, p, sp)
<1> DEFINE S == Len(sp)
           K == Len(p.key)
           V == Len(p.value)
           q == <<Quote>>
           col == <<Colon>>
           str == String(p.key)
           a1 == sp \o str
           a2 == a1 \o sp
           a3 == a2 \o col
           a4 == a3 \o sp
           a5 == a4 \o p.value
           a6 == a5 \o sp
<1>1. /\ p.key \in Seq(Nat) /\ p.value \in Seq(Nat) /\ sp \in Seq(Nat)
      /\ S \in Nat /\ K \in Nat /\ V \in Nat
  BY PairParts
<1>2. q \in Seq(Nat) /\ col \in Seq(Nat) /\ Len(col) = 1
  BY Single
<1>3. /\ str \in Seq(Nat) /\ Len(str) = K + 2
      /\ Part(str, 0, q) /\ Part(str, 1, p.key) /\ Part(str, 1 + K, q)
  BY <1>1, StringLaid
<1>4. a6 = PairText(p, sp)
  BY DEF PairText
<1> HIDE DEF q, col, str, K, V, S
<1>5. /\ a1 \in Seq(Nat) /\ Len(a1) = S + K + 2 /\ Part(a1, 0, sp) /\ Part(a1, S, str)
  <2>1. Part(sp, 0, sp)
    BY <1>1, PartWhole
  <2>2. a1 \in Seq(Nat) /\ Len(a1) = Len(sp) + Len(str) /\ Part(a1, Len(sp), str) /\ Part(a1, 0, sp)
    BY <1>1, <1>3, <2>1, PartOfJoin
  <2> QED BY <1>1, <1>3, <2>2 DEF S
<1> HIDE DEF a1
<1>6. Part(a1, S, q) /\ Part(a1, S + 1, p.key) /\ Part(a1, S + (1 + K), q)
  <2>1. 1 + K \in Nat /\ S + 0 = S
    BY <1>1
  <2>2. Part(a1, S + 0, q) /\ Part(a1, S + 1, p.key) /\ Part(a1, S + (1 + K), q)
    BY <1>1, <1>2, <1>3, <1>5, <2>1, PartOfPart
  <2> QED BY <2>1, <2>2
<1> DEFINE n1 == S + 1
           n2 == S + (1 + K)
           n3 == S + K + 2
           n4 == n3 + S
           n5 == n4 + 1
           n6 == n5 + S
           n7 == n6 + V
<1>7. n1 \in Nat /\ n2 \in Nat /\ n3 \in Nat /\ n4 \in Nat /\ n5 \in Nat /\ n6 \in Nat /\ n7 \in Nat
  BY <1>1
<1>8. /\ n1 = S + 1 /\ n2 = S + 1 + K /\ n3 = S + K + 2 /\ n4 = 2 * S + K + 2
      /\ n5 = 2 * S + K + 3 /\ n6 = 3 * S + K + 3 /\ n7 = 3 * S + K + 3 + V
      /\ n7 + S = 4 * S + K + V + 3
  BY <1>1
<1>9. Part(a1, 0, sp) /\ Part(a1, S, q) /\ Part(a1, n1, p.key) /\ Part(a1, n2, q) /\ Len(a1) = n3
  BY <1>5, <1>6
<1>20. n4 = n3 + S /\ n5 = n4 + 1 /\ n6 = n5 + S /\ n7 = n6 + V
  OBVIOUS
<1> HIDE DEF n1, n2, n3, n4, n5, n6, n7
<1>10. /\ a2 \in Seq(Nat) /\ Len(a2) = n4 /\ Part(a2, n3, sp)
       /\ Part(a2, 0, sp) /\ Part(a2, S, q) /\ Part(a2, n1, p.key) /\ Part(a2, n2, q)
  <2>1. a2 \in Seq(Nat) /\ Len(a2) = Len(a1) + Len(sp)
    BY <1>1, <1>5, PartOfJoin
  <2>2. Part(a2, Len(a1), sp) /\ Part(a2, 0, sp) /\ Part(a2, S, q) /\ Part(a2, n1, p.key) /\ Part(a2, n2, q)
    BY <1>1, <1>2, <1>5, <1>7, <1>9, PartOfJoin
  <2> QED BY <1>9, <1>20, <2>1, <2>2 DEF S
<1> HIDE DEF a2
<1>11. /\ a3 \in Seq(Nat) /\ Len(a3) = n5 /\ Part(a3, n4, col) /\ Part(a3, n3, sp)
       /\ Part(a3, 0, sp) /\ Part(a3, S, q) /\ Part(a3, n1, p.key) /\ Part(a3, n2, q)
  <2>1. a3 \in Seq(Nat) /\ Len(a3) = Len(a2) + Len(col) /\ Part(a3, Len(a2), col)
    BY <1>2, <1>10, PartOfJoin
  <2>2. Part(a3, n3, sp) /\ Part(a3, 0, sp) /\ Part(a3, S, q) /\ Part(a3, n1, p.key) /\ Part(a3, n2, q)
    BY <1>1, <1>2, <1>7, <1>10, PartOfJoin
  <2> QED BY <1>2, <1>10, <1>20, <2>1, <2>2
<1> HIDE DEF a3
<1>12. /\ a4 \in Seq(Nat) /\ Len(a4) = n6 /\ Part(a4, n5, sp) /\ Part(a4, n4, col) /\ Part(a4, n3, sp)
       /\ Part(a4, 0, sp) /\ Part(a4, S, q) /\ Part(a4, n1, p.key) /\ Part(a4, n2, q)
  <2>1. a4 \in Seq(Nat) /\ Len(a4) = Len(a3) + Len(sp) /\ Part(a4, Len(a3), sp)
    BY <1>1, <1>11, PartOfJoin
  <2>2. /\ Part(a4, n4, col) /\ Part(a4, n3, sp)
        /\ Part(a4, 0, sp) /\ Part(a4, S, q) /\ Part(a4, n1, p.key) /\ Part(a4, n2, q)
    BY <1>1, <1>2, <1>7, <1>11, PartOfJoin
  <2> QED BY <1>11, <1>20, <2>1, <2>2 DEF S
<1> HIDE DEF a4
<1>13. /\ a5 \in Seq(Nat) /\ Len(a5) = n7 /\ Part(a5, n6, p.value)
       /\ Part(a5, n5, sp) /\ Part(a5, n4, col) /\ Part(a5, n3, sp)
       /\ Part(a5, 0, sp) /\ Part(a5, S, q) /\ Part(a5, n1, p.key) /\ Part(a5, n2, q)
  <2>1. a5 \in Seq(Nat) /\ Len(a5) = Len(a4) + Len(p.value) /\ Part(a5, Len(a4), p.value)
    BY <1>1, <1>12, PartOfJoin
  <2>2. /\ Part(a5, n5, sp) /\ Part(a5, n4, col) /\ Part(a5, n3, sp)
        /\ Part(a5, 0, sp) /\ Part(a5, S, q) /\ Part(a5, n1, p.key) /\ Part(a5, n2, q)
    BY <1>1, <1>2, <1>7, <1>12, PartOfJoin
  <2> QED BY <1>12, <1>20, <2>1, <2>2 DEF V
<1> HIDE DEF a5
<1>14. /\ a6 \in Seq(Nat) /\ Len(a6) = n7 + S /\ Part(a6, n7, sp) /\ Part(a6, n6, p.value)
       /\ Part(a6, n5, sp) /\ Part(a6, n4, col) /\ Part(a6, n3, sp)
       /\ Part(a6, 0, sp) /\ Part(a6, S, q) /\ Part(a6, n1, p.key) /\ Part(a6, n2, q)
  <2>1. a6 \in Seq(Nat) /\ Len(a6) = Len(a5) + Len(sp) /\ Part(a6, Len(a5), sp)
    BY <1>1, <1>13, PartOfJoin
  <2>2. /\ Part(a6, n6, p.value)
        /\ Part(a6, n5, sp) /\ Part(a6, n4, col) /\ Part(a6, n3, sp)
        /\ Part(a6, 0, sp) /\ Part(a6, S, q) /\ Part(a6, n1, p.key) /\ Part(a6, n2, q)
    BY <1>1, <1>2, <1>7, <1>13, PartOfJoin
  <2> QED BY <1>13, <2>1, <2>2 DEF S
<1> HIDE DEF a6
<1>15. Laid(a6, 0, p, sp)
  <2>1. /\ 0 + S = S /\ 0 + S + 1 = n1 /\ 0 + S + 1 + K = n2 /\ 0 + S + K + 2 = n3
        /\ 0 + 2 * S + K + 2 = n4 /\ 0 + 2 * S + K + 3 = n5 /\ 0 + 3 * S + K + 3 = n6
        /\ 0 + 3 * S + K + 3 + V = n7
    BY <1>1, <1>8
  <2> QED BY <1>14, <2>1 DEF Laid, S, K, V, q, col
<1>16. Len(a6) = 4 * S + K + V + 3
  BY <1>8, <1>14
<1> QED BY <1>4, <1>14, <1>15, <1>16 DEF S, K, V

\* The characters of a pair that stands behind c: its key between the quotes at o and u,
\* its value at v, and what follows it at e.
Chars(t, c, o, u, v, e, p, S) ==
    /\ c \in Nat \ {0} /\ o \in Nat /\ u \in Nat /\ v \in Nat /\ e \in Nat /\ S \in Nat
    /\ o = c + S + 1 /\ u = o + Len(p.key) + 1 /\ v = u + 2 * S + 2 /\ e = v + Len(p.value) + S
    /\ \A k \in c + 1 .. o - 1 : At(t, k) = Space
    /\ At(t, o) = Quote
    /\ \A k \in 1 .. Len(p.key) : At(t, o + k) = p.key[k]
    /\ At(t, u) = Quote
    /\ \A k \in u + 1 .. u + S : At(t, k) = Space
    /\ At(t, u + S + 1) = Colon
    /\ \A k \in u + S + 2 .. v - 1 : At(t, k) = Space
    /\ \A k \in 1 .. Len(p.value) : At(t, v + k - 1) = p.value[k]
    /\ \A k \in v + Len(p.value) .. e - 1 : At(t, k) = Space

\* the characters of spaces
LEMMA SpacesAt ==
    ASSUME NEW t \in Seq(Nat), NEW sp \in Seq({Space}), NEW n \in Nat, Part(t, n, sp)
    PROVE  \A k \in n + 1 .. n + Len(sp) : At(t, k) = Space
<1>1. sp \in Seq(Nat) /\ Len(sp) \in Nat
  <2>1. {Space} \subseteq Nat
    BY DEF Space
  <2> QED BY <2>1, SeqMonotonic
<1>2. ASSUME NEW k \in n + 1 .. n + Len(sp) PROVE At(t, k) = Space
  <2>1. k - n \in 1 .. Len(sp) /\ n + (k - n) = k
    BY <1>1
  <2>2. At(t, n + (k - n)) = sp[k - n]
    BY <1>1, <2>1, PartAt
  <2>3. sp[k - n] \in {Space}
    BY <2>1, ElementOfSeq
  <2> QED BY <2>1, <2>2, <2>3
<1> QED BY <1>2

\* A pair that stands in a text has its characters there.
LEMMA PairChars ==
    ASSUME NEW t \in Seq(Nat), NEW c \in Nat \ {0}, NEW p \in PairType, NEW sp \in Seq({Space}),
           Part(t, c, PairText(p, sp))
    PROVE  LET S == Len(sp)
               o == c + S + 1
               u == o + Len(p.key) + 1
               v == u + 2 * S + 2
               e == v + Len(p.value) + S
           IN  /\ Chars(t, c, o, u, v, e, p, S)
               /\ e = c + Len(PairText(p, sp)) + 1
<1> DEFINE S == Len(sp)
           K == Len(p.key)
           V == Len(p.value)
           T == PairText(p, sp)
           q == <<Quote>>
           col == <<Colon>>
           n1 == S + 1
           n2 == S + 1 + K
           n3 == S + K + 2
           n4 == 2 * S + K + 2
           n5 == 2 * S + K + 3
           n6 == 3 * S + K + 3
           n7 == 3 * S + K + 3 + V
<1>1. /\ p.key \in Seq(Nat) /\ p.value \in Seq(Nat) /\ sp \in Seq(Nat)
      /\ S \in Nat /\ K \in Nat /\ V \in Nat
  BY PairParts
<1>2. q \in Seq(Nat) /\ col \in Seq(Nat) /\ Len(col) = 1 /\ Len(q) = 1 /\ q[1] = Quote /\ col[1] = Colon
  BY Single
<1>3. T \in Seq(Nat) /\ Len(T) = 4 * S + K + V + 3 /\ Laid(T, 0, p, sp) /\ Part(t, c, T)
  BY PairLaid
<1> HIDE DEF T, S, K, V, q, col
<1>4. /\ Part(T, 0, sp) /\ Part(T, S, q) /\ Part(T, n1, p.key) /\ Part(T, n2, q)
      /\ Part(T, n3, sp) /\ Part(T, n4, col) /\ Part(T, n5, sp) /\ Part(T, n6, p.value)
      /\ Part(T, n7, sp)
  <2>1. /\ 0 + S = S /\ 0 + S + 1 = n1 /\ 0 + S + 1 + K = n2 /\ 0 + S + K + 2 = n3
        /\ 0 + 2 * S + K + 2 = n4 /\ 0 + 2 * S + K + 3 = n5 /\ 0 + 3 * S + K + 3 = n6
        /\ 0 + 3 * S + K + 3 + V = n7
    BY <1>1
  <2> HIDE DEF n1, n2, n3, n4, n5, n6, n7
  <2> QED BY <1>3, <2>1 DEF Laid, S, K, V, q, col
<1>5. n1 \in Nat /\ n2 \in Nat /\ n3 \in Nat /\ n4 \in Nat /\ n5 \in Nat /\ n6 \in Nat /\ n7 \in Nat
  BY <1>1
<1> DEFINE o == c + S + 1
           u == o + K + 1
           v == u + 2 * S + 2
           e == v + V + S
<1>6. /\ c + n1 = o /\ c + n2 + 1 = u /\ c + n3 = u /\ c + n4 = u + S /\ c + n5 = u + S + 1
      /\ c + n6 = v - 1 /\ c + n7 = v + V - 1 /\ c + Len(T) + 1 = e
      /\ o \in Nat /\ u \in Nat /\ v \in Nat /\ e \in Nat
  BY <1>1, <1>3
<1>7. c + 0 = c /\ o = c + S + 1 /\ u = o + K + 1 /\ v = u + 2 * S + 2 /\ e = v + V + S
  OBVIOUS
<1> HIDE DEF n1, n2, n3, n4, n5, n6, n7, o, u, v, e
<1>8. /\ Part(t, c + 0, sp) /\ Part(t, c + S, q) /\ Part(t, c + n1, p.key) /\ Part(t, c + n2, q)
      /\ Part(t, c + n3, sp) /\ Part(t, c + n4, col) /\ Part(t, c + n5, sp)
      /\ Part(t, c + n6, p.value) /\ Part(t, c + n7, sp)
  <2>1. \A m \in Nat, z \in Seq(Nat) : Part(T, m, z) => Part(t, c + m, z)
    BY <1>3, PartOfPart
  <2> QED BY <1>1, <1>2, <1>4, <1>5, <2>1
<1>9. At(t, o) = Quote
  <2>1. At(t, (c + S) + 1) = q[1]
    <3>1. c + S \in Nat /\ 1 \in 1 .. Len(q) /\ Part(t, c + S, q)
      BY <1>1, <1>2, <1>8
    <3> QED BY ONLY t \in Seq(Nat), <1>2, <3>1, PartAt
  <2>2. (c + S) + 1 = o
    BY <1>7
  <2> QED BY <1>2, <2>1, <2>2
<1>10. At(t, u) = Quote
  <2>1. At(t, (c + n2) + 1) = q[1]
    <3>1. c + n2 \in Nat /\ 1 \in 1 .. Len(q)
      BY <1>2, <1>5
    <3> QED BY <1>2, <1>8, <3>1, PartAt
  <2> QED BY <1>2, <1>6, <2>1
<1>11. At(t, u + S + 1) = Colon
  <2>1. At(t, (c + n4) + 1) = col[1]
    <3>1. c + n4 \in Nat /\ 1 \in 1 .. Len(col)
      BY <1>2, <1>5
    <3> QED BY <1>2, <1>8, <3>1, PartAt
  <2> QED BY <1>2, <1>6, <2>1
<1>12. \A k \in 1 .. K : At(t, o + k) = p.key[k]
  <2>1. Part(t, o, p.key)
    BY <1>6, <1>8
  <2> QED BY <1>1, <1>6, <2>1, PartAt DEF K
<1>13. \A k \in 1 .. V : At(t, v + k - 1) = p.value[k]
  <2> TAKE k \in 1 .. V
  <2>1. c + n6 \in Nat /\ (c + n6) + k = v + k - 1
    BY <1>1, <1>5, <1>6
  <2>2. At(t, (c + n6) + k) = p.value[k]
    <3>1. p.value \in Seq(Nat) /\ Part(t, c + n6, p.value) /\ k \in 1 .. Len(p.value)
      BY <1>1, <1>8 DEF V
    <3> QED BY ONLY t \in Seq(Nat), <2>1, <3>1, PartAt
  <2> QED BY <2>1, <2>2
<1>14. \A n \in Nat : Part(t, n, sp) => \A k \in n + 1 .. n + S : At(t, k) = Space
  BY SpacesAt DEF S
<1>15. \A k \in c + 1 .. o - 1 : At(t, k) = Space
  <2>1. \A k \in c + 1 .. c + S : At(t, k) = Space
    BY <1>7, <1>8, <1>14
  <2>2. o - 1 = c + S
    BY <1>1, <1>7
  <2> QED BY <2>1, <2>2
<1>16. \A k \in u + 1 .. u + S : At(t, k) = Space
  BY <1>6, <1>8, <1>14
<1>17. \A k \in u + S + 2 .. v - 1 : At(t, k) = Space
  <2>1. \A k \in (u + S + 1) + 1 .. (u + S + 1) + S : At(t, k) = Space
    <3>1. u + S + 1 \in Nat /\ Part(t, u + S + 1, sp)
      <4>1. c + n5 = u + S + 1 /\ c + n5 \in Nat
        BY <1>5, <1>6
      <4> QED BY <1>8, <4>1, Zenon
    <3> QED BY <1>14, <3>1
  <2>2. (u + S + 1) + 1 = u + S + 2 /\ (u + S + 1) + S = v - 1
    BY <1>1, <1>6, <1>7
  <2> QED BY <2>1, <2>2
<1>18. \A k \in v + V .. e - 1 : At(t, k) = Space
  <2>1. \A k \in (v + V - 1) + 1 .. (v + V - 1) + S : At(t, k) = Space
    <3>1. v + V - 1 \in Nat /\ Part(t, v + V - 1, sp)
      <4>1. c + n7 = v + V - 1 /\ c + n7 \in Nat
        BY <1>5, <1>6
      <4> QED BY <1>8, <4>1, Zenon
    <3> QED BY <1>14, <3>1
  <2>2. (v + V - 1) + 1 = v + V /\ (v + V - 1) + S = e - 1
    BY <1>1, <1>6, <1>7
  <2> QED BY <2>1, <2>2
<1>19. Chars(t, c, o, u, v, e, p, S)
  BY <1>1, <1>6, <1>7, <1>9, <1>10, <1>11, <1>12, <1>13, <1>15, <1>16, <1>17, <1>18
     DEF Chars, K, V
<1> QED BY <1>6, <1>19 DEF S, K, V, T, o, u, v, e

\* the characters of a string and of its quotes, with those that are escaped
Quoted(x, E) ==
    /\ Len(x) \in Nat /\ Len(x) >= 2 /\ x[1] = Quote /\ x[Len(x)] = Quote
    /\ E \subseteq 3 .. Len(x) - 1
    /\ \A i \in 2 .. Len(x) - 1 :
          /\ x[i] # NUL
          /\ x[i] = Quote => i \in E
          /\ i + 1 \in E <=> x[i] = Backslash /\ i \notin E

\* The closing quote of a string is found from behind the opening one.
LEMMA StringEnds ==
    ASSUME NEW t \in Seq(Nat), NEW v \in Nat, NEW x, NEW E, Quoted(x, E),
           \A k \in 1 .. Len(x) : At(t, v + k - 1) = x[k]
    PROVE  JSON_findQuote(t, v + 1) = v + Len(x) - 1
<1> DEFINE n == Len(x)
           j == v + n - 1
           W == {k \in v + 1 .. j : k - v + 1 \notin E}
<1>1. n \in Nat /\ n >= 2 /\ x[1] = Quote /\ x[n] = Quote /\ E \subseteq 3 .. n - 1
  BY DEF Quoted
<1>2. \A i \in 2 .. n - 1 :
          /\ x[i] # NUL
          /\ x[i] = Quote => i \in E
          /\ i + 1 \in E <=> x[i] = Backslash /\ i \notin E
  BY DEF Quoted
<1>3. \A k \in 1 .. n : At(t, v + k - 1) = x[k]
  OBVIOUS
<1> HIDE DEF n
<1>4. j \in Nat /\ v + 1 <= j /\ j - v + 1 = n /\ (v + 1) - v + 1 = 2
  BY <1>1
<1>5. v + 1 \in W /\ j \in W
  <2>1. 2 \notin E /\ n \notin E
    BY <1>1
  <2>2. v + 1 \in v + 1 .. j /\ j \in v + 1 .. j
    BY <1>4
  <2> QED BY <1>4, <2>1, <2>2
<1>6. W \subseteq Nat /\ \A k \in W : k <= j
  BY <1>4
<1>7. ASSUME NEW k \in W, k # j
      PROVE  k \notin QuoteStop(t) /\ QuoteStep(t)[k] \in W /\ QuoteStep(t)[k] > k
  <2> DEFINE i == k - v + 1
  <2>1. k \in Nat /\ i \in 2 .. n - 1 /\ i \notin E /\ v + i - 1 = k /\ k + 1 \in v + 1 .. j
        /\ v + (i + 1) - 1 = k + 1 /\ (k + 1) - v + 1 = i + 1 /\ (k + 2) - v + 1 = (i + 1) + 1
        /\ i \in 1 .. n /\ i + 1 \in 1 .. n /\ (k + 2 <= j \/ i = n - 1)
    BY <1>1, <1>4, <1>7
  <2>2. At(t, k) = x[i] /\ At(t, k + 1) = x[i + 1]
    <3>1. At(t, v + i - 1) = x[i] /\ At(t, v + (i + 1) - 1) = x[i + 1]
      BY <1>3, <2>1
    <3> QED BY <2>1, <3>1
  <2> HIDE DEF i
  <2>3. At(t, k) \notin {NUL, Quote}
    BY <1>2, <2>1, <2>2
  <2>4. CASE At(t, k) # Backslash
    <3>1. QuoteStep(t)[k] = k + 1
      BY <2>1, <2>4 DEF QuoteStep
    <3>2. i + 1 \notin E
      BY <1>2, <2>1, <2>2, <2>4
    <3>3. k + 1 \in W
      BY <2>1, <3>2
    <3>4. k \notin QuoteStop(t)
      BY <2>3, <2>4 DEF QuoteStop
    <3> QED BY <2>1, <3>1, <3>3, <3>4
  <2>5. CASE At(t, k) = Backslash
    <3>1. QuoteStep(t)[k] = k + 2
      BY <2>1, <2>5 DEF QuoteStep
    <3>2. i + 1 \in E
      BY <1>2, <2>1, <2>2, <2>5
    <3>3. i + 1 \in 3 .. n - 1 /\ i + 1 \in 2 .. n - 1
      <4>1. i + 1 \in 3 .. n - 1
        BY <1>1, <3>2, Zenon
      <4> QED BY <1>1, <4>1
    <3>4. (i + 1) + 1 \notin E
      BY <1>2, <3>2, <3>3
    <3>5. k + 2 \in v + 1 .. j
      BY <1>1, <1>4, <2>1, <3>3
    <3>6. k + 2 \in W
      BY <2>1, <3>4, <3>5
    <3>7. At(t, k + 1) # NUL
      BY <1>2, <2>2, <3>3
    <3>8. k \notin QuoteStop(t)
      BY <2>3, <3>7 DEF QuoteStop
    <3> QED BY <2>1, <3>1, <3>6, <3>8
  <2> QED BY <2>4, <2>5
<1>8. IsChain(Scan(t), QuoteStop(t), QuoteVal(t), QuoteStep(t))
  BY QuoteChain
<1>9. Way(W, QuoteStop(t), QuoteStep(t), j)
  BY <1>5, <1>6, <1>7 DEF Way
<1>10. Scan(t)[v + 1] = Scan(t)[j]
  <2> HIDE DEF W, j
  <2> QED BY <1>5, <1>8, <1>9, ChainAlong
<1>11. At(t, j) = Quote
  <2>1. n \in 1 .. n
    BY <1>1
  <2> QED BY <1>1, <1>3, <2>1
<1> HIDE DEF j
<1>12. Scan(t)[j] = j
  <2>1. j \in QuoteStop(t) /\ QuoteVal(t)[j] = j
    BY <1>4, <1>11 DEF QuoteStop, QuoteVal
  <2> QED BY <1>4, <1>8, <2>1, ChainAt
<1> QED BY <1>10, <1>12, ScanIs DEF j, n

\* the kinds of values, by their characters
LEMMA ValueKind ==
    ASSUME NEW x \in Text, IsValue(x)
    PROVE  /\ Len(x) \in Nat \ {0} /\ Head(x) = x[1]
           /\ \/ \A k \in 1 .. Len(x) : x[k] \in Words
              \/ x[1] = Minus
              \/ \E E : Quoted(x, E)
<1> DEFINE n == Len(x)
           s == SubSeq(x, 2, n - 1)
<1>1. n \in Nat /\ \A i \in 1 .. n : x[i] \in Words \cup Marks /\ x[i] # NUL
  <2>1. \A i \in 1 .. n : x[i] \in Words \cup Marks
    BY DEF Text
  <2>2. NUL \notin Words \cup Marks
    BY WordsAssumption DEF Marks, NUL, Space, Quote, Comma, Minus, Colon, Backslash, Open, Close
  <2>3. n \in Nat
    BY DEF Text
  <2> QED BY <2>1, <2>2, <2>3
<1>2. CASE x \in {<<True>>, <<False>>}
  <2>1. n = 1 /\ x[1] \in Words /\ Head(x) = x[1]
    BY <1>2, Kinds
  <2> QED BY <2>1
<1>3. CASE x \in Seq(Words) \ {<<>>}
  <2>1. n \in Nat \ {0} /\ Head(x) = x[1] /\ \A k \in 1 .. n : x[k] \in Words
    BY <1>3
  <2> QED BY <2>1
<1>4. CASE x # <<>> /\ Head(x) = Minus
  <2>1. n \in Nat \ {0} /\ Head(x) = x[1]
    BY <1>4 DEF Text
  <2> QED BY <1>4, <2>1
<1>5. CASE x = String(s) /\ InString(s)
  <2>1. s \in Seq(Nat) /\ Len(s) \in Nat
    <3>1. x \in Seq(Nat)
      <4>1. Words \cup Marks \subseteq Nat
        BY WordsAssumption DEF Marks, Space, Quote, Comma, Minus, Colon, Backslash, Open, Close
      <4> QED BY <4>1, SeqMonotonic DEF Text
    <3>2. \A i \in 2 .. n - 1 : x[i] \in Nat
      <4>1. \A i \in 2 .. n - 1 : i \in 1 .. n
        BY <1>1
      <4> QED BY <3>1, <4>1, ElementOfSeq
    <3>3. s \in Seq(Nat)
      <4>1. 2 \in Int /\ n - 1 \in Int
        BY <1>1
      <4> QED BY <3>2, <4>1, SubSeqProperties
    <3> QED BY <3>3
  <2> HIDE DEF s
  <2>2. /\ x \in Seq(Nat) /\ n = Len(s) + 2
        /\ Part(x, 0, <<Quote>>) /\ Part(x, 1, s) /\ Part(x, 1 + Len(s), <<Quote>>)
    BY <1>5, <2>1, StringLaid
  <2>3. x[1] = Quote /\ x[n] = Quote
    <3>1. 1 \in 1 .. Len(<<Quote>>) /\ <<Quote>>[1] = Quote
      BY Single
    <3>2. x[0 + 1] = Quote /\ x[(1 + Len(s)) + 1] = Quote
      BY <2>2, <3>1 DEF Part
    <3>3. (1 + Len(s)) + 1 = n /\ 0 + 1 = 1
      BY <2>1, <2>2
    <3> QED BY <3>2, <3>3
  <2>4. ASSUME NEW i \in 2 .. n - 1 PROVE i - 1 \in 1 .. Len(s) /\ x[i] = s[i - 1]
    <3>1. i - 1 \in 1 .. Len(s) /\ 1 + (i - 1) = i
      BY <2>1, <2>2
    <3>2. x[1 + (i - 1)] = s[i - 1]
      BY <2>2, <3>1 DEF Part
    <3> QED BY <3>1, <3>2
  <2>5. PICK escaped \in SUBSET (2 .. Len(s)) : \A i \in 1 .. Len(s) :
          /\ i + 1 \in escaped <=> s[i] = Backslash /\ i \notin escaped
          /\ s[i] = Quote => i \in escaped
    BY <1>5 DEF InString
  <2> DEFINE E == {i \in 3 .. n - 1 : i - 1 \in escaped}
  <2>6. \A i \in Int : i \in E <=> i - 1 \in escaped
    BY <1>1, <2>1, <2>2
  <2>7. E \subseteq 3 .. n - 1
    OBVIOUS
  <2> HIDE DEF E
  <2>8. ASSUME NEW i \in 2 .. n - 1
        PROVE  /\ x[i] # NUL
               /\ x[i] = Quote => i \in E
               /\ i + 1 \in E <=> x[i] = Backslash /\ i \notin E
    <3>1. i - 1 \in 1 .. Len(s) /\ x[i] = s[i - 1] /\ i \in Int /\ i + 1 \in Int /\ i \in 1 .. n
          /\ (i + 1) - 1 = (i - 1) + 1
      BY <1>1, <2>4
    <3>2. /\ (i - 1) + 1 \in escaped <=> s[i - 1] = Backslash /\ i - 1 \notin escaped
          /\ s[i - 1] = Quote => i - 1 \in escaped
      BY <2>5, <3>1
    <3>3. (i \in E <=> i - 1 \in escaped) /\ (i + 1 \in E <=> (i - 1) + 1 \in escaped)
      BY <2>6, <3>1
    <3>4. x[i] # NUL
      BY <1>1, <3>1
    <3> HIDE DEF n
    <3> QED BY <3>1, <3>2, <3>3, <3>4, Zenon
  <2>9. Quoted(x, E)
    BY <1>1, <2>1, <2>2, <2>3, <2>7, <2>8 DEF Quoted
  <2>10. n \in Nat \ {0} /\ Head(x) = x[1]
    BY <2>1, <2>2
  <2> QED BY <2>9, <2>10
<1> QED BY <1>2, <1>3, <1>4, <1>5 DEF IsValue

\* the codes of the marks
LEMMA Characters ==
    /\ NUL = 0 /\ Space = 32 /\ Quote = 34 /\ Comma = 44 /\ Minus = 45 /\ Colon = 58
    /\ Backslash = 92 /\ Open = 123 /\ Close = 125 /\ None = 0
BY DEF NUL, Space, Quote, Comma, Minus, Colon, Backslash, Open, Close, None

\* no mark is a letter or digit
LEMMA NoWord ==
    \A w \in Words : w \notin {NUL, Space, Quote, Comma, Minus, Colon, Backslash, Open, Close}
BY WordsAssumption DEF Marks

\* The value of a pair is found behind its key.
LEMMA ValueAt ==
    ASSUME NEW t \in Seq(Nat), NEW c, NEW o, NEW u, NEW v, NEW e, NEW S,
           NEW p \in PairType, Chars(t, c, o, u, v, e, p, S)
    PROVE  ValueAfter(t, u + 1) = v
<1>1. /\ u \in Nat /\ v \in Nat /\ S \in Nat /\ v = u + 2 * S + 2
      /\ \A k \in u + 1 .. u + S : At(t, k) = Space
      /\ At(t, u + S + 1) = Colon
      /\ \A k \in u + S + 2 .. v - 1 : At(t, k) = Space
      /\ \A k \in 1 .. Len(p.value) : At(t, v + k - 1) = p.value[k]
  BY DEF Chars
<1> DEFINE w == u + S + 1
<1>2. w \in Nat /\ u + 1 \in Nat /\ u + 1 <= w /\ w - 1 = u + S /\ w + 1 \in Nat /\ w + 1 <= v
      /\ w + 1 = u + S + 2
  BY <1>1
<1>3. next(t, u + 1) = w
  <2>1. \A k \in u + 1 .. w - 1 : At(t, k) = Space
    BY <1>1, <1>2
  <2>2. At(t, w) # Space
    BY <1>1, Characters
  <2> HIDE DEF w
  <2> QED BY <1>2, <2>1, <2>2, NextOver
<1>4. At(t, v) = p.value[1] /\ p.value[1] \in Words \cup {Minus, Quote}
  <2>1. p.value \in Text /\ IsValue(p.value)
    BY DEF PairType
  <2>2. /\ Len(p.value) \in Nat \ {0}
        /\ \/ \A k \in 1 .. Len(p.value) : p.value[k] \in Words
           \/ p.value[1] = Minus
           \/ \E E : Quoted(p.value, E)
    BY <2>1, ValueKind
  <2>3. 1 \in 1 .. Len(p.value) /\ v + 1 - 1 = v
    BY <1>1, <2>2
  <2>4. At(t, v + 1 - 1) = p.value[1]
    BY <1>1, <2>3
  <2>5. p.value[1] \in Words \cup {Minus, Quote}
    BY <2>2, <2>3 DEF Quoted
  <2> QED BY <2>3, <2>4, <2>5
<1>5. At(t, v) \notin {NUL, Space, Close}
  BY <1>4, Characters, NoWord
<1>6. next(t, w + 1) = v
  <2>1. \A k \in w + 1 .. v - 1 : At(t, k) = Space
    BY <1>1, <1>2
  <2> HIDE DEF w
  <2> QED BY <1>1, <1>2, <1>5, <2>1, NextOver
<1>7. At(t, w) = Colon
  BY <1>1
<1> HIDE DEF w
<1> QED BY <1>3, <1>5, <1>6, <1>7 DEF ValueAfter

\* The pair ends behind its value, but the reader does not get over a sign.
LEMMA EndAt ==
    ASSUME NEW t \in Seq(Nat), NEW c, NEW o, NEW u, NEW v, NEW e, NEW S,
           NEW p \in PairType, Chars(t, c, o, u, v, e, p, S), At(t, e) \in {Comma, Close}
    PROVE  IF Head(p.value) = Minus THEN PairEnd(t, v) = v /\ At(t, v) = Minus
           ELSE PairEnd(t, v) = e
<1> DEFINE x == p.value
           n == Len(x)
<1>1. /\ v \in Nat /\ e \in Nat /\ S \in Nat /\ e = v + n + S /\ v # 0
      /\ \A k \in 1 .. n : At(t, v + k - 1) = x[k]
      /\ \A k \in v + n .. e - 1 : At(t, k) = Space
  <2>1. /\ v \in Nat /\ e \in Nat /\ S \in Nat /\ e = v + n + S /\ u \in Nat /\ v = u + 2 * S + 2
        /\ \A k \in 1 .. n : At(t, v + k - 1) = x[k]
        /\ \A k \in v + n .. e - 1 : At(t, k) = Space
    BY DEF Chars
  <2>2. v # 0
    BY <2>1
  <2> QED BY <2>1, <2>2
<1>2. /\ n \in Nat \ {0} /\ Head(x) = x[1]
      /\ \/ \A k \in 1 .. n : x[k] \in Words
         \/ x[1] = Minus
         \/ \E E : Quoted(x, E)
  <2>1. x \in Text /\ IsValue(x)
    BY DEF PairType
  <2> QED BY <2>1, ValueKind
<1> HIDE DEF x, n
<1>3. At(t, v) = x[1]
  <2>1. 1 \in 1 .. n /\ v + 1 - 1 = v
    BY <1>1, <1>2
  <2>2. At(t, v + 1 - 1) = x[1]
    BY <1>1, <2>1
  <2> QED BY <2>1, <2>2
<1>4. v + n \in Nat /\ v + n <= e
  BY <1>1, <1>2
<1>5. At(t, e) # Space /\ At(t, e) \notin Words
  BY Characters, NoWord
<1>6. next(t, v + n) = e
  BY <1>1, <1>4, <1>5, NextOver
<1>7. CASE x[1] = Minus
  <2>1. At(t, v) # Space /\ At(t, v) \notin Words /\ At(t, v) # Quote
    BY <1>3, <1>7, Characters, NoWord
  <2>2. WordEnd(t, v) = v /\ next(t, v) = v
    <3>1. v <= v /\ \A k \in v .. v - 1 : FALSE
      BY <1>1
    <3> QED BY <1>1, <2>1, <3>1, WordOver, NextOver
  <2> QED BY <1>2, <1>3, <1>7, <2>1, <2>2 DEF PairEnd, x
<1>8. CASE \A k \in 1 .. n : x[k] \in Words
  <2>1. ASSUME NEW k \in v .. (v + n) - 1 PROVE At(t, k) \in Words
    <3>1. k - v + 1 \in 1 .. n /\ v + (k - v + 1) - 1 = k
      BY <1>1, <1>2
    <3>2. At(t, v + (k - v + 1) - 1) = x[k - v + 1]
      BY <1>1, <3>1
    <3> QED BY <1>8, <3>1, <3>2
  <2>2. At(t, v + n) \notin Words
    <3>1. CASE S = 0
      BY <1>1, <1>2, <1>5, <3>1
    <3>2. CASE S # 0
      <4>1. v + n \in v + n .. e - 1
        BY <1>1, <1>2, <3>2
      <4>2. At(t, v + n) = Space
        BY <1>1, <4>1
      <4> QED BY <4>2, NoWord
    <3> QED BY <3>1, <3>2
  <2>3. WordEnd(t, v) = v + n
    <3>1. v <= v + n
      BY <1>1, <1>2
    <3> QED BY <1>1, <1>4, <2>1, <2>2, <3>1, WordOver
  <2>4. x[1] \in Words
    BY <1>2, <1>8
  <2>5. x[1] # Quote /\ x[1] # Minus
    BY <2>4, NoWord
  <2> QED BY <1>2, <1>3, <1>6, <2>3, <2>5 DEF PairEnd, x
<1>9. CASE \E E : Quoted(x, E)
  <2>1. PICK E : Quoted(x, E)
    BY <1>9
  <2>2. JSON_findQuote(t, v + 1) = v + Len(x) - 1
    <3>1. \A k \in 1 .. Len(x) : At(t, v + k - 1) = x[k]
      BY <1>1 DEF n
    <3> QED BY <1>1, <2>1, <3>1, StringEnds
  <2>3. x[1] = Quote /\ x[n] = Quote
    BY <2>1 DEF Quoted, n
  <2>4. At(t, v + n - 1) = Quote
    <3>1. n \in 1 .. n
      BY <1>2
    <3> QED BY <1>1, <2>3, <3>1
  <2>5. (v + n - 1) + 1 = v + n
    BY <1>1, <1>2
  <2>6. Quote # NUL /\ Quote # Minus
    BY Characters
  <2> QED BY <1>2, <1>3, <1>6, <2>2, <2>3, <2>4, <2>5, <2>6 DEF PairEnd, x, n
<1> QED BY <1>2, <1>7, <1>8, <1>9

-----------------------------------------------------------------------------
(* The search, at a pair.                                                     *)

\* The search at the place of a pair says its value for its key, and goes on behind it for another.
LEMMA PairSearched ==
    ASSUME NEW t \in Seq(Nat), NEW c, NEW o, NEW u, NEW v, NEW e, NEW S,
           NEW p \in PairType, Chars(t, c, o, u, v, e, p, S), NEW key \in Seq(Words),
           At(t, c) \in {Open, Comma}, At(t, e) \in {Comma, Close}
    PROVE  Search(t, key)[c] =
             IF p.key = key THEN v
             ELSE IF Head(p.value) = Minus \/ At(t, e) = Close THEN None
             ELSE Search(t, key)[e]
<1> DEFINE K == Len(p.key)
           L == Len(key)
<1>1. /\ c \in Nat /\ o \in Nat /\ u \in Nat /\ v \in Nat /\ e \in Nat /\ S \in Nat
      /\ o = c + S + 1 /\ u = o + K + 1 /\ v = u + 2 * S + 2 /\ v # 0 /\ e # 0
      /\ \A k \in c + 1 .. o - 1 : At(t, k) = Space
      /\ At(t, o) = Quote
      /\ \A k \in 1 .. K : At(t, o + k) = p.key[k]
      /\ At(t, u) = Quote
  <2>1. /\ c \in Nat \ {0} /\ o \in Nat /\ u \in Nat /\ v \in Nat /\ e \in Nat /\ S \in Nat
        /\ o = c + S + 1 /\ u = o + K + 1 /\ v = u + 2 * S + 2
        /\ \A k \in c + 1 .. o - 1 : At(t, k) = Space
        /\ At(t, o) = Quote
        /\ \A k \in 1 .. K : At(t, o + k) = p.key[k]
        /\ At(t, u) = Quote
        /\ e = v + Len(p.value) + S
    BY DEF Chars
  <2>2. Len(p.value) \in Nat /\ p.value \in Text
    BY DEF PairType, Text
  <2>3. v # 0 /\ e # 0
    <3> DEFINE V == Len(p.value)
    <3>1. V \in Nat /\ e = v + V + S /\ v = u + 2 * S + 2 /\ u \in Nat /\ S \in Nat
      BY <2>1, <2>2
    <3> HIDE DEF V
    <3> QED BY ONLY <3>1
  <2> QED BY <2>1, <2>3
<1>2. /\ K \in Nat /\ L \in Nat
      /\ \A k \in 1 .. K : p.key[k] \in Words
      /\ \A k \in 1 .. L : key[k] \in Words
      /\ K = L /\ (\A k \in 1 .. K : p.key[k] = key[k]) => p.key = key
  <2>1. p.key \in Seq(Words) /\ key \in Seq(Words)
    BY DEF PairType
  <2>2. ASSUME K = L, \A k \in 1 .. K : p.key[k] = key[k] PROVE p.key = key
    BY <2>1, <2>2, SeqEqual
  <2>3. K \in Nat /\ L \in Nat
    BY <2>1
  <2>4. (\A k \in 1 .. K : p.key[k] \in Words) /\ \A k \in 1 .. L : key[k] \in Words
    BY <2>1
  <2> HIDE DEF K, L
  <2> QED BY <2>2, <2>3, <2>4
<1>3. p.key = key => K = L
  OBVIOUS
<1> HIDE DEF K, L
<1>4. KeyAt(t, c) = o
  <2>1. c <= o
    <3>1. c \in Nat /\ S \in Nat /\ o = c + S + 1
      BY <1>1
    <3> QED BY <3>1
  <2>2. ASSUME NEW k \in c .. o - 1 PROVE At(t, k) \notin {NUL, Quote, Backslash}
    <3>1. k = c \/ k \in c + 1 .. o - 1
      BY <1>1
    <3>2. At(t, k) \in {Open, Comma, Space}
      BY <1>1, <3>1
    <3> QED BY <3>2, Characters
  <2> QED BY <1>1, <2>1, <2>2, QuoteOver DEF KeyAt
<1>5. Agrees(t, key, c) <=> \A k \in 1 .. L : At(t, o + k) = key[k]
  <2>1. \A k \in 1 .. L : (o + 1) + k - 1 = o + k
    BY <1>1, <1>2
  <2> QED BY <1>4, <2>1 DEF Agrees, Matches, L
<1>6. At(t, c) # NUL
  BY Characters
<1>7. Search(t, key)[c] = Looks(t, key, Search(t, key), c)
  BY <1>1, SearchLooks
<1>8. CASE p.key = key
  <2>1. K = L /\ Agrees(t, key, c)
    BY <1>1, <1>3, <1>5, <1>8
  <2>2. Passed(t, key, c) = u
    <3>1. Passed(t, key, c) = o + 1 + L
      BY <1>4, <2>1 DEF Passed, L
    <3> QED BY <1>1, <1>2, <2>1, <3>1
  <2>3. Hits(t, key, c)
    BY <1>1, <2>1, <2>2 DEF Hits
  <2>4. ValueAfter(t, u + 1) = v
    BY ValueAt
  <2> QED BY <1>6, <1>7, <1>8, <2>2, <2>3, <2>4 DEF Looks
<1>9. CASE p.key # key
  <2>1. ASSUME Agrees(t, key, c) PROVE L < K
    <3>1. CASE L = K
      <4>1. \A k \in 1 .. K : p.key[k] = key[k]
        BY <1>1, <1>5, <2>1, <3>1
      <4> QED BY <1>2, <1>9, <3>1, <4>1
    <3>2. CASE L > K
      <4>1. K + 1 \in 1 .. L /\ o + (K + 1) = u
        BY <1>1, <1>2, <3>2
      <4>2. At(t, u) = key[K + 1] /\ key[K + 1] \in Words
        BY <1>2, <1>5, <2>1, <4>1
      <4> QED BY <1>1, <4>2, NoWord
    <3> QED BY <1>2, <3>1, <3>2
  <2>2. \/ Agrees(t, key, c) /\ Passed(t, key, c) = o + 1 + L /\ L < K
        \/ ~Agrees(t, key, c) /\ Passed(t, key, c) = o
    BY <1>4, <2>1 DEF Passed, L
  <2>3. ~Hits(t, key, c)
    <3>1. CASE Agrees(t, key, c)
      <4>0. L \in Nat /\ K \in Nat /\ o \in Nat /\ L < K
        BY <1>1, <1>2, <2>1, <3>1
      <4>1. L + 1 \in 1 .. K /\ o + (L + 1) = o + 1 + L
        BY ONLY <4>0
      <4>2. At(t, o + 1 + L) \in Words
        BY <1>1, <1>2, <4>1
      <4> QED BY <2>2, <3>1, <4>2, NoWord DEF Hits
    <3> QED BY <3>1 DEF Hits
  <2>4. KeyEnd(t, key, c) = u
    <3> DEFINE i == Passed(t, key, c) + 1
    <3>1. i \in Nat /\ i <= u /\ i > o
      BY <1>1, <1>2, <2>2
    <3>2. ASSUME NEW k \in i .. u - 1 PROVE At(t, k) \notin {NUL, Quote, Backslash}
      <4>1. k - o \in 1 .. K /\ o + (k - o) = k
        BY <1>1, <1>2, <3>1
      <4>2. At(t, o + (k - o)) \in Words
        BY <1>1, <1>2, <4>1
      <4> QED BY <4>1, <4>2, NoWord
    <3> HIDE DEF i
    <3>3. JSON_findQuote(t, i) = u
      BY <1>1, <3>1, <3>2, QuoteOver
    <3> QED BY <3>3 DEF KeyEnd, i
  <2>5. ValueOf(t, key, c) = v
    BY <2>4, ValueAt DEF ValueOf
  <2>6. At(t, KeyEnd(t, key, c)) # NUL
    BY <1>1, <2>4, Characters
  <2>7. CASE Head(p.value) = Minus
    <3>1. EndOf(t, key, c) = v /\ At(t, v) = Minus
      BY <2>5, <2>7, EndAt DEF EndOf
    <3>2. GivesUp(t, key, c)
      BY <3>1, Characters DEF GivesUp
    <3> QED BY <1>6, <1>7, <1>9, <2>3, <2>7, <3>2 DEF Looks
  <2>8. CASE Head(p.value) # Minus
    <3>1. EndOf(t, key, c) = e
      BY <2>5, <2>8, EndAt DEF EndOf
    <3>2. GivesUp(t, key, c) <=> At(t, e) = Close
      BY <1>1, <2>5, <2>6, <3>1, Characters DEF GivesUp
    <3> QED BY <1>6, <1>7, <1>9, <2>3, <2>8, <3>1, <3>2 DEF Looks
  <2> QED BY <2>7, <2>8
<1> QED BY <1>8, <1>9

-----------------------------------------------------------------------------
(* The text of an object.                                                     *)

\* what is written before the i-th pair
Between(i) == IF i = 1 THEN <<>> ELSE <<Comma>>

\* the text of the first pairs of an object, for each number of them
IsPairs(o, sp, f) ==
    f = [i \in 0 .. Len(o) |->
          IF i = 0 THEN <<>> ELSE f[i - 1] \o Between(i) \o PairText(o[i], sp)]

Pairs(o, sp) == CHOOSE f : IsPairs(o, sp, f)

\* the text of an object, by that of its pairs
LEMMA ObjectIs ==
    ASSUME NEW o, NEW sp
    PROVE  ObjectText(o, sp) = <<Open>> \o Pairs(o, sp)[Len(o)] \o <<Close>> \o sp
BY DEF ObjectText, Pairs, IsPairs, Between

\* one pair more
LEMMA PairsExist ==
    ASSUME NEW o \in Seq(PairType), NEW sp
    PROVE  IsPairs(o, sp, Pairs(o, sp))
<1> DEFINE Upto(n, f) == f = [i \in 0 .. n |->
                 IF i = 0 THEN <<>> ELSE f[i - 1] \o Between(i) \o PairText(o[i], sp)]
           M == {n \in Nat : \E f : Upto(n, f)}
<1>1. 0 \in M
  <2> DEFINE f == [i \in 0 .. 0 |-> <<>>]
  <2>1. [i \in 0 .. 0 |-> IF i = 0 THEN <<>> ELSE f[i - 1] \o Between(i) \o PairText(o[i], sp)] = f
    <3>1. \A i \in 0 .. 0 : i = 0
      OBVIOUS
    <3> QED BY <3>1
  <2>2. Upto(0, f)
    BY <2>1
  <2> QED BY <2>2
<1>2. ASSUME NEW n \in Nat, n \in M PROVE n + 1 \in M
  <2>1. PICK f : Upto(n, f)
    BY <1>2
  <2> DEFINE g == [i \in 0 .. n + 1 |->
                     IF i = 0 THEN <<>> ELSE f[i - 1] \o Between(i) \o PairText(o[i], sp)]
  <2>2. \A i \in 0 .. n + 1 :
          g[i] = IF i = 0 THEN <<>> ELSE f[i - 1] \o Between(i) \o PairText(o[i], sp)
    OBVIOUS
  <2>3. \A i \in 0 .. n :
          f[i] = IF i = 0 THEN <<>> ELSE f[i - 1] \o Between(i) \o PairText(o[i], sp)
    BY <2>1
  <2> HIDE DEF g
  <2>4. \A i \in 0 .. n : g[i] = f[i]
    <3>1. \A i \in 0 .. n : i \in 0 .. n + 1
      OBVIOUS
    <3> QED BY <2>2, <2>3, <3>1
  <2>5. \A i \in 0 .. n + 1 :
          g[i] = IF i = 0 THEN <<>> ELSE g[i - 1] \o Between(i) \o PairText(o[i], sp)
    <3> TAKE i \in 0 .. n + 1
    <3>1. CASE i = 0
      BY <2>2, <3>1
    <3>2. CASE i # 0
      <4>1. i - 1 \in 0 .. n
        BY <3>2
      <4> QED BY <2>2, <2>4, <3>2, <4>1
    <3> QED BY <3>1, <3>2
  <2>6. Upto(n + 1, g)
    <3>1. g = [i \in 0 .. n + 1 |-> g[i]]
      BY DEF g
    <3> DEFINE h == [i \in 0 .. n + 1 |->
                 IF i = 0 THEN <<>> ELSE g[i - 1] \o Between(i) \o PairText(o[i], sp)]
    <3>2. \A i \in 0 .. n + 1 : h[i] = g[i]
      BY <2>5
    <3>3. h = [i \in 0 .. n + 1 |-> h[i]]
      OBVIOUS
    <3>4. h = g
      <4> HIDE DEF h
      <4> QED BY <3>1, <3>2, <3>3
    <3> QED BY <3>4
  <2> QED BY <2>6
<1>3. Len(o) \in M
  <2>1. Nat \subseteq M
    <3> HIDE DEF M
    <3> QED BY <1>1, <1>2, NatInd
  <2>2. Len(o) \in Nat
    OBVIOUS
  <2> QED BY <2>1, <2>2
<1>4. \E f : IsPairs(o, sp, f)
  BY <1>3 DEF IsPairs
<1> QED BY <1>4 DEF Pairs

\* the text of the first pairs, by that of one less
LEMMA PairsAt ==
    ASSUME NEW o \in Seq(PairType), NEW sp, NEW i \in 0 .. Len(o)
    PROVE  Pairs(o, sp)[i] =
             IF i = 0 THEN <<>> ELSE Pairs(o, sp)[i - 1] \o Between(i) \o PairText(o[i], sp)
<1>1. IsPairs(o, sp, Pairs(o, sp))
  BY PairsExist
<1> DEFINE f == Pairs(o, sp)
<1>2. f = [j \in 0 .. Len(o) |->
          IF j = 0 THEN <<>> ELSE f[j - 1] \o Between(j) \o PairText(o[j], sp)]
  BY <1>1 DEF IsPairs
<1> HIDE DEF f
<1>3. f[i] = IF i = 0 THEN <<>> ELSE f[i - 1] \o Between(i) \o PairText(o[i], sp)
  BY <1>2
<1> QED BY <1>3 DEF f

\* what a pair adds to those before it
LEMMA PairAdded ==
    ASSUME NEW s \in Seq(Nat), NEW i \in Nat, NEW p \in PairType, NEW sp \in Seq({Space})
    PROVE  LET T == PairText(p, sp)
               x == s \o Between(i) \o T
               b == IF i = 1 THEN 0 ELSE 1
           IN  /\ x \in Seq(Nat) /\ Len(x) = Len(s) + b + Len(T)
               /\ Part(x, 0, s) /\ Part(x, Len(s) + b, T)
               /\ i # 1 => Part(x, Len(s), <<Comma>>)
<1> DEFINE T == PairText(p, sp)
           m == Between(i)
           y == s \o m
           x == y \o T
           b == IF i = 1 THEN 0 ELSE 1
<1>1. T \in Seq(Nat) /\ Len(s) \in Nat
  <2>1. T \in Seq(Nat)
    BY PairLaid
  <2>2. Len(s) \in Nat
    OBVIOUS
  <2> QED BY <2>1, <2>2
<1>2. m \in Seq(Nat) /\ Len(m) = b /\ (i # 1 => m = <<Comma>>) /\ b \in Nat
  <2>1. <<>> \in Seq(Nat) /\ Len(<<>>) = 0
    OBVIOUS
  <2> QED BY <2>1, Single DEF Between
<1> HIDE DEF T, m, b
<1>3. /\ y \in Seq(Nat) /\ Len(y) = Len(s) + b /\ Part(y, Len(s), m) /\ Part(y, 0, s)
  BY <1>1, <1>2, PartOfJoin, PartWhole
<1> HIDE DEF y
<1>4. /\ x \in Seq(Nat) /\ Len(x) = Len(y) + Len(T) /\ Part(x, Len(y), T)
      /\ Part(x, Len(s), m) /\ Part(x, 0, s)
  BY <1>1, <1>2, <1>3, PartOfJoin
<1> HIDE DEF x
<1>5. /\ x \in Seq(Nat) /\ Len(x) = Len(s) + b + Len(T)
      /\ Part(x, 0, s) /\ Part(x, Len(s) + b, T)
      /\ i # 1 => Part(x, Len(s), <<Comma>>)
  BY <1>2, <1>3, <1>4
<1> QED BY <1>5 DEF x, y, m, T, b

\* it is a text
LEMMA PairsType ==
    ASSUME NEW o \in Seq(PairType), NEW sp \in Seq({Space}), NEW i \in 0 .. Len(o)
    PROVE  Pairs(o, sp)[i] \in Seq(Nat)
<1> DEFINE f == Pairs(o, sp)
           M == {n \in Nat : n <= Len(o) => f[n] \in Seq(Nat)}
<1>0. Len(o) \in Nat
  OBVIOUS
<1>1. 0 \in M
  <2>1. 0 \in 0 .. Len(o)
    BY <1>0
  <2>2. f[0] = <<>>
    BY <2>1, PairsAt
  <2> HIDE DEF f
  <2>3. f[0] \in Seq(Nat)
    BY <2>2
  <2> QED BY <2>3
<1>2. ASSUME NEW n \in Nat, n \in M PROVE n + 1 \in M
  <2>1. ASSUME n + 1 <= Len(o) PROVE f[n + 1] \in Seq(Nat)
    <3>1. n + 1 \in 0 .. Len(o) /\ n + 1 # 0 /\ n + 1 \in 1 .. Len(o) /\ (n + 1) - 1 = n /\ n <= Len(o)
      BY <1>0, <2>1
    <3>2. f[n + 1] = f[n] \o Between(n + 1) \o PairText(o[n + 1], sp)
      BY <3>1, PairsAt
    <3>3. o[n + 1] \in PairType /\ f[n] \in Seq(Nat) /\ n + 1 \in Nat
      BY <1>2, <3>1, ElementOfSeq
    <3> DEFINE j == n + 1
               p == o[n + 1]
               s == f[n]
               x == s \o Between(j) \o PairText(p, sp)
    <3>4. s \in Seq(Nat) /\ j \in Nat /\ p \in PairType /\ f[n + 1] = x
      BY <3>2, <3>3
    <3> HIDE DEF f, j, p, s
    <3>5. x \in Seq(Nat)
      BY <3>4, PairAdded
    <3> QED BY <3>4, <3>5
  <2> QED BY <2>1
<1>3. Nat \subseteq M
  <2> HIDE DEF M
  <2> QED BY <1>1, <1>2, NatInd
<1>4. i \in Nat /\ i <= Len(o)
  BY <1>0
<1> QED BY <1>3, <1>4

\* The pairs so far are the beginning of those that come after.
LEMMA PairsGrow ==
    ASSUME NEW o \in Seq(PairType), NEW sp \in Seq({Space}), NEW i \in 0 .. Len(o)
    PROVE  Part(Pairs(o, sp)[Len(o)], 0, Pairs(o, sp)[i])
<1> DEFINE f == Pairs(o, sp)
           n == Len(o)
           M == {k \in Nat : i + k <= n => Part(f[i + k], 0, f[i])}
<1>0. n \in Nat /\ i \in Nat /\ i <= n /\ f[i] \in Seq(Nat)
  BY PairsType
<1>1. 0 \in M
  <2>1. i + 0 = i /\ Part(f[i], 0, f[i])
    BY <1>0, PartWhole
  <2> QED BY <2>1
<1>2. ASSUME NEW k \in Nat, k \in M PROVE k + 1 \in M
  <2>1. ASSUME i + (k + 1) <= n PROVE Part(f[i + (k + 1)], 0, f[i])
    <3> DEFINE j == i + k
    <3>1. /\ j + 1 = i + (k + 1) /\ j + 1 \in 0 .. n /\ j \in 0 .. n /\ j + 1 # 0
          /\ j + 1 \in 1 .. n /\ (j + 1) - 1 = j /\ j <= n
      BY <1>0, <2>1
    <3>2. f[j + 1] = f[j] \o Between(j + 1) \o PairText(o[j + 1], sp)
      BY <3>1, PairsAt
    <3>3. o[j + 1] \in PairType /\ f[j] \in Seq(Nat) /\ j + 1 \in Nat
      BY <3>1, PairsType, ElementOfSeq
    <3>4. Part(f[j], 0, f[i])
      BY <1>2, <3>1
    <3>5. f[j + 1] \in Seq(Nat) /\ Part(f[j + 1], 0, f[j])
      <4> DEFINE l == j + 1
                 p == o[j + 1]
                 s == f[j]
                 x == s \o Between(l) \o PairText(p, sp)
      <4>1. s \in Seq(Nat) /\ l \in Nat /\ p \in PairType /\ f[j + 1] = x
        BY <3>2, <3>3
      <4> HIDE DEF f, j, l, p, s
      <4>2. x \in Seq(Nat) /\ Part(x, 0, s)
        BY <4>1, PairAdded
      <4> QED BY <4>1, <4>2 DEF s
    <3> HIDE DEF f, j
    <3>6. Part(f[j + 1], 0 + 0, f[i])
      BY <1>0, <3>3, <3>4, <3>5, PartOfPart
    <3> QED BY <3>1, <3>6
  <2> QED BY <2>1
<1>3. Nat \subseteq M
  <2> HIDE DEF M
  <2> QED BY <1>1, <1>2, NatInd
<1>4. n - i \in Nat /\ i + (n - i) = n
  BY <1>0
<1>5. n - i \in M
  BY <1>3, <1>4
<1> QED BY <1>4, <1>5

\* The first pairs of an object are an object's.
LEMMA PairsOfFirst ==
    ASSUME NEW o \in Seq(PairType), NEW sp \in Seq({Space}), NEW i \in 0 .. Len(o)
    PROVE  /\ SubSeq(o, 1, i) \in Seq(PairType) /\ Len(SubSeq(o, 1, i)) = i
           /\ Pairs(SubSeq(o, 1, i), sp)[i] = Pairs(o, sp)[i]
<1> DEFINE a == SubSeq(o, 1, i)
           M == {k \in Nat : k <= i => Pairs(a, sp)[k] = Pairs(o, sp)[k]}
<1>0. Len(o) \in Nat /\ i \in Nat /\ i <= Len(o)
  OBVIOUS
<1>1. a \in Seq(PairType) /\ Len(a) = i /\ \A k \in 1 .. i : a[k] = o[k]
  <2>1. 1 \in Int /\ i \in Int /\ \A k \in 1 .. i : o[k] \in PairType
    BY <1>0, ElementOfSeq
  <2> QED BY <1>0, <2>1, SubSeqProperties
<1> HIDE DEF a
<1>2. 0 \in M
  <2>1. 0 \in 0 .. Len(a) /\ 0 \in 0 .. Len(o)
    BY <1>0, <1>1
  <2>2. Pairs(a, sp)[0] = <<>> /\ Pairs(o, sp)[0] = <<>>
    BY <1>1, <2>1, PairsAt
  <2> QED BY <2>2
<1>3. ASSUME NEW k \in Nat, k \in M PROVE k + 1 \in M
  <2>1. ASSUME k + 1 <= i PROVE Pairs(a, sp)[k + 1] = Pairs(o, sp)[k + 1]
    <3>1. /\ k + 1 \in 0 .. Len(a) /\ k + 1 \in 0 .. Len(o) /\ k + 1 # 0 /\ (k + 1) - 1 = k
          /\ k + 1 \in 1 .. i /\ k <= i
      BY <1>0, <1>1, <2>1
    <3>2. Pairs(a, sp)[k + 1] = Pairs(a, sp)[k] \o Between(k + 1) \o PairText(a[k + 1], sp)
      <4>1. sp \in Seq({Space}) /\ a \in Seq(PairType)
        BY <1>1
      <4> QED BY ONLY <3>1, <4>1, PairsAt, ZenonT(30)
    <3>3. Pairs(o, sp)[k + 1] = Pairs(o, sp)[k] \o Between(k + 1) \o PairText(o[k + 1], sp)
      BY <3>1, PairsAt
    <3>4. a[k + 1] = o[k + 1] /\ Pairs(a, sp)[k] = Pairs(o, sp)[k]
      BY <1>1, <1>3, <3>1
    <3> QED BY <3>2, <3>3, <3>4
  <2> QED BY <2>1
<1>4. Nat \subseteq M
  <2> HIDE DEF M
  <2> QED BY <1>2, <1>3, NatInd
<1>5. i \in M
  BY <1>0, <1>4
<1>6. Pairs(a, sp)[i] = Pairs(o, sp)[i]
  BY <1>0, <1>5
<1> QED BY <1>1, <1>6 DEF a

\* what stands where in the text of an object
LEMMA ObjectLaid ==
    ASSUME NEW o \in Seq(PairType), NEW sp \in Seq({Space})
    PROVE  LET t == ObjectText(o, sp)
               all == Pairs(o, sp)[Len(o)]
           IN  /\ t \in Seq(Nat) /\ Len(t) = 2 + Len(all) + Len(sp)
               /\ all \in Seq(Nat) /\ Len(all) \in Nat /\ sp \in Seq(Nat) /\ Len(sp) \in Nat
               /\ Part(t, 0, <<Open>>) /\ Part(t, 1, all)
               /\ Part(t, 1 + Len(all), <<Close>>) /\ Part(t, 2 + Len(all), sp)
<1> DEFINE all == Pairs(o, sp)[Len(o)]
           op == <<Open>>
           cl == <<Close>>
           a1 == op \o all
           a2 == a1 \o cl
           a3 == a2 \o sp
<1>1. all \in Seq(Nat)
  <2>1. Len(o) \in 0 .. Len(o)
    <3>1. Len(o) \in Nat
      OBVIOUS
    <3> QED BY <3>1
  <2> QED BY <2>1, PairsType
<1>2. op \in Seq(Nat) /\ Len(op) = 1 /\ cl \in Seq(Nat) /\ Len(cl) = 1
  BY Single
<1>3. sp \in Seq(Nat)
  <2>1. {Space} \subseteq Nat
    BY DEF Space
  <2> QED BY <2>1, SeqMonotonic
<1>4. a3 = ObjectText(o, sp)
  BY ObjectIs
<1> HIDE DEF all, op, cl
<1>5. Len(all) \in Nat /\ Len(sp) \in Nat
  BY <1>1, <1>3
<1>6. a1 \in Seq(Nat) /\ Len(a1) = 1 + Len(all) /\ Part(a1, 1, all) /\ Part(a1, 0, op)
  <2>1. Part(op, 0, op)
    BY <1>2, PartWhole
  <2> QED BY <1>1, <1>2, <2>1, PartOfJoin
<1> HIDE DEF a1
<1>7. /\ a2 \in Seq(Nat) /\ Len(a2) = Len(a1) + Len(cl) /\ Part(a2, Len(a1), cl)
      /\ Part(a2, 1, all) /\ Part(a2, 0, op)
  BY <1>1, <1>2, <1>6, PartOfJoin
<1> HIDE DEF a2
<1>8. 1 + Len(all) \in Nat
  BY <1>5
<1>9. /\ a2 \in Seq(Nat) /\ Len(a2) = 2 + Len(all) /\ Part(a2, 1 + Len(all), cl)
      /\ Part(a2, 1, all) /\ Part(a2, 0, op)
  BY <1>2, <1>5, <1>6, <1>7
<1>10. /\ a3 \in Seq(Nat) /\ Len(a3) = Len(a2) + Len(sp) /\ Part(a3, Len(a2), sp)
       /\ Part(a3, 1 + Len(all), cl) /\ Part(a3, 1, all) /\ Part(a3, 0, op)
  BY <1>1, <1>2, <1>3, <1>8, <1>9, PartOfJoin
<1> HIDE DEF a3
<1>11. Len(a3) = 2 + Len(all) + Len(sp) /\ Part(a3, 2 + Len(all), sp)
  BY <1>9, <1>10
<1> QED BY <1>1, <1>3, <1>4, <1>5, <1>10, <1>11 DEF all, op, cl

\* where the i-th pair begins: behind the bracket, or behind a comma
PairPlace(o, sp, i) == Len(Pairs(o, sp)[i - 1]) + IF i = 1 THEN 1 ELSE 2

\* the place of a pair is a position
LEMMA PlaceType ==
    ASSUME NEW o \in Seq(PairType), NEW sp \in Seq({Space}), NEW i \in 1 .. Len(o)
    PROVE  PairPlace(o, sp, i) \in Nat \ {0} /\ Len(Pairs(o, sp)[i - 1]) \in Nat
<1>1. i - 1 \in 0 .. Len(o)
  OBVIOUS
<1> DEFINE l == Len(Pairs(o, sp)[i - 1])
<1>2. l \in Nat
  BY <1>1, PairsType
<1>3. PairPlace(o, sp, i) = l + 1 \/ PairPlace(o, sp, i) = l + 2
  BY DEF PairPlace
<1> HIDE DEF l
<1>4. PairPlace(o, sp, i) \in Nat \ {0}
  BY <1>2, <1>3
<1> QED BY <1>2, <1>4 DEF l

\* one pair of an object, in its text
LEMMA PlaceLaid ==
    ASSUME NEW o \in Seq(PairType), NEW sp \in Seq({Space}), NEW i \in 1 .. Len(o)
    PROVE  LET t == ObjectText(o, sp)
               T == PairText(o[i], sp)
               c == PairPlace(o, sp, i)
           IN  /\ At(t, c) \in {Open, Comma} /\ (i # 1 => At(t, c) = Comma)
               /\ Part(t, c, T)
               /\ Len(Pairs(o, sp)[i]) = c - 1 + Len(T) /\ Len(T) \in Nat
<1> DEFINE t == ObjectText(o, sp)
           T == PairText(o[i], sp)
           c == PairPlace(o, sp, i)
           f == Pairs(o, sp)
           all == f[Len(o)]
           s == f[i - 1]
           b == IF i = 1 THEN 0 ELSE 1
           x == s \o Between(i) \o T
           p == o[i]
           com == <<Comma>>
<1>1. /\ t \in Seq(Nat) /\ all \in Seq(Nat) /\ Part(t, 0, <<Open>>) /\ Part(t, 1, all)
  BY ObjectLaid
<1>2. i \in 0 .. Len(o) /\ i # 0 /\ i - 1 \in 0 .. Len(o) /\ i \in Nat
  OBVIOUS
<1>3. f[i] = x /\ s \in Seq(Nat) /\ p \in PairType
  BY <1>2, PairsAt, PairsType, ElementOfSeq
<1>4. Part(all, 0, f[i])
  BY <1>2, PairsGrow
<1>5. T \in Seq(Nat) /\ com \in Seq(Nat) /\ Len(com) = 1 /\ com[1] = Comma
  BY <1>3, PairLaid, Single
<1>6. c = Len(s) + b + 1 /\ Len(s) \in Nat /\ Len(T) \in Nat
  <2>1. Len(s) \in Nat /\ Len(T) \in Nat
    BY <1>3, <1>5
  <2>2. c = Len(s) + (IF i = 1 THEN 1 ELSE 2)
    BY DEF PairPlace
  <2> HIDE DEF T, s, c
  <2> QED BY <2>1, <2>2
<1>7. /\ x \in Seq(Nat) /\ Len(x) = Len(s) + b + Len(T)
      /\ Part(x, Len(s) + b, T)
      /\ i # 1 => Part(x, Len(s), com)
  <2> HIDE DEF s, p
  <2> QED BY <1>2, <1>3, PairAdded DEF p
<1>20. b \in Nat /\ (i = 1 => b = 0) /\ (i # 1 => b = 1) /\ (i = 1 => s = <<>>)
  <2>1. b \in Nat /\ (i = 1 => b = 0) /\ (i # 1 => b = 1)
    OBVIOUS
  <2>2. i = 1 => s = <<>>
    <3>1. 0 \in 0 .. Len(o)
      BY <1>2
    <3>2. f[0] = <<>>
      BY <3>1, PairsAt
    <3> QED BY <3>2
  <2> QED BY <2>1, <2>2
<1> HIDE DEF x, t, T, c, f, all, s, b, p, com
<1>8. Part(t, 1 + 0, f[i])
  BY <1>1, <1>3, <1>4, <1>7, PartOfPart
<1>9. Part(t, 1, x)
  BY <1>3, <1>8
<1>10. Part(t, c, T)
  <2>1. Len(s) + b \in Nat /\ 1 + (Len(s) + b) = c
    BY <1>6, <1>20
  <2>2. Part(t, 1 + (Len(s) + b), T)
    BY <1>1, <1>5, <1>7, <1>9, <2>1, PartOfPart
  <2> QED BY <2>1, <2>2
<1>11. CASE i = 1
  <2>1. c = 1
    BY <1>6, <1>11, <1>20
  <2>2. At(t, 0 + 1) = <<Open>>[1]
    <3> DEFINE op == <<Open>>
               z == 0
    <3>1. op \in Seq(Nat) /\ 1 \in 1 .. Len(op)
      BY Single
    <3>2. t \in Seq(Nat) /\ Part(t, z, op) /\ z \in Nat
      BY <1>1
    <3> HIDE DEF op, z
    <3>3. At(t, z + 1) = op[1]
      BY ONLY <3>1, <3>2, PartAt
    <3> QED BY <3>3 DEF op, z
  <2>3. At(t, c) = Open
    BY <2>1, <2>2, Single
  <2>4. Len(x) = c - 1 + Len(T)
    BY <1>6, <1>7, <1>20
  <2> QED BY <1>3, <1>6, <1>10, <1>11, <2>3, <2>4 DEF t, T, c, f
<1>12. CASE i # 1
  <2>1. Part(t, 1 + Len(s), com)
    BY <1>1, <1>5, <1>6, <1>7, <1>9, <1>12, PartOfPart
  <2>2. At(t, (1 + Len(s)) + 1) = com[1]
    <3>1. 1 + Len(s) \in Nat /\ 1 \in 1 .. Len(com)
      BY <1>5, <1>6
    <3> QED BY <1>1, <1>5, <2>1, <3>1, PartAt
  <2>3. (1 + Len(s)) + 1 = c
    BY <1>6, <1>12, <1>20
  <2>4. At(t, c) = Comma
    BY <1>5, <2>2, <2>3
  <2>5. Len(x) = c - 1 + Len(T)
    BY <1>6, <1>7, <1>20
  <2> QED BY <1>3, <1>6, <1>10, <1>12, <2>4, <2>5 DEF t, T, c, f
<1> QED BY <1>11, <1>12

\* The value of a pair is at its place, and the next pair, or the end of the object,
\* behind it.
LEMMA PlaceOfValue ==
    ASSUME NEW o \in Seq(PairType), NEW sp \in Seq({Space}), NEW i \in 1 .. Len(o)
    PROVE  LET t == ObjectText(o, sp)
               c == PairPlace(o, sp, i)
               v == ValuePlace(o, i, sp)
               e == IF i = Len(o) THEN Len(Pairs(o, sp)[i]) + 2 ELSE PairPlace(o, sp, i + 1)
           IN  /\ \E a, u, S : Chars(t, c, a, u, v, e, o[i], S)
               /\ At(t, c) \in {Open, Comma}
               /\ At(t, e) = IF i = Len(o) THEN Close ELSE Comma
<1> DEFINE t == ObjectText(o, sp)
           T == PairText(o[i], sp)
           c == PairPlace(o, sp, i)
           f == Pairs(o, sp)
           n == Len(o)
           p == o[i]
           S == Len(sp)
           K == Len(p.key)
           V == Len(p.value)
           a == c + S + 1
           u == a + K + 1
           w == u + 2 * S + 2
           d == w + V + S
           e == IF i = n THEN Len(f[i]) + 2 ELSE PairPlace(o, sp, i + 1)
<1>1. /\ At(t, c) \in {Open, Comma} /\ Part(t, c, T)
      /\ Len(f[i]) = c - 1 + Len(T) /\ Len(T) \in Nat
  BY PlaceLaid
<1>2. t \in Seq(Nat) /\ c \in Nat \ {0} /\ n \in Nat /\ i \in Nat /\ i <= n
  <2>1. t \in Seq(Nat)
    BY ObjectLaid
  <2>2. c \in Nat \ {0}
    BY PlaceType
  <2>3. n \in Nat /\ i \in Nat /\ i <= n
    OBVIOUS
  <2> HIDE DEF t, c, n
  <2> QED BY <2>1, <2>2, <2>3
<1>3. p \in PairType
  BY ElementOfSeq
<1>4. Chars(t, c, a, u, w, d, p, S) /\ d = c + Len(T) + 1
  <2> HIDE DEF t, p, c
  <2> QED BY <1>1, <1>2, <1>3, PairChars DEF p
<1>5. e = d
  <2>1. d = Len(f[i]) + 2
    <3> HIDE DEF d, c, T, f
    <3> QED BY <1>1, <1>2, <1>4
  <2>2. CASE i = n
    BY <2>1, <2>2
  <2>3. CASE i # n
    <3>1. (i + 1) - 1 = i /\ i + 1 # 1
      BY <1>2
    <3>2. PairPlace(o, sp, i + 1) = Len(f[i]) + 2
      BY <3>1 DEF PairPlace
    <3> HIDE DEF d
    <3> QED BY <2>1, <2>3, <3>2
  <2> QED BY <2>2, <2>3
<1>6. At(t, e) = IF i = n THEN Close ELSE Comma
  <2>1. CASE i = n
    <3>1. Part(t, 1 + Len(f[n]), <<Close>>) /\ Len(f[n]) \in Nat
      BY ObjectLaid
    <3>2. <<Close>> \in Seq(Nat) /\ 1 \in 1 .. Len(<<Close>>) /\ 1 + Len(f[n]) \in Nat
      BY <3>1, Single
    <3>3. At(t, (1 + Len(f[n])) + 1) = <<Close>>[1]
      <4> HIDE DEF t, f, n
      <4> QED BY <1>2, <3>1, <3>2, PartAt, ZenonT(30)
    <3>4. (1 + Len(f[n])) + 1 = e
      <4>1. e = Len(f[n]) + 2
        BY <2>1
      <4> HIDE DEF e, f, n
      <4> QED BY <3>1, <4>1
    <3> HIDE DEF e, t
    <3> QED BY <2>1, <3>3, <3>4, Single
  <2>2. CASE i # n
    <3>1. i + 1 \in 1 .. n /\ i + 1 # 1
      BY <1>2, <2>2
    <3>2. At(t, PairPlace(o, sp, i + 1)) = Comma
      BY <3>1, PlaceLaid
    <3> QED BY <2>2, <3>2
  <2> QED BY <2>1, <2>2
<1>7. ValuePlace(o, i, sp) = w
  <2> DEFINE g == SubSeq(o, 1, i)
             y == ObjectText(g, sp)
             z == sp \o <<Close>> \o sp
  <2>1. g \in Seq(PairType) /\ Len(g) = i /\ Pairs(g, sp)[i] = f[i]
    <3>1. i \in 0 .. Len(o)
      BY <1>2
    <3> QED BY <3>1, PairsOfFirst
  <2>2. Len(y) = 2 + Len(f[i]) + S
    <3> HIDE DEF g, f
    <3> QED BY <2>1, ObjectLaid
  <2>3. sp \in Seq(Nat) /\ S \in Nat /\ K \in Nat /\ V \in Nat
    BY <1>3, PairParts
  <2>4. Len(z) = 2 * S + 1
    <3> DEFINE z1 == sp \o <<Close>>
    <3>1. <<Close>> \in Seq(Nat) /\ Len(<<Close>>) = 1
      BY Single
    <3>2. z1 \in Seq(Nat) /\ Len(z1) = S + 1
      BY <2>3, <3>1, PartOfJoin
    <3> HIDE DEF z1
    <3>3. Len(z1 \o sp) = Len(z1) + S
      BY <2>3, <3>2, PartOfJoin
    <3>4. z = z1 \o sp
      BY DEF z1
    <3> HIDE DEF z, S
    <3> QED BY <2>3, <3>2, <3>3, <3>4
  <2>5. ValuePlace(o, i, sp) = Len(y) - Len(z) - V + 1
    BY DEF ValuePlace
  <2>6. Len(T) = 4 * S + K + V + 3
    BY <1>3, PairLaid
  <2>7. a = c + S + 1 /\ u = a + K + 1 /\ w = u + 2 * S + 2
    OBVIOUS
  <2> HIDE DEF y, z, V, K, S, T, c, f, a, u, w
  <2> QED BY <1>1, <1>2, <2>2, <2>3, <2>4, <2>5, <2>6, <2>7
<1>8. Chars(t, c, a, u, ValuePlace(o, i, sp), e, p, S)
  <2> HIDE DEF t, c, a, u, w, e, d, p, S
  <2> QED BY <1>4, <1>5, <1>7
<1> HIDE DEF a, u, S
<1> QED BY <1>1, <1>6, <1>8

\* the search at the place of a pair of an object
LEMMA SearchAtPlace ==
    ASSUME NEW o \in Seq(PairType), NEW sp \in Seq({Space}), NEW key \in Seq(Words),
           NEW i \in 1 .. Len(o)
    PROVE  Search(ObjectText(o, sp), key)[PairPlace(o, sp, i)] =
             IF o[i].key = key THEN ValuePlace(o, i, sp)
             ELSE IF Head(o[i].value) = Minus \/ i = Len(o) THEN None
             ELSE Search(ObjectText(o, sp), key)[PairPlace(o, sp, i + 1)]
<1> DEFINE t == ObjectText(o, sp)
           c == PairPlace(o, sp, i)
           v == ValuePlace(o, i, sp)
           d == PairPlace(o, sp, i + 1)
           e == IF i = Len(o) THEN Len(Pairs(o, sp)[i]) + 2 ELSE d
           p == o[i]
<1>1. /\ \E a, u, S : Chars(t, c, a, u, v, e, p, S)
      /\ At(t, c) \in {Open, Comma}
      /\ At(t, e) = IF i = Len(o) THEN Close ELSE Comma
  BY PlaceOfValue
<1>2. t \in Seq(Nat)
  BY ObjectLaid
<1>3. p \in PairType
  BY ElementOfSeq
<1>4. i # Len(o) => e = d
  OBVIOUS
<1> HIDE DEF t, c, v, d, e, p
<1>5. PICK a, u, S : Chars(t, c, a, u, v, e, p, S)
  BY <1>1
<1>6. At(t, e) \in {Comma, Close} /\ (At(t, e) = Close <=> i = Len(o))
  BY <1>1, Characters
<1>7. Search(t, key)[c] = IF p.key = key THEN v
             ELSE IF Head(p.value) = Minus \/ At(t, e) = Close THEN None
             ELSE Search(t, key)[e]
  BY <1>1, <1>2, <1>3, <1>5, <1>6, PairSearched
<1>8. Search(t, key)[c] = IF p.key = key THEN v
             ELSE IF Head(p.value) = Minus \/ i = Len(o) THEN None
             ELSE Search(t, key)[d]
  BY <1>4, <1>6, <1>7
<1> QED BY <1>8 DEF t, c, v, d, p

\* j is the first pair from i on that has the key, and no sign comes before it
First(o, key, i, j) ==
    o[j].key = key /\ \A m \in i .. j - 1 : o[m].key # key /\ Head(o[m].value) # Minus

\* what the search from the i-th pair says
Result(o, sp, key, i) ==
    /\ \A j \in i .. Len(o) : First(o, key, i, j) =>
          Search(ObjectText(o, sp), key)[PairPlace(o, sp, i)] = ValuePlace(o, j, sp)
    /\ (\A j \in i .. Len(o) : ~First(o, key, i, j)) =>
          Search(ObjectText(o, sp), key)[PairPlace(o, sp, i)] = None

\* The search from the place of a pair finds the first pair that has the key, if it comes to it.
LEMMA ObjectSearched ==
    ASSUME NEW o \in Seq(PairType), NEW sp \in Seq({Space}), NEW key \in Seq(Words),
           NEW i \in 1 .. Len(o)
    PROVE  Result(o, sp, key, i)
<1> DEFINE n == Len(o)
           s(k) == Search(ObjectText(o, sp), key)[PairPlace(o, sp, k)]
           M == {k \in Nat : \A j \in 1 .. n : j + k >= n => Result(o, sp, key, j)}
<1>0. n \in Nat /\ i \in Nat
  OBVIOUS
<1>1. ASSUME NEW k \in 1 .. n, k # n => Result(o, sp, key, k + 1)
      PROVE  Result(o, sp, key, k)
  <2>1. s(k) = IF o[k].key = key THEN ValuePlace(o, k, sp)
               ELSE IF Head(o[k].value) = Minus \/ k = n THEN None
               ELSE s(k + 1)
    BY SearchAtPlace
  <2>2. k \in Nat /\ k <= n /\ k \in k .. n
    BY <1>0
  <2> DEFINE F(a, b) == First(o, key, a, b)
             V(b) == ValuePlace(o, b, sp)
             key1(b) == o[b].key = key
             stop(b) == Head(o[b].value) = Minus
  <2>20. \A a, b \in 1 .. n + 1 : F(a, b) <=> key1(b) /\ \A m \in a .. b - 1 : ~key1(m) /\ ~stop(m)
    BY DEF First
  <2>21. k # n => /\ \A j \in k + 1 .. n : F(k + 1, j) => s(k + 1) = V(j)
                  /\ (\A j \in k + 1 .. n : ~F(k + 1, j)) => s(k + 1) = None
    BY <1>1 DEF Result
  <2>22. Result(o, sp, key, k) <=> /\ \A j \in k .. n : F(k, j) => s(k) = V(j)
                                   /\ (\A j \in k .. n : ~F(k, j)) => s(k) = None
    BY DEF Result
  <2>23. s(k) = IF key1(k) THEN V(k) ELSE IF stop(k) \/ k = n THEN None ELSE s(k + 1)
    BY <2>1
  <2> HIDE DEF F, V, s, n, key1, stop
  <2>3. CASE key1(k)
    <3>1. ASSUME NEW j \in k .. n, F(k, j) PROVE j = k
      <4>1. CASE j > k
        <5>1. k \in k .. j - 1 /\ k \in 1 .. n + 1 /\ j \in 1 .. n + 1
          BY <1>0, <2>2, <4>1
        <5> QED BY <2>3, <2>20, <3>1, <5>1
      <4> QED BY <1>0, <2>2, <4>1
    <3>2. F(k, k)
      <4>1. k \in 1 .. n + 1 /\ \A m \in k .. k - 1 : FALSE
        BY <1>0, <2>2
      <4> QED BY <2>3, <2>20, <4>1
    <3>3. s(k) = V(k)
      BY <2>3, <2>23
    <3> QED BY <2>2, <2>22, <3>1, <3>2, <3>3
  <2>4. CASE ~key1(k)
    <3>1. ASSUME NEW j \in k .. n, F(k, j)
          PROVE  j # k /\ k # n /\ ~stop(k) /\ j \in k + 1 .. n /\ F(k + 1, j)
      <4>1. k \in 1 .. n + 1 /\ j \in 1 .. n + 1
        BY <1>0, <2>2
      <4>2. key1(j) /\ \A m \in k .. j - 1 : ~key1(m) /\ ~stop(m)
        BY <2>20, <3>1, <4>1
      <4>3. j # k
        BY <2>4, <4>2
      <4>4. k \in k .. j - 1 /\ k # n /\ j \in k + 1 .. n /\ k + 1 \in 1 .. n + 1
            /\ \A m \in k + 1 .. j - 1 : m \in k .. j - 1
        BY <1>0, <2>2, <4>3
      <4>5. F(k + 1, j)
        BY <2>20, <4>1, <4>2, <4>4
      <4> QED BY <4>2, <4>3, <4>4, <4>5
    <3>2. ASSUME NEW j \in k + 1 .. n, F(k + 1, j), ~stop(k) PROVE j \in k .. n /\ F(k, j)
      <4>1. k \in 1 .. n + 1 /\ k + 1 \in 1 .. n + 1 /\ j \in 1 .. n + 1 /\ j \in k .. n
        BY <1>0, <2>2
      <4>2. key1(j) /\ \A m \in k + 1 .. j - 1 : ~key1(m) /\ ~stop(m)
        BY <2>20, <3>2, <4>1
      <4>3. \A m \in k .. j - 1 : m = k \/ m \in k + 1 .. j - 1
        BY <2>2
      <4>4. \A m \in k .. j - 1 : ~key1(m) /\ ~stop(m)
        BY <2>4, <3>2, <4>2, <4>3
      <4> QED BY <2>20, <4>1, <4>2, <4>4
    <3>3. CASE stop(k) \/ k = n
      <4>1. \A j \in k .. n : ~F(k, j)
        BY <3>1, <3>3
      <4>2. s(k) = None
        BY <2>4, <2>23, <3>3
      <4> QED BY <2>22, <4>1, <4>2
    <3>4. CASE ~(stop(k) \/ k = n)
      <4>1. s(k) = s(k + 1)
        BY <2>4, <2>23, <3>4
      <4>2. ASSUME NEW j \in k .. n, F(k, j) PROVE s(k) = V(j)
        BY <2>21, <3>1, <3>4, <4>1, <4>2
      <4>3. ASSUME \A j \in k .. n : ~F(k, j) PROVE s(k) = None
        <5>1. \A j \in k + 1 .. n : ~F(k + 1, j)
          BY <3>2, <3>4, <4>3
        <5> QED BY <2>21, <3>4, <4>1, <5>1
      <4> QED BY <2>22, <4>2, <4>3
    <3> QED BY <3>3, <3>4
  <2> QED BY <2>3, <2>4
<1> HIDE DEF n
<1>2. 0 \in M
  <2>1. ASSUME NEW j \in 1 .. n, j + 0 >= n PROVE Result(o, sp, key, j)
    <3>1. j = n
      BY <1>0, <2>1
    <3> QED BY <1>1, <3>1
  <2> QED BY <2>1
<1>3. ASSUME NEW k \in Nat, k \in M PROVE k + 1 \in M
  <2>1. ASSUME NEW j \in 1 .. n, j + (k + 1) >= n PROVE Result(o, sp, key, j)
    <3>1. j # n => j + 1 \in 1 .. n /\ (j + 1) + k >= n
      BY <1>0, <2>1
    <3>2. j # n => Result(o, sp, key, j + 1)
      BY <1>3, <3>1
    <3> QED BY <1>1, <3>2
  <2> QED BY <2>1
<1>4. Nat \subseteq M
  <2> HIDE DEF M
  <2> QED BY <1>2, <1>3, NatInd
<1>5. n \in M
  <2> HIDE DEF M
  <2> QED BY <1>0, <1>4
<1>6. i \in 1 .. n
  BY DEF n
<1>7. i + n >= n
  BY <1>0, <1>6
<1> QED BY <1>5, <1>6, <1>7

\* In an object without pairs nothing is found.
LEMMA EmptySearched ==
    ASSUME NEW sp \in Seq({Space}), NEW key \in Seq(Words)
    PROVE  Search(ObjectText(<<>>, sp), key)[1] = None
<1> DEFINE o == <<>>
           t == ObjectText(o, sp)
           n == Len(t)
           j == n + 1
           all == Pairs(o, sp)[Len(o)]
<1>1. o \in Seq(PairType) /\ Len(o) = 0
  OBVIOUS
<1> HIDE DEF o
<1>2. /\ t \in Seq(Nat) /\ n = 2 + Len(all) + Len(sp) /\ Len(sp) \in Nat
      /\ Part(t, 0, <<Open>>) /\ Part(t, 1 + Len(all), <<Close>>) /\ Part(t, 2 + Len(all), sp)
  BY <1>1, ObjectLaid
<1>3. all = <<>>
  <2>1. 0 \in 0 .. Len(o)
    BY <1>1
  <2>2. Pairs(o, sp)[0] = <<>>
    BY <1>1, <2>1, PairsAt
  <2> QED BY <1>1, <2>2
<1>4. Len(all) = 0
  BY <1>3
<1> HIDE DEF t, n, all
<1>5. n \in Nat /\ n = 2 + Len(sp) /\ n = Len(t) /\ j \in Nat
  BY <1>2, <1>4 DEF n
<1>6. At(t, 1) = Open
  <2> DEFINE x == <<Open>>
             z == 0
  <2>1. x \in Seq(Nat) /\ 1 \in 1 .. Len(x) /\ x[1] = Open /\ z \in Nat /\ Part(t, z, x)
    BY <1>2, Single
  <2> HIDE DEF x, z
  <2>2. At(t, z + 1) = Open
    BY <1>2, <2>1, PartAt
  <2> QED BY <2>2 DEF z
<1>7. At(t, 2) = Close
  <2> DEFINE x == <<Close>>
             z == 1 + Len(all)
  <2>1. x \in Seq(Nat) /\ 1 \in 1 .. Len(x) /\ x[1] = Close /\ z \in Nat /\ Part(t, z, x) /\ z + 1 = 2
    BY <1>2, <1>4, Single
  <2> HIDE DEF x, z
  <2>2. At(t, z + 1) = Close
    BY <1>2, <2>1, PartAt
  <2> QED BY <2>1, <2>2
<1>8. \A k \in 3 .. n : At(t, k) = Space
  <2> DEFINE z == 2 + Len(all)
  <2>1. Part(t, z, sp) /\ z \in Nat /\ z + 1 = 3 /\ z + Len(sp) = n
    BY <1>2, <1>4, <1>5
  <2> HIDE DEF z
  <2>2. \A k \in z + 1 .. z + Len(sp) : At(t, k) = Space
    BY <1>2, <2>1, SpacesAt
  <2> QED BY <2>1, <2>2
<1>9. \A k \in Nat : k >= j => At(t, k) = NUL
  <2>1. \A k \in Nat : k >= j => k > Len(t)
    BY <1>5
  <2> QED BY <1>2, <2>1, AtType
<1>10. KeyAt(t, 1) = j
  <2>1. ASSUME NEW k \in 1 .. j - 1 PROVE At(t, k) \notin {NUL, Quote, Backslash}
    <3>1. k = 1 \/ k = 2 \/ k \in 3 .. n
      BY <1>5
    <3>2. At(t, k) \in {Open, Close, Space}
      BY <1>6, <1>7, <1>8, <3>1
    <3> QED BY <3>2, Characters
  <2>2. At(t, j) \in {NUL, Quote} /\ 1 <= j
    BY <1>5, <1>9
  <2> HIDE DEF j
  <2> QED BY <1>2, <1>5, <2>1, <2>2, QuoteOver DEF KeyAt
<1> DEFINE q == Passed(t, key, 1)
           e == KeyEnd(t, key, 1)
<1>11. q \in Nat /\ q >= j
  <2>1. Len(key) \in Nat
    OBVIOUS
  <2>2. q = j + 1 + Len(key) \/ q = j
    BY <1>10 DEF Passed
  <2> HIDE DEF q, j
  <2> QED BY <1>5, <2>1, <2>2
<1>12. e \in Nat /\ e >= j
  <2>1. q + 1 \in Nat /\ q + 1 >= j
    <3> HIDE DEF q, j
    <3> QED BY <1>5, <1>11
  <2>2. e \in Nat /\ e >= q + 1
    BY <1>2, <2>1, QuoteFound DEF KeyEnd
  <2> HIDE DEF e, q, j
  <2> QED BY <1>5, <1>11, <2>1, <2>2
<1>13. ~Hits(t, key, 1)
  <2>1. At(t, q) = NUL
    BY <1>9, <1>11
  <2> QED BY <2>1, Characters DEF Hits
<1>14. GivesUp(t, key, 1)
  <2>1. At(t, e) = NUL
    BY <1>9, <1>12
  <2> QED BY <2>1 DEF GivesUp
<1>15. Search(t, key)[1] = Looks(t, key, Search(t, key), 1)
  BY <1>2, SearchLooks
<1>16. Search(t, key)[1] = None
  BY <1>13, <1>14, <1>15 DEF Looks
<1> QED BY <1>16 DEF t, o

\* The search's way to a pair, and what Found and Readable say of the pair.
LEMMA FirstReadable ==
    ASSUME NEW o \in Seq(PairType), NEW key
    PROVE  /\ Found(o, key) \subseteq 1 .. Len(o)
           /\ \A i, j \in Found(o, key) : i = j
           /\ \A j \in 1 .. Len(o) :
                First(o, key, 1, j) <=> j \in Found(o, key) /\ Readable(o, key)
<1> DEFINE F == Found(o, key)
<1>1. F \subseteq 1 .. Len(o)
  BY DEF Found
<1>2. \A i, j \in F : i = j
  <2>1. ASSUME NEW i \in F, NEW j \in F, i < j PROVE FALSE
    <3>1. i \in 1 .. j - 1 /\ o[i].key = key
      BY <1>1, <2>1 DEF Found
    <3>2. \A m \in 1 .. j - 1 : o[m].key # key
      BY DEF Found
    <3> QED BY <3>1, <3>2
  <2> HIDE DEF F
  <2> QED BY <1>1, <2>1
<1>3. ASSUME NEW j \in 1 .. Len(o), First(o, key, 1, j)
      PROVE  j \in F /\ Readable(o, key)
  <2>1. j \in F /\ \A m \in 1 .. j - 1 : Head(o[m].value) # Minus
    BY <1>3 DEF First, Found
  <2>2. ASSUME NEW i \in F PROVE i = j
    BY <1>2, <2>1
  <2> HIDE DEF F
  <2>3. \A i \in F : \A m \in 1 .. i - 1 : Head(o[m].value) # Minus
    BY <2>1, <2>2
  <2> QED BY <2>1, <2>3 DEF Readable, F
<1>4. ASSUME NEW j \in 1 .. Len(o), j \in F, Readable(o, key)
      PROVE  First(o, key, 1, j)
  <2>1. o[j].key = key /\ \A m \in 1 .. j - 1 : o[m].key # key
    BY <1>4 DEF Found
  <2>2. \A m \in 1 .. j - 1 : Head(o[m].value) # Minus
    BY <1>4 DEF Readable
  <2> QED BY <2>1, <2>2 DEF First
<1> HIDE DEF F
<1> QED BY <1>1, <1>2, <1>3, <1>4 DEF F

\* JSON_getValue (src/json.c) finds the value of the key of an object, at its place,
\* unless a number with a sign stands before it: then, and for a key that the object
\* does not have, it finds nothing.
THEOREM KeyFound ==
    ASSUME NEW o \in Seq(PairType), NEW sp \in Seq({Space}), NEW key \in Seq(Words)
    PROVE  LET v == JSON_getValue(ObjectText(o, sp), key)
           IN  IF Found(o, key) # {} /\ Readable(o, key)
               THEN \E i \in Found(o, key) : v = ValuePlace(o, i, sp)
               ELSE v = None
<1> DEFINE v == JSON_getValue(ObjectText(o, sp), key)
           n == Len(o)
<1>1. v = Search(ObjectText(o, sp), key)[1]
  BY SearchIs
<1>2. n \in Nat /\ DOMAIN o = 1 .. n
  OBVIOUS
<1> HIDE DEF v
<1>3. CASE n = 0
  <2>1. o = <<>> /\ Found(o, key) = {}
    BY <1>2, <1>3 DEF Found
  <2>2. v = None
    BY <1>1, <2>1, EmptySearched
  <2> QED BY <2>1, <2>2 DEF v
<1>4. CASE n # 0
  <2>1. 1 \in 1 .. n
    BY <1>2, <1>4
  <2>2. Result(o, sp, key, 1)
    <3> DEFINE i == 1
    <3>1. i \in 1 .. Len(o)
      BY <2>1
    <3> HIDE DEF i
    <3>2. Result(o, sp, key, i)
      BY <3>1, ObjectSearched
    <3> QED BY <3>2 DEF i
  <2>3. PairPlace(o, sp, 1) = 1
    <3>1. 0 \in 0 .. Len(o)
      BY <1>2
    <3>2. Pairs(o, sp)[0] = <<>>
      BY <3>1, PairsAt
    <3> QED BY <3>2 DEF PairPlace
  <2>4. /\ \A j \in 1 .. n : First(o, key, 1, j) <=> j \in Found(o, key) /\ Readable(o, key)
        /\ Found(o, key) \subseteq 1 .. n
    BY FirstReadable
  <2>5. /\ \A j \in 1 .. n : First(o, key, 1, j) => v = ValuePlace(o, j, sp)
        /\ (\A j \in 1 .. n : ~First(o, key, 1, j)) => v = None
    BY <1>1, <2>2, <2>3 DEF Result
  <2>6. CASE Found(o, key) # {} /\ Readable(o, key)
    BY <2>4, <2>5, <2>6 DEF v
  <2>7. CASE ~(Found(o, key) # {} /\ Readable(o, key))
    BY <2>4, <2>5, <2>7 DEF v
  <2> QED BY <2>6, <2>7 DEF v
<1> QED BY <1>3, <1>4

\* A text of nothing changes nothing.
LEMMA NothingRead ==
    ASSUME NEW key \in Seq(Words), NEW old
    PROVE  JSON_getBool(<<>>, key, old) = old
<1> DEFINE t == <<>>
<1>1. t \in Seq(Nat) /\ At(t, 1) = NUL
  BY DEF At
<1> HIDE DEF t
<1>2. Search(t, key)[1] = Looks(t, key, Search(t, key), 1)
  BY <1>1, SearchLooks
<1>3. JSON_getValue(t, key) = None
  BY <1>1, <1>2, SearchIs DEF Looks
<1>4. JSON_getBool(t, key, old) = old
  BY <1>3 DEF JSON_getBool
<1> QED BY <1>4 DEF t

\* what stands at the place of a value
LEMMA ValueStands ==
    ASSUME NEW o \in Seq(PairType), NEW sp \in Seq({Space}), NEW i \in 1 .. Len(o)
    PROVE  /\ ValuePlace(o, i, sp) # None
           /\ At(ObjectText(o, sp), ValuePlace(o, i, sp)) \in {True, False}
                => o[i].value \in {<<True>>, <<False>>}
           /\ o[i].value \in {<<True>>, <<False>>}
                => At(ObjectText(o, sp), ValuePlace(o, i, sp)) = o[i].value[1]
<1> DEFINE t == ObjectText(o, sp)
           v == ValuePlace(o, i, sp)
           p == o[i]
           x == p.value
           c == PairPlace(o, sp, i)
           e == IF i = Len(o) THEN Len(Pairs(o, sp)[i]) + 2 ELSE PairPlace(o, sp, i + 1)
<1>1. \E a, u, S : Chars(t, c, a, u, v, e, p, S)
  BY PlaceOfValue
<1>2. p \in PairType
  BY ElementOfSeq
<1> HIDE DEF t, v, p, c, e
<1>3. PICK a, u, S : Chars(t, c, a, u, v, e, p, S)
  BY <1>1
<1>4. x \in Text /\ IsValue(x)
  BY <1>2 DEF PairType
<1>5. Len(x) \in Nat \ {0} /\ Head(x) = x[1]
  BY <1>4, ValueKind
<1>6. v \in Nat /\ v # None
  <2>1. u \in Nat /\ S \in Nat /\ v \in Nat /\ v = u + 2 * S + 2
    BY <1>3 DEF Chars
  <2> QED BY <2>1 DEF None
<1>7. At(t, v) = x[1]
  <2>1. 1 \in 1 .. Len(x) /\ v + 1 - 1 = v
    BY <1>5, <1>6
  <2>2. \A k \in 1 .. Len(x) : At(t, v + k - 1) = x[k]
    BY <1>3 DEF Chars
  <2> QED BY <2>1, <2>2
<1>8. ASSUME x[1] \in {True, False} PROVE x \in {<<True>>, <<False>>}
  <2>1. ~(x \in Seq(Words) \ {<<>>} /\ Head(x) \notin {True, False})
    BY <1>5, <1>8
  <2>2. Head(x) # Minus
    BY <1>5, <1>8 DEF Minus, True, False
  <2> DEFINE s == SubSeq(x, 2, Len(x) - 1)
  <2>3. x # String(s)
    <3>1. s \in Seq(Words \cup Marks)
      <4>1. x \in Seq(Words \cup Marks) /\ 2 \in Nat /\ Len(x) - 1 \in Int
        BY <1>4, <1>5 DEF Text
      <4> QED BY <1>5, <4>1
    <3> HIDE DEF s
    <3>2. (<<Quote>> \o s \o <<Quote>>)[1] = Quote
      BY <3>1
    <3> QED BY <1>8, <3>2 DEF String, Quote, True, False
  <2> QED BY <1>4, <2>1, <2>2, <2>3 DEF IsValue
<1> QED BY <1>6, <1>7, <1>8 DEF t, v, p, x

\* JSON_getBool (src/json.c) gives the boolean that the object has for the key, and what it
\* was given when the object has none for it.  Behind a number with a sign, where the key is
\* not found, it may give what it was given instead, and nothing else.
THEOREM BoolRead ==
    ASSUME NEW o \in Seq(PairType), NEW sp \in Seq({Space}), NEW key \in Seq(Words), NEW old
    PROVE  LET r == JSON_getBool(ObjectText(o, sp), key, old)
           IN  /\ r \in {old, Wanted(o, key, old)}
               /\ Readable(o, key) => r = Wanted(o, key, old)
<1> DEFINE t == ObjectText(o, sp)
           v == JSON_getValue(t, key)
           F == Found(o, key)
           b(i) == o[i].value
<1>1. IF F # {} /\ Readable(o, key) THEN \E i \in F : v = ValuePlace(o, i, sp) ELSE v = None
  BY KeyFound
<1>2. F \subseteq 1 .. Len(o) /\ \A i, j \in F : i = j
  BY FirstReadable
<1>4. JSON_getBool(t, key, old) =
        IF v # None /\ At(t, v) \in {True, False} THEN At(t, v) = True ELSE old
  BY DEF JSON_getBool
<1>5. Wanted(o, key, old) =
        IF \E i \in F : b(i) \in {<<True>>, <<False>>} THEN \E i \in F : b(i) = <<True>> ELSE old
  BY DEF Wanted
<1>6. ASSUME NEW i \in F, v = ValuePlace(o, i, sp)
      PROVE  /\ v # None /\ (At(t, v) \in {True, False} => b(i) \in {<<True>>, <<False>>})
             /\ b(i) \in {<<True>>, <<False>>} => At(t, v) = b(i)[1]
  BY <1>2, <1>6, ValueStands
<1>7. <<True>>[1] = True /\ <<False>>[1] = False /\ True # False
  BY DEF True, False
<1> HIDE DEF t, v, F, b
<1>8. CASE F = {}
  BY <1>1, <1>4, <1>5, <1>8 DEF t
<1>9. CASE ~Readable(o, key)
  BY <1>1, <1>4, <1>9 DEF t
<1>10. CASE F # {} /\ Readable(o, key)
  <2>1. PICK i \in F : v = ValuePlace(o, i, sp)
    BY <1>1, <1>10
  <2>2. F = {i}
    BY <1>2
  <2>3. CASE b(i) \in {<<True>>, <<False>>}
    <3>1. At(t, v) = b(i)[1] /\ v # None
      BY <1>6, <2>1, <2>3
    <3>2. At(t, v) \in {True, False} /\ (At(t, v) = True <=> b(i) = <<True>>)
      BY <1>7, <2>3, <3>1
    <3>3. JSON_getBool(t, key, old) = (At(t, v) = True)
      BY <1>4, <3>1, <3>2
    <3>4. Wanted(o, key, old) = (b(i) = <<True>>)
      BY <1>5, <2>2, <2>3
    <3> QED BY <3>2, <3>3, <3>4 DEF t
  <2>4. CASE ~(b(i) \in {<<True>>, <<False>>})
    <3>1. At(t, v) \notin {True, False}
      BY <1>6, <2>1, <2>4
    <3> QED BY <1>4, <1>5, <2>2, <2>4, <3>1 DEF t
  <2> QED BY <2>3, <2>4
<1> QED BY <1>8, <1>9, <1>10

=============================================================================
