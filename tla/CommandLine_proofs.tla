------------------------- MODULE CommandLine_proofs -------------------------
(* What the user enters is run, and the credentials it saves are read back, *)
(* for lines and credentials of any length, any characters and any set of   *)
(* commands.                                                                *)
(*                                                                          *)
(* Two invariants are inductive.  CredentialsInv follows the bytes of a     *)
(* save into the EEPROM (Pending) and out of it again (Stored).  LineInv    *)
(* cuts what the user has typed, Entered, into the part X that CLI_task has *)
(* read of its line and the Rest that waits; a step moves the cut, and at   *)
(* the end of a line X is the user's first line, since no line has an end   *)
(* in it.                                                                   *)
EXTENDS CommandLine, SequenceTheorems, WellFoundedInduction, TLAPS

-----------------------------------------------------------------------------
(* Numbers.                                                                 *)

\* A set of naturals that is not empty has a least element.
LEMMA Least ==
    ASSUME NEW T, T \subseteq Nat, T # {}
    PROVE  \E m \in T : \A n \in T : m <= n
<1> DEFINE R == OpToRel(<, Nat)
<1>1. \E m \in T : \A n \in T : <<n, m>> \notin R
  BY NatLessThanWellFounded, WFMin
<1>2. \A m, n \in Nat : m < n => <<m, n>> \in R
  BY DEF OpToRel
<1> HIDE DEF R
<1>3. PICK m \in T : \A n \in T : <<n, m>> \notin R
  BY <1>1
<1>4. \A n \in T : ~(n < m)
  BY <1>2, <1>3
<1>5. \A n \in T : m <= n
  BY <1>4
<1> QED
  BY <1>5

\* Induction over the naturals, for a set: a set that has 0 and the successor of each
\* of its members has every natural.
LEMMA NatInd ==
    ASSUME NEW S, 0 \in S, \A n \in Nat : n \in S => n + 1 \in S
    PROVE  Nat \subseteq S
<1> SUFFICES ASSUME Nat \ S # {} PROVE FALSE
  OBVIOUS
<1>1. PICK m \in Nat \ S : \A n \in Nat \ S : m <= n
  BY Least
<1>2. m # 0 /\ m - 1 \in Nat /\ m - 1 \notin Nat \ S
  BY <1>1
<1> QED
  BY <1>1, <1>2

-----------------------------------------------------------------------------
(* Sequences.                                                               *)

\* Three sequences joined, in one order and the other.  The provers unfold this
\* definition where they need it; unfolded everywhere it would lead them in circles.
Associate(s, t, u) == (s \o t) \o u = s \o (t \o u)

\* ConcatAssociative, with that definition.
LEMMA JoinsAssociate ==
    ASSUME NEW S, NEW s \in Seq(S), NEW t \in Seq(S), NEW u \in Seq(S)
    PROVE  Associate(s, t, u)
  BY ConcatAssociative DEF Associate

-----------------------------------------------------------------------------
(* FlattenSeq: the recursion is over the sequences, so the facts of it are by *)
(* induction over their number.                                             *)

\* The sequences put together so far, as FlattenSeq has them.
IsFlat(s, n, f) == f = [i \in 1 .. n |-> IF i = 1 THEN s[i] ELSE f[i - 1] \o s[i]]

\* The prefixes put together, the function that FlattenSeq chooses.
Flat(s) == CHOOSE f : IsFlat(s, Len(s), f)

\* FlattenSeq is the last of them.
LEMMA FlatIs ==
    ASSUME NEW S, NEW s \in Seq(Seq(S)), Len(s) # 0
    PROVE  FlattenSeq(s) = Flat(s)[Len(s)]
  BY DEF FlattenSeq, Flat, IsFlat

\* Such a function exists, for every length: by induction.
LEMMA FlatFound ==
    ASSUME NEW s
    PROVE  \A n \in Nat : \E f : IsFlat(s, n, f)
<1> DEFINE T == {n \in Nat : \E f : IsFlat(s, n, f)}
<1>1. 0 \in T
  <2>1. IsFlat(s, 0, [i \in 1 .. 0 |-> {}])
    BY DEF IsFlat
  <2> QED
    BY <2>1
<1>2. ASSUME NEW n \in Nat, n \in T PROVE n + 1 \in T
  <2>1. PICK f : IsFlat(s, n, f)
    BY <1>2
  <2> DEFINE g == [i \in 1 .. n + 1 |-> IF i <= n THEN f[i]
                     ELSE IF i = 1 THEN s[i] ELSE f[i - 1] \o s[i]]
  <2>2. \A i \in 1 .. n : g[i] = f[i]
    OBVIOUS
  <2>3. \A i \in 1 .. n : f[i] = IF i = 1 THEN s[i] ELSE f[i - 1] \o s[i]
    BY <2>1 DEF IsFlat
  <2>4. ASSUME NEW i \in 1 .. n + 1
        PROVE  g[i] = IF i = 1 THEN s[i] ELSE g[i - 1] \o s[i]
    <3>1. CASE i <= n
      <4>1. i \in 1 .. n /\ (i # 1 => i - 1 \in 1 .. n)
        BY <3>1
      <4> HIDE DEF g
      <4> QED
        BY <2>2, <2>3, <4>1
    <3>2. CASE ~(i <= n)
      <4>1. i # 1 => i - 1 \in 1 .. n
        BY <3>2
      <4>2. g[i] = IF i = 1 THEN s[i] ELSE f[i - 1] \o s[i]
        BY <3>2
      <4> HIDE DEF g
      <4> QED
        BY <2>2, <4>1, <4>2
    <3> QED
      BY <3>1, <3>2
  <2>5. g = [i \in 1 .. n + 1 |-> g[i]]
    OBVIOUS
  <2> HIDE DEF g
  <2>6. g = [i \in 1 .. n + 1 |-> IF i = 1 THEN s[i] ELSE g[i - 1] \o s[i]]
    BY <2>4, <2>5
  <2>7. IsFlat(s, n + 1, g)
    BY <2>6 DEF IsFlat
  <2> QED
    BY <2>7
<1>3. Nat \subseteq T
  BY <1>1, <1>2, NatInd
<1> QED
  BY <1>3

\* ... so the one FlattenSeq chooses is one.
LEMMA FlatIsFlat ==
    ASSUME NEW S, NEW s \in Seq(Seq(S))
    PROVE  IsFlat(s, Len(s), Flat(s))
<1>1. Len(s) \in Nat
  OBVIOUS
<1>2. \E f : IsFlat(s, Len(s), f)
  BY <1>1, FlatFound
<1> QED
  BY <1>2, Zenon DEF Flat

\* The equations of FlattenSeq's recursion.
LEMMA FlatSteps ==
    ASSUME NEW S, NEW s \in Seq(Seq(S))
    PROVE  /\ Len(s) # 0 => Flat(s)[1] = s[1]
           /\ \A n \in Nat : n # 0 /\ n + 1 \in 1 .. Len(s)
                => Flat(s)[n + 1] = Flat(s)[n] \o s[n + 1]
<1> DEFINE f == Flat(s)
<1>1. \A i \in 1 .. Len(s) : f[i] = IF i = 1 THEN s[i] ELSE f[i - 1] \o s[i]
  <2>1. IsFlat(s, Len(s), f)
    BY FlatIsFlat
  <2> HIDE DEF f
  <2> QED
    BY <2>1 DEF IsFlat
<1>2. Len(s) # 0 => 1 \in 1 .. Len(s)
  OBVIOUS
<1> HIDE DEF f
<1>3. Len(s) # 0 => f[1] = s[1]
  BY <1>1, <1>2
<1>4. ASSUME NEW n \in Nat, n # 0, n + 1 \in 1 .. Len(s)
      PROVE  f[n + 1] = f[n] \o s[n + 1]
  <2>1. PICK i \in 1 .. Len(s) : i = n + 1
    BY <1>4
  <2>2. i # 1 /\ i - 1 = n
    BY <1>4, <2>1
  <2>3. f[i] = f[i - 1] \o s[i]
    BY <1>1, <2>2
  <2> QED
    BY <2>1, <2>2, <2>3
<1> QED
  BY <1>3, <1>4 DEF f

\* Each prefix put together is a sequence: by induction.
LEMMA FlatTyped ==
    ASSUME NEW S, NEW s \in Seq(Seq(S))
    PROVE  \A i \in 1 .. Len(s) : Flat(s)[i] \in Seq(S)
<1> DEFINE f == Flat(s)
           T == {n \in Nat : n \in 1 .. Len(s) => f[n] \in Seq(S)}
<1>1. /\ Len(s) # 0 => f[1] = s[1]
      /\ \A n \in Nat : n # 0 /\ n + 1 \in 1 .. Len(s) => f[n + 1] = f[n] \o s[n + 1]
  BY FlatSteps
<1>2. \A i \in 1 .. Len(s) : s[i] \in Seq(S)
  OBVIOUS
<1> HIDE DEF f
<1>3. 0 \in T
  OBVIOUS
<1>4. ASSUME NEW n \in Nat, n \in T PROVE n + 1 \in T
  <2> SUFFICES ASSUME n + 1 \in 1 .. Len(s) PROVE f[n + 1] \in Seq(S)
    OBVIOUS
  <2>1. CASE n = 0
    <3>1. Len(s) # 0 /\ 1 \in 1 .. Len(s) /\ n + 1 = 1
      BY <2>1
    <3> QED
      BY <1>1, <1>2, <3>1
  <2>2. CASE n # 0
    <3>1. n \in 1 .. Len(s)
      BY <2>2
    <3>2. f[n] \in Seq(S) /\ s[n + 1] \in Seq(S)
      BY <1>2, <1>4, <3>1
    <3>3. f[n + 1] = f[n] \o s[n + 1]
      BY <1>1, <2>2
    <3> QED
      BY <3>2, <3>3
  <2> QED
    BY <2>1, <2>2
<1>5. Nat \subseteq T
  BY <1>3, <1>4, NatInd
<1> QED
  BY <1>5 DEF f

\* No sequences make the empty sequence.
LEMMA FlatEmpty == FlattenSeq(<<>>) = <<>>
  BY DEF FlattenSeq

\* FlattenSeq gives a sequence.
LEMMA FlatSeq ==
    ASSUME NEW S, NEW s \in Seq(Seq(S))
    PROVE  FlattenSeq(s) \in Seq(S)
<1>1. CASE Len(s) = 0
  <2>1. s = <<>>
    BY <1>1
  <2>2. FlattenSeq(s) = <<>>
    BY <2>1, FlatEmpty, Zenon
  <2> QED
    BY <2>2
<1>2. CASE Len(s) # 0
  <2>1. Len(s) \in 1 .. Len(s)
    BY <1>2
  <2> QED
    BY <1>2, <2>1, FlatIs, FlatTyped
<1> QED
  BY <1>1, <1>2

\* A prefix of the sequences is put together in the same way.
LEMMA FlatPrefix ==
    ASSUME NEW S, NEW s \in Seq(Seq(S)), NEW x \in Seq(S)
    PROVE  \A i \in 1 .. Len(s) : Flat(Append(s, x))[i] = Flat(s)[i]
<1> DEFINE t == Append(s, x)
           f == Flat(s)
           g == Flat(t)
           T == {n \in Nat : n \in 1 .. Len(s) => g[n] = f[n]}
<1>1. t \in Seq(Seq(S)) /\ Len(t) = Len(s) + 1 /\ Len(s) \in Nat
      /\ \A i \in 1 .. Len(s) : t[i] = s[i]
  OBVIOUS
<1> HIDE DEF t
<1>2. /\ Len(s) # 0 => f[1] = s[1]
      /\ \A n \in Nat : n # 0 /\ n + 1 \in 1 .. Len(s) => f[n + 1] = f[n] \o s[n + 1]
  BY FlatSteps
<1>3. /\ Len(t) # 0 => g[1] = t[1]
      /\ \A n \in Nat : n # 0 /\ n + 1 \in 1 .. Len(t) => g[n + 1] = g[n] \o t[n + 1]
  BY <1>1, FlatSteps
<1> HIDE DEF f, g
<1>4. 0 \in T
  OBVIOUS
<1>5. ASSUME NEW n \in Nat, n \in T PROVE n + 1 \in T
  <2> SUFFICES ASSUME n + 1 \in 1 .. Len(s) PROVE g[n + 1] = f[n + 1]
    OBVIOUS
  <2>1. n + 1 \in 1 .. Len(t) /\ t[n + 1] = s[n + 1]
    BY <1>1
  <2>2. CASE n = 0
    <3>1. Len(s) # 0 /\ Len(t) # 0 /\ n + 1 = 1
      BY <1>1, <2>2
    <3> QED
      BY <1>2, <1>3, <2>1, <3>1
  <2>3. CASE n # 0
    <3>1. n \in 1 .. Len(s)
      BY <1>1, <2>3
    <3>2. g[n] = f[n]
      BY <1>5, <3>1
    <3> QED
      BY <1>2, <1>3, <2>1, <2>3, <3>2
  <2> QED
    BY <2>2, <2>3
<1>6. Nat \subseteq T
  BY <1>4, <1>5, NatInd
<1>7. \A i \in 1 .. Len(s) : g[i] = f[i]
  BY <1>6
<1> QED
  BY <1>7 DEF f, g, t

\* One more sequence is put behind the others.
LEMMA FlatAppend ==
    ASSUME NEW S, NEW s \in Seq(Seq(S)), NEW x \in Seq(S)
    PROVE  FlattenSeq(Append(s, x)) = FlattenSeq(s) \o x
<1> DEFINE t == Append(s, x)
           n == Len(s)
<1>1. t \in Seq(Seq(S)) /\ Len(t) = n + 1 /\ n \in Nat /\ t[n + 1] = x
  OBVIOUS
<1>a. n # 0 => Flat(t)[n] = Flat(s)[n]
  <2> SUFFICES ASSUME n # 0 PROVE Flat(t)[n] = Flat(s)[n]
    OBVIOUS
  <2>1. n \in 1 .. Len(s)
    BY <1>1
  <2> QED
    BY <2>1, FlatPrefix
<1>b. n # 0 => FlattenSeq(s) = Flat(s)[n]
  BY FlatIs
<1>c. n = 0 => FlattenSeq(s) = <<>>
  <2>1. n = 0 => s = <<>>
    OBVIOUS
  <2> QED
    BY <2>1, FlatEmpty
<1> HIDE DEF t, n
<1>2. FlattenSeq(t) = Flat(t)[n + 1]
  BY <1>1, FlatIs
<1>3. /\ Flat(t)[1] = t[1]
      /\ n # 0 => Flat(t)[n + 1] = Flat(t)[n] \o t[n + 1]
  <2>1. n + 1 \in 1 .. Len(t) /\ Len(t) # 0
    BY <1>1
  <2> QED
    BY <1>1, <2>1, FlatSteps
<1>4. CASE n = 0
  <2>1. FlattenSeq(t) = x
    BY <1>1, <1>2, <1>3, <1>4
  <2>2. <<>> \o x = x
    OBVIOUS
  <2> QED
    BY <1>c, <1>4, <2>1, <2>2 DEF t
<1>5. CASE n # 0
  <2>2. FlattenSeq(t) = Flat(t)[n] \o x
    BY <1>1, <1>2, <1>3, <1>5
  <2> QED
    BY <1>a, <1>b, <1>5, <2>2 DEF t
<1> QED
  BY <1>4, <1>5

\* The first sequence comes before the others put together: by induction, since
\* FlattenSeq's recursion goes from the other end.
LEMMA FlatHead ==
    ASSUME NEW S, NEW s \in Seq(Seq(S)), s # <<>>
    PROVE  FlattenSeq(s) = Head(s) \o FlattenSeq(Tail(s))
<1> DEFINE Q == Seq(Seq(S))
           Holds(r) == FlattenSeq(r) = Head(r) \o FlattenSeq(Tail(r))
           T == {n \in Nat : \A r \in Q : Len(r) = n + 1 => Holds(r)}
<1>1. ASSUME NEW u \in Q, NEW x \in Seq(S), u = <<>>
      PROVE  Holds(Append(u, x))
  <2>1. Append(u, x) = <<x>> /\ Head(<<x>>) = x /\ Tail(<<x>>) = <<>>
    BY <1>1
  <2>2. FlattenSeq(Append(u, x)) = FlattenSeq(u) \o x
    BY FlatAppend
  <2>3. FlattenSeq(u) = <<>>
    BY <1>1, FlatEmpty, Zenon
  <2>4. <<>> \o x = x /\ x \o <<>> = x
    OBVIOUS
  <2> QED
    BY <2>1, <2>2, <2>3, <2>4, FlatEmpty
<1>2. ASSUME NEW u \in Q, NEW x \in Seq(S), u # <<>>, Holds(u)
      PROVE  Holds(Append(u, x))
  <2>1. /\ Head(Append(u, x)) = Head(u) /\ Tail(Append(u, x)) = Append(Tail(u), x)
        /\ Head(u) \in Seq(S) /\ Tail(u) \in Q
    BY <1>2, HeadTailProperties, HeadTailAppend
  <2>2. FlattenSeq(Append(u, x)) = FlattenSeq(u) \o x
    BY FlatAppend
  <2>3. FlattenSeq(Append(Tail(u), x)) = FlattenSeq(Tail(u)) \o x
    BY <2>1, FlatAppend
  <2>4. FlattenSeq(Tail(u)) \in Seq(S)
    BY <2>1, FlatSeq
  <2> DEFINE h == Head(u)
             k == FlattenSeq(Tail(u))
  <2>5. h \in Seq(S) /\ k \in Seq(S) /\ x \in Seq(S)
    BY <2>1, <2>4
  <2> HIDE DEF h, k
  <2>6. (h \o k) \o x = h \o (k \o x)
    <3>1. Associate(h, k, x)
      BY <2>5, JoinsAssociate
    <3> QED
      BY <3>1 DEF Associate
  <2> QED
    BY <1>2, <2>1, <2>2, <2>3, <2>6, Zenon DEF h, k
<1>3. \A r \in Q : Len(r) # 0 =>
        \E u \in Q, x \in Seq(S) : r = Append(u, x) /\ Len(r) = Len(u) + 1 /\ Len(u) \in Nat
  <2> SUFFICES ASSUME NEW r \in Q, Len(r) # 0
               PROVE  \E u \in Q, x \in Seq(S) :
                        r = Append(u, x) /\ Len(r) = Len(u) + 1 /\ Len(u) \in Nat
    OBVIOUS
  <2>1. r # <<>>
    OBVIOUS
  <2>2. \E u \in Q : \E x \in Seq(S) : r = Append(u, x)
    BY <2>1, SequenceEmptyOrAppend
  <2>3. PICK u \in Q, x \in Seq(S) : r = Append(u, x)
    BY <2>2
  <2>4. Len(r) = Len(u) + 1 /\ Len(u) \in Nat
    BY <2>3
  <2> QED
    BY <2>3, <2>4
<1> HIDE DEF Holds
<1>4. 0 \in T
  <2> SUFFICES ASSUME NEW r \in Q, Len(r) = 0 + 1 PROVE Holds(r)
    OBVIOUS
  <2>a. Len(r) # 0
    OBVIOUS
  <2>1. PICK u \in Q, x \in Seq(S) :
          r = Append(u, x) /\ Len(r) = Len(u) + 1 /\ Len(u) \in Nat
    BY <1>3, <2>a, Zenon
  <2>2. u = <<>>
    BY <2>1
  <2> QED
    BY <1>1, <2>1, <2>2
<1>5. ASSUME NEW n \in Nat, n \in T PROVE n + 1 \in T
  <2> SUFFICES ASSUME NEW r \in Q, Len(r) = (n + 1) + 1 PROVE Holds(r)
    OBVIOUS
  <2>a. Len(r) # 0
    OBVIOUS
  <2>1. PICK u \in Q, x \in Seq(S) :
          r = Append(u, x) /\ Len(r) = Len(u) + 1 /\ Len(u) \in Nat
    BY <1>3, <2>a, Zenon
  <2>2. Len(u) = n + 1 /\ u # <<>>
    BY <2>1
  <2>3. Holds(u)
    BY <1>5, <2>2
  <2> QED
    BY <1>2, <2>1, <2>2, <2>3
<1>6. Nat \subseteq T
  BY <1>4, <1>5, NatInd
<1>7. Len(s) - 1 \in Nat /\ Len(s) = (Len(s) - 1) + 1
  OBVIOUS
<1>8. Len(s) - 1 \in T
  BY <1>6, <1>7
<1>9. Holds(s)
  BY <1>7, <1>8
<1> QED
  BY <1>9 DEF Holds

-----------------------------------------------------------------------------
(* The strings in buffers.                                                  *)

\* The places of the three fields and the sizes of the buffers, as numbers.
LEMMA Arithmetic ==
    /\ MaxLength \in Nat /\ MaxLength > 2
    /\ EEPROM_SSID = 0 /\ EEPROM_PSW = MaxLength /\ EEPROM_SEC = 2 * MaxLength
    /\ Buffer = 0 .. MaxLength - 1 /\ Places = 0 .. 2 * MaxLength
  BY StorageAssumption DEF EEPROM_SSID, EEPROM_PSW, EEPROM_SEC, Buffer, Places

\* The candidates for the string in a buffer.
Candidates(b) == {[i \in 1 .. n |-> b[i - 1]] : n \in 0 .. MaxLength}

\* t is the string in the buffer b.
IsString(b, t) ==
    /\ t \in Candidates(b)
    /\ \A i \in 1 .. Len(t) : t[i] # NUL
    /\ Len(t) < MaxLength => b[Len(t)] = NUL

\* String takes a candidate, if there is one that is the string.
LEMMA StringChosen ==
    ASSUME NEW b, NEW t, IsString(b, t)
    PROVE  IsString(b, String(b))
  BY DEF String, IsString, Candidates

\* A candidate's length and characters.
LEMMA CandidateLen ==
    ASSUME NEW b, NEW t \in Candidates(b)
    PROVE  /\ Len(t) \in 0 .. MaxLength /\ DOMAIN t = 1 .. Len(t)
           /\ t = [i \in 1 .. Len(t) |-> b[i - 1]]
           /\ \A i \in 1 .. Len(t) : t[i] = b[i - 1]
<1>1. PICK n \in 0 .. MaxLength : t = [i \in 1 .. n |-> b[i - 1]]
  BY DEF Candidates
<1>2. n \in Nat
  BY Arithmetic
<1>3. Len(t) = n /\ DOMAIN t = 1 .. n
  BY <1>1, <1>2, SMT
<1> QED
  BY <1>1, <1>3

\* Every buffer has a string, of bytes: up to its first NUL, the least place that has
\* one, or all of it.
LEMMA StringOf ==
    ASSUME NEW b \in [Buffer -> Byte]
    PROVE  String(b) \in Seq(Byte) /\ IsString(b, String(b))
<1> DEFINE T == {n \in Nat : n < MaxLength => b[n] = NUL}
<1>1. PICK n \in T : \A m \in T : n <= m
  <2>1. MaxLength \in Nat
    BY Arithmetic
  <2>2. ~(MaxLength < MaxLength)
    BY <2>1
  <2>3. MaxLength \in T /\ T \subseteq Nat
    BY <2>1, <2>2, Zenon
  <2> QED
    BY <2>3, Least
<1> DEFINE t == [i \in 1 .. n |-> b[i - 1]]
<1>2. n \in 0 .. MaxLength /\ n \in Nat
  <2>1. n \in Nat
    OBVIOUS
  <2>2. MaxLength \in T
    BY Arithmetic
  <2> QED
    BY <1>1, <2>1, <2>2, Arithmetic
<1>3. t \in Candidates(b)
  BY <1>2 DEF Candidates
<1>4. Len(t) = n
  BY <1>2, SMT
<1>5. \A i \in 1 .. n : t[i] # NUL
  <2> SUFFICES ASSUME NEW i \in 1 .. n, b[i - 1] = NUL PROVE FALSE
    OBVIOUS
  <2>1. i - 1 \in T
    BY <1>2, Arithmetic
  <2> QED
    BY <1>1, <1>2, <2>1
<1>6. n < MaxLength => b[n] = NUL
  BY <1>1, Arithmetic
<1>7. IsString(b, t)
  BY <1>3, <1>4, <1>5, <1>6 DEF IsString
<1>8. IsString(b, String(b))
  BY <1>7, StringChosen
<1> HIDE DEF t, T
<1>9. /\ Len(String(b)) \in 0 .. MaxLength
      /\ String(b) = [i \in 1 .. Len(String(b)) |-> b[i - 1]]
  BY <1>8, CandidateLen DEF IsString
<1> DEFINE k == Len(String(b))
<1>10. \A i \in 1 .. k : b[i - 1] \in Byte
  BY <1>9, Arithmetic
<1>11. [i \in 1 .. k |-> b[i - 1]] \in Seq(Byte)
  <2>1. k \in Nat
    BY <1>9, Arithmetic
  <2> HIDE DEF k
  <2> QED
    BY <1>10, <2>1
<1> QED
  BY <1>8, <1>9, <1>11

\* A buffer that holds t and its NUL has the string t.
LEMMA StringIs ==
    ASSUME NEW b \in [Buffer -> Byte], NEW t \in Text, Len(t) < MaxLength,
           \A i \in 1 .. Len(t) : b[i - 1] = t[i],
           b[Len(t)] = NUL
    PROVE  String(b) = t
<1> DEFINE s == String(b)
<1>1. IsString(b, s)
  BY StringOf
<1>2. /\ Len(s) \in 0 .. MaxLength /\ s = [i \in 1 .. Len(s) |-> b[i - 1]]
      /\ \A i \in 1 .. Len(s) : s[i] = b[i - 1]
  BY <1>1, CandidateLen DEF IsString
<1>3. \A i \in 1 .. Len(s) : s[i] # NUL
  BY <1>1 DEF IsString
<1>4. Len(s) < MaxLength => b[Len(s)] = NUL
  BY <1>1 DEF IsString
<1> HIDE DEF s
<1>5. Len(t) \in Nat /\ \A i \in 1 .. Len(t) : t[i] \in Chars /\ t[i] # NUL
  <2>1. t \in Seq(Chars)
    BY DEF Text
  <2>2. Len(t) \in Nat /\ \A i \in 1 .. Len(t) : t[i] \in Chars
    BY <2>1
  <2> QED
    BY <2>2, StorageAssumption
<1>6. ~ (Len(s) < Len(t))
  <2> SUFFICES ASSUME Len(s) < Len(t) PROVE FALSE
    OBVIOUS
  <2>1. b[Len(s)] = NUL /\ Len(s) + 1 \in 1 .. Len(t) /\ Len(s) + 1 - 1 = Len(s)
    BY <1>2, <1>4, <1>5, Arithmetic
  <2> QED
    BY <1>5, <2>1
<1>7. ~ (Len(t) < Len(s))
  <2> SUFFICES ASSUME Len(t) < Len(s) PROVE FALSE
    OBVIOUS
  <2>1. Len(t) + 1 \in 1 .. Len(s) /\ Len(t) + 1 - 1 = Len(t)
    BY <1>2, <1>5, Arithmetic
  <2> QED
    BY <1>2, <1>3, <2>1
<1>8. Len(s) = Len(t)
  BY <1>2, <1>5, <1>6, <1>7, Arithmetic
<1>9. t = [i \in 1 .. Len(t) |-> t[i]]
  BY DEF Text
<1> QED
  BY <1>2, <1>8, <1>9 DEF s

-----------------------------------------------------------------------------
(* The invariant of the storage.                                            *)

\* Both strings fit their buffers with their NULs, strncpy's limit included.
Short(c) == Len(c.name) < MaxLength - 1 /\ Len(c.pass) < MaxLength - 1

\* The bytes a save of c leaves at the places it writes.
Wanted(c) ==
    [a \in (EEPROM_SSID .. EEPROM_SSID + Len(c.name))
           \cup (EEPROM_PSW .. EEPROM_PSW + Len(c.pass)) \cup {EEPROM_SEC} |->
        IF a < EEPROM_PSW
        THEN IF a < Len(c.name) THEN c.name[a + 1] ELSE NUL
        ELSE IF a < EEPROM_SEC
        THEN IF a - EEPROM_PSW < Len(c.pass) THEN c.pass[a - EEPROM_PSW + 1] ELSE NUL
        ELSE c.auth]

\* The EEPROM has what a save of c leaves.
Stored(c) == \A a \in DOMAIN Wanted(c) : eeprom[a] = Wanted(c)[a]

\* A save of c is under way: what is left to write is right, and what is not right yet
\* is left to write.
Pending(c) ==
    /\ \A i \in 1 .. Len(writes) :
         writes[i][1] \in DOMAIN Wanted(c) /\ writes[i][2] = Wanted(c)[writes[i][1]]
    /\ \A a \in DOMAIN Wanted(c) :
         eeprom[a] = Wanted(c)[a] \/ \E i \in 1 .. Len(writes) : writes[i][1] = a

\* What is true while CREDENTIALS_STORAGE_save runs: it has bytes left to write, these
\* are of the credentials the user gave, and the program's copy has them already.
Underway ==
    /\ pc = "saving" => partial /\ writes # <<>>
    /\ pc = "saving" /\ Short(saved) => Pending(saved)
    /\ pc = "saving" /\ Short(saved) /\ then = "up" => InMemory(saved)

\* Nothing saved yet, and the EEPROM is blank.
Blank == eeprom[EEPROM_SSID] = Erased /\ saved = Default

\* When no save has been cut off, the EEPROM has the last credentials given.
Kept == ~partial /\ Short(saved) => Stored(saved) \/ Blank

\* The inductive invariant of the storage.  SavedIsRead alone is not inductive: a start
\* reads the EEPROM, so what the EEPROM has must be known while the program is down,
\* and what it will have while a save is under way.
CredentialsInv == StorageType /\ Underway /\ Kept /\ SavedIsRead

-----------------------------------------------------------------------------
(* Credentials, their bytes and reading them back.                          *)

\* The parts of credentials.
LEMMA CredentialParts ==
    ASSUME NEW c \in Credentials
    PROVE  /\ c.name \in Seq(Chars) /\ c.pass \in Seq(Chars) /\ c.auth \in Chars
           /\ Len(c.name) \in Nat /\ Len(c.pass) \in Nat /\ Len(c.name) >= 1
           /\ c.name \in Text /\ c.pass \in Text
           /\ \A i \in 1 .. Len(c.name) : c.name[i] \in Chars
           /\ \A i \in 1 .. Len(c.pass) : c.pass[i] \in Chars
<1>1. c.name \in Seq(Chars) /\ c.name # <<>> /\ c.pass \in Seq(Chars) /\ c.auth \in Chars
  BY DEF Credentials, Text
<1> QED
  BY <1>1 DEF Text

\* The bytes of the EEPROM and of the buffers.
LEMMA CharsAreBytes ==
    /\ \A x \in Chars : x \in Byte /\ x # NUL /\ x # Erased
    /\ NUL \in Byte /\ Erased \in Byte /\ NUL # Erased
  BY StorageAssumption DEF Byte

\* The bytes a save of c leaves, one by one: the name and its NUL, the password and its
\* NUL, and the security.  No two of them are at the same place.
LEMMA WantedAt ==
    ASSUME NEW c \in Credentials, Short(c)
    PROVE  /\ DOMAIN Wanted(c) \subseteq Places
           /\ \A i \in 1 .. Len(c.name) :
                i - 1 \in DOMAIN Wanted(c) /\ Wanted(c)[i - 1] = c.name[i]
           /\ Len(c.name) \in DOMAIN Wanted(c) /\ Wanted(c)[Len(c.name)] = NUL
           /\ \A i \in 1 .. Len(c.pass) :
                /\ MaxLength + i - 1 \in DOMAIN Wanted(c)
                /\ Wanted(c)[MaxLength + i - 1] = c.pass[i]
           /\ MaxLength + Len(c.pass) \in DOMAIN Wanted(c)
           /\ Wanted(c)[MaxLength + Len(c.pass)] = NUL
           /\ 2 * MaxLength \in DOMAIN Wanted(c) /\ Wanted(c)[2 * MaxLength] = c.auth
           /\ \A a \in DOMAIN Wanted(c) :
                \/ a \in 0 .. Len(c.name)
                \/ a \in MaxLength .. MaxLength + Len(c.pass)
                \/ a = 2 * MaxLength
<1> DEFINE n == Len(c.name)
           k == Len(c.pass)
           D == (EEPROM_SSID .. EEPROM_SSID + n) \cup (EEPROM_PSW .. EEPROM_PSW + k)
                \cup {EEPROM_SEC}
           V(a) == IF a < EEPROM_PSW
                   THEN IF a < n THEN c.name[a + 1] ELSE NUL
                   ELSE IF a < EEPROM_SEC
                   THEN IF a - EEPROM_PSW < k THEN c.pass[a - EEPROM_PSW + 1] ELSE NUL
                   ELSE c.auth
<1>1. n \in Nat /\ k \in Nat /\ n < MaxLength - 1 /\ k < MaxLength - 1
  BY CredentialParts DEF Short
<1>2. Wanted(c) = [a \in D |-> V(a)]
  BY DEF Wanted
<1>a. /\ MaxLength \in Nat /\ MaxLength > 2 /\ Places = 0 .. 2 * MaxLength
      /\ EEPROM_SSID = 0 /\ EEPROM_PSW = MaxLength /\ EEPROM_SEC = 2 * MaxLength
  BY Arithmetic
<1> HIDE DEF n, k
<1>3. \A a \in D : Wanted(c)[a] = V(a)
  BY <1>2
<1>4. DOMAIN Wanted(c) = D
  BY <1>2
<1>5. \A i \in 1 .. n : i - 1 \in D /\ V(i - 1) = c.name[i]
  BY <1>1, <1>a
<1>6. n \in D /\ V(n) = NUL
  BY <1>1, <1>a
<1>7. \A i \in 1 .. k : MaxLength + i - 1 \in D /\ V(MaxLength + i - 1) = c.pass[i]
  BY <1>1, <1>a
<1>8. MaxLength + k \in D /\ V(MaxLength + k) = NUL
  BY <1>1, <1>a
<1>9. 2 * MaxLength \in D /\ V(2 * MaxLength) = c.auth
  BY <1>1, <1>a
<1>10. D \subseteq Places
  BY <1>1, <1>a
<1>11. \A a \in D : a \in 0 .. n \/ a \in MaxLength .. MaxLength + k \/ a = 2 * MaxLength
  BY <1>1, <1>a
<1> HIDE DEF V, D
<1> QED
  BY <1>3, <1>4, <1>5, <1>6, <1>7, <1>8, <1>9, <1>10, <1>11 DEF n, k

\* Reading back: an EEPROM with the bytes of c has the strings of c in its buffers, and
\* does not look blank.
LEMMA StringsBack ==
    ASSUME NEW c \in Credentials, Short(c), NEW e \in [Places -> Byte],
           \A a \in DOMAIN Wanted(c) : e[a] = Wanted(c)[a]
    PROVE  /\ String([i \in Buffer |-> e[EEPROM_SSID + i]]) = c.name
           /\ String([i \in Buffer |-> e[EEPROM_PSW + i]]) = c.pass
           /\ e[EEPROM_SEC] = c.auth /\ e[EEPROM_SSID] = c.name[1]
<1> DEFINE f == [i \in Buffer |-> e[EEPROM_SSID + i]]
           g == [i \in Buffer |-> e[EEPROM_PSW + i]]
<1>1. /\ Len(c.name) \in Nat /\ Len(c.pass) \in Nat /\ Len(c.name) >= 1
      /\ Len(c.name) < MaxLength - 1 /\ Len(c.pass) < MaxLength - 1
      /\ c.name \in Text /\ c.pass \in Text
  BY CredentialParts DEF Short
<1>2. /\ f \in [Buffer -> Byte] /\ g \in [Buffer -> Byte]
      /\ \A i \in Buffer : f[i] = e[i] /\ g[i] = e[MaxLength + i]
  BY Arithmetic
<1> HIDE DEF f, g
<1>3. \A i \in 1 .. Len(c.name) : f[i - 1] = c.name[i]
  <2> SUFFICES ASSUME NEW i \in 1 .. Len(c.name) PROVE f[i - 1] = c.name[i]
    OBVIOUS
  <2>1. i - 1 \in Buffer
    BY <1>1, Arithmetic
  <2> QED
    BY <1>2, <2>1, WantedAt
<1>4. f[Len(c.name)] = NUL
  <2>1. Len(c.name) \in Buffer
    BY <1>1, Arithmetic
  <2> QED
    BY <1>2, <2>1, WantedAt
<1>5. \A i \in 1 .. Len(c.pass) : g[i - 1] = c.pass[i]
  <2> SUFFICES ASSUME NEW i \in 1 .. Len(c.pass) PROVE g[i - 1] = c.pass[i]
    OBVIOUS
  <2>1. i - 1 \in Buffer /\ MaxLength + (i - 1) = MaxLength + i - 1
    BY <1>1, Arithmetic
  <2> QED
    BY <1>2, <2>1, WantedAt
<1>6. g[Len(c.pass)] = NUL
  <2>1. Len(c.pass) \in Buffer
    BY <1>1, Arithmetic
  <2> QED
    BY <1>2, <2>1, WantedAt
<1>b. Len(c.name) < MaxLength /\ Len(c.pass) < MaxLength
  BY <1>1, Arithmetic
<1>7. String(f) = c.name
  BY <1>b, <1>1, <1>2, <1>3, <1>4, StringIs
<1>8. String(g) = c.pass
  BY <1>b, <1>1, <1>2, <1>5, <1>6, StringIs
<1>9. e[EEPROM_SEC] = c.auth
  BY WantedAt, Arithmetic
<1>10. e[EEPROM_SSID] = c.name[1]
  <2>1. 1 \in 1 .. Len(c.name) /\ 1 - 1 = 0
    BY <1>1
  <2> QED
    BY <2>1, WantedAt, Arithmetic
<1> QED
  BY <1>7, <1>8, <1>9, <1>10 DEF f, g

-----------------------------------------------------------------------------
(* A save.                                                                  *)

\* Two sequences joined, element by element.
LEMMA Joined ==
    ASSUME NEW S, NEW s \in Seq(S), NEW t \in Seq(S)
    PROVE  /\ s \o t \in Seq(S) /\ Len(s \o t) = Len(s) + Len(t)
           /\ \A i \in 1 .. Len(s) : (s \o t)[i] = s[i]
           /\ \A i \in 1 .. Len(t) : (s \o t)[Len(s) + i] = t[i]
<1>1. Len(s) \in Nat /\ Len(t) \in Nat
  OBVIOUS
<1>2. s \o t \in Seq(S) /\ Len(s \o t) = Len(s) + Len(t)
  OBVIOUS
<1>3. \A i \in 1 .. Len(s) : (s \o t)[i] = s[i]
  BY <1>1
<1>4. ASSUME NEW i \in 1 .. Len(t) PROVE (s \o t)[Len(s) + i] = t[i]
  BY <1>1
<1> QED
  BY <1>2, <1>3, <1>4

\* The bytes of one string and their places: its characters, then its NUL.
LEMMA WrittenIs ==
    ASSUME NEW place \in Nat, NEW t \in Seq(Byte)
    PROVE  /\ Written(place, t) \in Seq(Nat \X Byte)
           /\ Len(Written(place, t)) = Len(t) + 1
           /\ \A i \in 1 .. Len(t) : Written(place, t)[i] = <<place + i - 1, t[i]>>
           /\ Written(place, t)[Len(t) + 1] = <<place + Len(t), NUL>>
<1> DEFINE n == Len(t) + 1
           W(i) == <<place + i - 1, IF i <= Len(t) THEN t[i] ELSE NUL>>
<1>1. Written(place, t) = [i \in 1 .. n |-> W(i)]
  BY DEF Written
<1>2. Len(t) \in Nat /\ n \in Nat /\ \A i \in 1 .. Len(t) : t[i] \in Byte
  OBVIOUS
<1>3. \A i \in 1 .. n : W(i) \in Nat \X Byte
  BY <1>2, CharsAreBytes
<1>4. \A i \in 1 .. Len(t) : i \in 1 .. n /\ W(i) = <<place + i - 1, t[i]>>
  BY <1>2
<1>5. n \in 1 .. n /\ W(n) = <<place + Len(t), NUL>>
  BY <1>2
<1> HIDE DEF W
<1>6. [i \in 1 .. n |-> W(i)] \in Seq(Nat \X Byte) /\ Len([i \in 1 .. n |-> W(i)]) = n
  <2> HIDE DEF n
  <2> QED
    BY <1>2, <1>3
<1>7. \A i \in 1 .. n : Written(place, t)[i] = W(i)
  BY <1>1
<1> QED
  BY <1>1, <1>4, <1>5, <1>6, <1>7

\* What a save writes.
Writes(n, p, a) ==
    Written(EEPROM_SSID, n) \o Written(EEPROM_PSW, p) \o <<<<EEPROM_SEC, a>>>>

\* The element behind a sequence.
LEMMA JoinedOne ==
    ASSUME NEW S, NEW s \in Seq(S), NEW t \in Seq(S), NEW x, Len(t) = 1, t[1] = x
    PROVE  (s \o t)[Len(s) + 1] = x
<1>1. Len(s) \in Nat /\ 1 \in 1 .. Len(t)
  OBVIOUS
<1>2. PICK i \in 1 .. Len(t) : i = 1
  BY <1>1
<1>3. (s \o t)[Len(s) + i] = t[i]
  BY <1>1
<1> QED
  BY <1>2, <1>3

\* Joined, for the bytes to write and their places.
LEMMA Pairs == ASSUME NEW s \in Seq(Nat \X Byte), NEW t \in Seq(Nat \X Byte)
               PROVE  /\ s \o t \in Seq(Nat \X Byte)
                      /\ Len(s \o t) = Len(s) + Len(t)
                      /\ Len(s) \in Nat /\ Len(t) \in Nat
  BY Joined

\* The bytes of a save, by position: each field follows the one before.
LEMMA WritesAre ==
    ASSUME NEW n \in Seq(Byte), NEW p \in Seq(Byte), NEW a \in Byte
    PROVE  /\ Writes(n, p, a) \in Seq(Nat \X Byte)
           /\ Len(Writes(n, p, a)) = Len(n) + Len(p) + 3
           /\ \A i \in 1 .. Len(n) : Writes(n, p, a)[i] = <<i - 1, n[i]>>
           /\ Writes(n, p, a)[Len(n) + 1] = <<Len(n), NUL>>
           /\ \A i \in 1 .. Len(p) :
                Writes(n, p, a)[Len(n) + 1 + i] = <<MaxLength + i - 1, p[i]>>
           /\ Writes(n, p, a)[Len(n) + Len(p) + 2] = <<MaxLength + Len(p), NUL>>
           /\ Writes(n, p, a)[Len(n) + Len(p) + 3] = <<2 * MaxLength, a>>
<1> DEFINE A == Written(EEPROM_SSID, n)
           B == Written(EEPROM_PSW, p)
           C == <<<<EEPROM_SEC, a>>>>
           S == Nat \X Byte
<1>1. /\ EEPROM_SSID = 0 /\ EEPROM_PSW = MaxLength /\ EEPROM_SEC = 2 * MaxLength
      /\ MaxLength \in Nat /\ 2 * MaxLength \in Nat
  BY Arithmetic
<1>2. Len(n) \in Nat /\ Len(p) \in Nat
  OBVIOUS
<1>3. /\ Len(A) = Len(n) + 1
      /\ \A i \in 1 .. Len(n) : A[i] = <<EEPROM_SSID + i - 1, n[i]>>
      /\ A[Len(n) + 1] = <<EEPROM_SSID + Len(n), NUL>>
  BY <1>1, WrittenIs
<1>4. /\ Len(B) = Len(p) + 1
      /\ \A i \in 1 .. Len(p) : B[i] = <<EEPROM_PSW + i - 1, p[i]>>
      /\ B[Len(p) + 1] = <<EEPROM_PSW + Len(p), NUL>>
  BY <1>1, WrittenIs
<1>5. <<EEPROM_SEC, a>> \in S
  BY <1>1
<1>6. C \in Seq(S) /\ Len(C) = 1 /\ C[1] = <<EEPROM_SEC, a>>
  BY <1>5
<1>a. A \in Seq(S) /\ B \in Seq(S)
  BY <1>1, WrittenIs
<1> HIDE DEF A, B, C
<1> DEFINE AB == A \o B
<1>7. AB \in Seq(S) /\ Len(AB) = Len(A) + Len(B)
  BY <1>a, Pairs
<1>b. \A i \in 1 .. Len(A) : AB[i] = A[i]
  BY <1>a, Joined
<1>c. \A i \in 1 .. Len(B) : AB[Len(A) + i] = B[i]
  BY <1>a, Joined
<1> HIDE DEF AB
<1> DEFINE W == AB \o C
<1>8. W \in Seq(S) /\ Len(W) = Len(AB) + Len(C)
  BY <1>6, <1>7, Pairs
<1>d. \A i \in 1 .. Len(AB) : W[i] = AB[i]
  BY <1>6, <1>7, Joined
<1>e. W[Len(AB) + 1] = C[1]
  BY <1>6, <1>7, JoinedOne
<1>9. Writes(n, p, a) = W
  BY DEF Writes, W, AB, A, B, C
<1> HIDE DEF W, S
<1>l. Len(A) = Len(n) + 1 /\ Len(B) = Len(p) + 1 /\ Len(AB) = Len(n) + Len(p) + 2
  BY <1>2, <1>3, <1>4, <1>7
<1>10. \A i \in 1 .. Len(n) : W[i] = <<i - 1, n[i]>>
  <2> SUFFICES ASSUME NEW i \in 1 .. Len(n) PROVE W[i] = <<i - 1, n[i]>>
    OBVIOUS
  <2>1. i \in 1 .. Len(AB) /\ i \in 1 .. Len(A) /\ EEPROM_SSID + i - 1 = i - 1
    BY <1>1, <1>2, <1>l
  <2> QED
    BY <1>3, <1>b, <1>d, <2>1
<1>11. W[Len(n) + 1] = <<Len(n), NUL>>
  <2>1. Len(n) + 1 \in 1 .. Len(AB) /\ Len(n) + 1 \in 1 .. Len(A)
        /\ EEPROM_SSID + Len(n) = Len(n)
    BY <1>1, <1>2, <1>l
  <2> QED
    BY <1>3, <1>b, <1>d, <2>1
<1>12. \A i \in 1 .. Len(p) : W[Len(n) + 1 + i] = <<MaxLength + i - 1, p[i]>>
  <2> SUFFICES ASSUME NEW i \in 1 .. Len(p)
               PROVE  W[Len(n) + 1 + i] = <<MaxLength + i - 1, p[i]>>
    OBVIOUS
  <2>1. Len(n) + 1 + i \in 1 .. Len(AB) /\ i \in 1 .. Len(B) /\ Len(n) + 1 + i = Len(A) + i
    BY <1>1, <1>2, <1>l
  <2>2. W[Len(n) + 1 + i] = B[i]
    BY <1>c, <1>d, <2>1
  <2> QED
    BY <1>1, <1>4, <2>2
<1>13. W[Len(n) + Len(p) + 2] = <<MaxLength + Len(p), NUL>>
  <2>1. /\ Len(n) + Len(p) + 2 \in 1 .. Len(AB) /\ Len(p) + 1 \in 1 .. Len(B)
        /\ Len(n) + Len(p) + 2 = Len(A) + (Len(p) + 1)
    BY <1>1, <1>2, <1>l
  <2>2. W[Len(n) + Len(p) + 2] = B[Len(p) + 1]
    BY <1>c, <1>d, <2>1
  <2> QED
    BY <1>1, <1>4, <2>2
<1>14. W[Len(n) + Len(p) + 3] = <<2 * MaxLength, a>>
  <2>1. Len(n) + Len(p) + 3 = Len(AB) + 1
    BY <1>2, <1>l
  <2> QED
    BY <1>1, <1>6, <1>e, <2>1
<1>15. W \in Seq(Nat \X Byte)
  BY <1>8 DEF S
<1>16. Len(W) = Len(n) + Len(p) + 3
  BY <1>2, <1>6, <1>8, <1>l
<1> QED
  BY <1>9, <1>10, <1>11, <1>12, <1>13, <1>14, <1>15, <1>16

\* A position among the bytes of a save is in one of the three fields.
LEMMA Indices ==
    ASSUME NEW n \in Nat, NEW p \in Nat, NEW i \in 1 .. n + p + 3
    PROVE  \/ i \in 1 .. n
           \/ i = n + 1
           \/ \E j \in 1 .. p : i = n + 1 + j
           \/ i = n + p + 2
           \/ i = n + p + 3
<1>1. CASE i <= n + 1
  BY <1>1
<1>2. CASE n + 1 < i /\ i < n + p + 2
  <2>1. i - n - 1 \in 1 .. p /\ i = n + 1 + (i - n - 1)
    BY <1>2
  <2> QED
    BY <2>1
<1>3. CASE i >= n + p + 2
  BY <1>3
<1> QED
  BY <1>1, <1>2, <1>3

\* A save of c begins with Pending(c): its bytes are right and none is missing.
LEMMA SavePends ==
    ASSUME NEW c \in Credentials, Short(c), writes' = Writes(c.name, c.pass, c.auth)
    PROVE  Pending(c)'
<1>1. PICK N \in Seq(Byte), P \in Seq(Byte), a \in Byte :
        N = c.name /\ P = c.pass /\ a = c.auth
  <2>1. c.name \in Seq(Chars) /\ c.pass \in Seq(Chars) /\ c.auth \in Chars
    BY CredentialParts
  <2>2. Chars \subseteq Byte
    BY CharsAreBytes
  <2> QED
    BY <2>1, <2>2
<1> DEFINE n == Len(N)
           p == Len(P)
           W == Writes(N, P, a)
<1>2. n \in Nat /\ p \in Nat
  OBVIOUS
<1>3. /\ Len(W) = n + p + 3
      /\ \A i \in 1 .. n : W[i] = <<i - 1, N[i]>>
      /\ W[n + 1] = <<n, NUL>>
      /\ \A i \in 1 .. p : W[n + 1 + i] = <<MaxLength + i - 1, P[i]>>
      /\ W[n + p + 2] = <<MaxLength + p, NUL>>
      /\ W[n + p + 3] = <<2 * MaxLength, a>>
  <2>1. Len(W) = n + p + 3
    BY WritesAre
  <2>2. \A i \in 1 .. n : W[i] = <<i - 1, N[i]>>
    BY WritesAre
  <2>3. W[n + 1] = <<n, NUL>>
    BY WritesAre
  <2>4. \A i \in 1 .. p : W[n + 1 + i] = <<MaxLength + i - 1, P[i]>>
    BY WritesAre
  <2>5. W[n + p + 2] = <<MaxLength + p, NUL>>
    BY WritesAre
  <2>6. W[n + p + 3] = <<2 * MaxLength, a>>
    BY WritesAre
  <2> QED
    BY <2>1, <2>2, <2>3, <2>4, <2>5, <2>6
<1> DEFINE D == DOMAIN Wanted(c)
           V == Wanted(c)
<1>4. /\ \A i \in 1 .. n : i - 1 \in D /\ V[i - 1] = N[i]
      /\ n \in D /\ V[n] = NUL
      /\ \A i \in 1 .. p : MaxLength + i - 1 \in D /\ V[MaxLength + i - 1] = P[i]
      /\ MaxLength + p \in D /\ V[MaxLength + p] = NUL
      /\ 2 * MaxLength \in D /\ V[2 * MaxLength] = a
      /\ \A x \in D : x \in 0 .. n \/ x \in MaxLength .. MaxLength + p \/ x = 2 * MaxLength
  BY <1>1, WantedAt
<1> HIDE DEF n, p, W, D, V
<1>5. ASSUME NEW i \in 1 .. Len(W) PROVE W[i][1] \in D /\ W[i][2] = V[W[i][1]]
  <2>1. CASE i \in 1 .. n
    BY <1>3, <1>4, <2>1
  <2>2. CASE i = n + 1
    BY <1>3, <1>4, <2>2
  <2>3. CASE \E j \in 1 .. p : i = n + 1 + j
    BY <1>3, <1>4, <2>3
  <2>4. CASE i = n + p + 2
    BY <1>3, <1>4, <2>4
  <2>5. CASE i = n + p + 3
    BY <1>3, <1>4, <2>5
  <2> QED
    BY <1>2, <1>3, <2>1, <2>2, <2>3, <2>4, <2>5, Indices
<1>6. ASSUME NEW x \in D PROVE \E i \in 1 .. Len(W) : W[i][1] = x
  <2>m. MaxLength \in Nat
    BY Arithmetic
  <2>1. CASE x \in 0 .. n - 1
    <3>1. PICK i \in 1 .. n : i - 1 = x
      <4>1. x + 1 \in 1 .. n /\ (x + 1) - 1 = x
        BY <1>2, <2>1
      <4> QED
        BY <4>1
    <3>2. W[i] = <<i - 1, N[i]>> /\ i \in 1 .. Len(W)
      BY <1>2, <1>3
    <3> QED
      BY <3>1, <3>2
  <2>2. CASE x = n
    <3>1. n + 1 \in 1 .. Len(W)
      BY <1>2, <1>3
    <3> QED
      BY <1>3, <2>2, <3>1
  <2>3. CASE x \in MaxLength .. MaxLength + p - 1
    <3>1. /\ x - MaxLength + 1 \in 1 .. p /\ n + 1 + (x - MaxLength + 1) \in 1 .. Len(W)
          /\ MaxLength + (x - MaxLength + 1) - 1 = x
      BY <1>2, <1>3, <2>m, <2>3
    <3>2. W[n + 1 + (x - MaxLength + 1)][1] = x
      BY <1>3, <3>1
    <3> QED
      BY <3>1, <3>2
  <2>4. CASE x = MaxLength + p
    <3>1. n + p + 2 \in 1 .. Len(W)
      BY <1>2, <1>3
    <3> QED
      BY <1>3, <2>4, <3>1
  <2>5. CASE x = 2 * MaxLength
    <3>1. n + p + 3 \in 1 .. Len(W)
      BY <1>2, <1>3
    <3> QED
      BY <1>3, <2>5, <3>1
  <2>6. \/ x \in 0 .. n - 1 \/ x = n \/ x \in MaxLength .. MaxLength + p - 1
        \/ x = MaxLength + p \/ x = 2 * MaxLength
    <3>1. x \in 0 .. n \/ x \in MaxLength .. MaxLength + p \/ x = 2 * MaxLength
      BY <1>4
    <3>2. x \in 0 .. n => x \in 0 .. n - 1 \/ x = n
      BY <1>2
    <3>3. x \in MaxLength .. MaxLength + p
            => x \in MaxLength .. MaxLength + p - 1 \/ x = MaxLength + p
      BY <1>2, <2>m
    <3> QED
      BY <3>1, <3>2, <3>3, Zenon
  <2> QED
    BY <2>1, <2>2, <2>3, <2>4, <2>5, <2>6
<1> QED
  BY <1>1, <1>5, <1>6 DEF Pending, W, D, V

-----------------------------------------------------------------------------
(* The steps of the storage.                                                *)

\* strcpy and strncpy of a string that fits: the buffer's string is the one copied.
LEMMA Copied ==
    ASSUME NEW b \in [Buffer -> Byte], NEW t \in Text
    PROVE  /\ Strncpy(b, t, MaxLength - 1) \in [Buffer -> Byte]
           /\ Strcpy(b, t) \in [Buffer -> Byte]
           /\ Len(t) < MaxLength - 1 => String(Strncpy(b, t, MaxLength - 1)) = t
           /\ Len(t) < MaxLength => String(Strcpy(b, t)) = t
<1>1. Len(t) \in Nat /\ \A i \in 1 .. Len(t) : t[i] \in Byte
  <2>1. t \in Seq(Chars)
    BY DEF Text
  <2>2. Len(t) \in Nat /\ \A i \in 1 .. Len(t) : t[i] \in Chars
    BY <2>1
  <2> QED
    BY <2>2, CharsAreBytes
<1>2. MaxLength \in Nat /\ MaxLength > 2 /\ Buffer = 0 .. MaxLength - 1
  BY Arithmetic
<1> DEFINE f == Strncpy(b, t, MaxLength - 1)
           g == Strcpy(b, t)
<1>3. /\ f \in [Buffer -> Byte]
      /\ \A i \in Buffer : i < MaxLength - 1 =>
            f[i] = IF i < Len(t) THEN t[i + 1] ELSE NUL
  <2>1. \A i \in Buffer : i < Len(t) => t[i + 1] \in Byte
    BY <1>1, <1>2
  <2>2. \A i \in Buffer : b[i] \in Byte
    OBVIOUS
  <2> QED
    BY <1>2, <2>1, <2>2, CharsAreBytes DEF Strncpy
<1>4. /\ g \in [Buffer -> Byte]
      /\ \A i \in Buffer : i <= Len(t) =>
            g[i] = IF i < Len(t) THEN t[i + 1] ELSE NUL
  <2>1. \A i \in Buffer : i < Len(t) => t[i + 1] \in Byte
    BY <1>1, <1>2
  <2>2. \A i \in Buffer : b[i] \in Byte
    OBVIOUS
  <2> QED
    BY <1>1, <1>2, <2>1, <2>2, CharsAreBytes DEF Strcpy
<1> HIDE DEF f, g
<1>5. ASSUME Len(t) < MaxLength - 1 PROVE String(f) = t
  <2>1. Len(t) < MaxLength
    BY <1>1, <1>2, <1>5
  <2>2. \A i \in 1 .. Len(t) : f[i - 1] = t[i]
    BY <1>1, <1>2, <1>3, <1>5
  <2>3. f[Len(t)] = NUL
    BY <1>1, <1>2, <1>3, <1>5
  <2> QED
    BY <1>3, <2>1, <2>2, <2>3, StringIs
<1>6. ASSUME Len(t) < MaxLength PROVE String(g) = t
  <2>1. \A i \in 1 .. Len(t) : g[i - 1] = t[i]
    BY <1>1, <1>2, <1>4, <1>6
  <2>2. g[Len(t)] = NUL
    BY <1>1, <1>2, <1>4, <1>6
  <2> QED
    BY <1>4, <1>6, <2>1, <2>2, StringIs
<1> QED
  BY <1>3, <1>4, <1>5, <1>6 DEF f, g

\* What a step of the program may do to the storage.
StorageStep ==
    \/ EepromWrite \/ Starts \/ Stops
    \/ \E c \in Provisions : Provisioned(c)
    \/ pc = "up" /\ Reset
    \/ /\ pc = "up"
       /\ \E c \in Credentials, isOpen \in BOOLEAN :
            (isOpen => c.pass = <<>>) /\ SetWifiAuth(c, isOpen)
    \/ UNCHANGED storageVars

\* CREDENTIALS_STORAGE_save of three byte strings begins a save: what there is to
\* write, where the program is, and that the EEPROM has only a part.
LEMMA SaveTyped ==
    ASSUME NEW n \in Seq(Byte), NEW p \in Seq(Byte), NEW a \in Byte, NEW k, Save(n, p, a, k)
    PROVE  /\ writes' = Writes(n, p, a) /\ writes' \in Seq(Nat \X Byte) /\ writes' # <<>>
           /\ pc' = "saving" /\ then' = k /\ partial' = TRUE
<1>1. writes' = Writes(n, p, a) /\ pc' = "saving" /\ then' = k /\ partial' = TRUE
  BY DEF Save, Writes
<1>2. Writes(n, p, a) \in Seq(Nat \X Byte) /\ Len(Writes(n, p, a)) = Len(n) + Len(p) + 3
  BY WritesAre, ZenonT(30)
<1>3. Len(n) \in Nat /\ Len(p) \in Nat
  OBVIOUS
<1>4. Len(Writes(n, p, a)) # 0
  BY <1>2, <1>3
<1>5. Len(<<>>) = 0
  OBVIOUS
<1> QED
  BY <1>1, <1>2, <1>4, <1>5

\* Writing one byte keeps the types.
LEMMA WritesOne ==
    ASSUME StorageType, pc = "saving", writes # <<>>, EepromWrite
    PROVE  /\ eeprom' \in [Places -> Byte] /\ writes' \in Seq(Nat \X Byte)
           /\ Len(writes) \in Nat /\ Len(writes) >= 1
           /\ Len(writes') = Len(writes) - 1
           /\ \A i \in 1 .. Len(writes') : i + 1 \in 1 .. Len(writes) /\ writes'[i] = writes[i + 1]
           /\ \A a \in Places :
                eeprom'[a] = IF a = writes[1][1] THEN writes[1][2] ELSE eeprom[a]
<1>1. writes \in Seq(Nat \X Byte) /\ eeprom \in [Places -> Byte]
  BY DEF StorageType
<1>2. /\ eeprom' = [a \in Places |-> IF a = writes[1][1] THEN writes[1][2] ELSE eeprom[a]]
      /\ writes' = Tail(writes)
  BY <1>1 DEF EepromWrite
<1>3. Len(writes) \in Nat /\ Len(writes) >= 1
  BY <1>1
<1>4. /\ writes' \in Seq(Nat \X Byte) /\ Len(writes') = Len(writes) - 1
      /\ \A i \in 1 .. Len(writes') : i + 1 \in 1 .. Len(writes) /\ writes'[i] = writes[i + 1]
  BY <1>1, <1>2, <1>3
<1>5. writes[1][2] \in Byte
  BY <1>1, <1>3
<1>6. eeprom' \in [Places -> Byte]
  BY <1>1, <1>2, <1>5
<1> QED
  BY <1>2, <1>3, <1>4, <1>6

\* Writing the next byte of a save keeps Pending; after the last one the EEPROM has it.
LEMMA StillPends ==
    ASSUME StorageType, pc = "saving", writes # <<>>, EepromWrite,
           NEW c \in Credentials, Short(c), Pending(c)
    PROVE  Pending(c)' /\ (writes' = <<>> => Stored(c)')
<1> DEFINE D == DOMAIN Wanted(c)
           V == Wanted(c)
<1>1. /\ eeprom' \in [Places -> Byte] /\ writes' \in Seq(Nat \X Byte)
      /\ Len(writes) \in Nat /\ Len(writes) >= 1
      /\ Len(writes') = Len(writes) - 1
      /\ \A i \in 1 .. Len(writes') : i + 1 \in 1 .. Len(writes) /\ writes'[i] = writes[i + 1]
      /\ \A a \in Places :
           eeprom'[a] = IF a = writes[1][1] THEN writes[1][2] ELSE eeprom[a]
  BY WritesOne
<1>2. D \subseteq Places
  BY WantedAt
<1>3. \A i \in 1 .. Len(writes) : writes[i][1] \in D /\ writes[i][2] = V[writes[i][1]]
  BY DEF Pending
<1>4. \A a \in D : eeprom[a] = V[a] \/ \E i \in 1 .. Len(writes) : writes[i][1] = a
  BY DEF Pending
<1> HIDE DEF D, V
<1>5. ASSUME NEW i \in 1 .. Len(writes')
      PROVE  writes'[i][1] \in D /\ writes'[i][2] = V[writes'[i][1]]
  <2>1. i + 1 \in 1 .. Len(writes) /\ writes'[i] = writes[i + 1]
    BY <1>1
  <2> QED
    BY <1>3, <2>1, Zenon
<1>6. 1 \in 1 .. Len(writes)
  BY <1>1
<1>7. ASSUME NEW a \in D
      PROVE  eeprom'[a] = V[a] \/ \E i \in 1 .. Len(writes') : writes'[i][1] = a
  <2>1. CASE a = writes[1][1]
    BY <1>1, <1>2, <1>3, <1>6, <2>1
  <2>2. CASE a # writes[1][1] /\ eeprom[a] = V[a]
    BY <1>1, <1>2, <2>2
  <2>3. CASE a # writes[1][1] /\ \E i \in 1 .. Len(writes) : writes[i][1] = a
    <3>1. PICK i \in 1 .. Len(writes) : writes[i][1] = a
      BY <2>3
    <3>2. i # 1
      BY <2>3, <3>1
    <3>3. i - 1 \in 1 .. Len(writes') /\ i = (i - 1) + 1
      BY <1>1, <3>2
    <3>4. writes'[i - 1] = writes[i]
      BY <1>1, <3>3
    <3> QED
      BY <3>1, <3>3, <3>4
  <2> QED
    BY <1>4, <2>1, <2>2, <2>3
<1>8. writes' = <<>> => \A a \in D : eeprom'[a] = V[a]
  <2>1. writes' = <<>> => 1 .. Len(writes') = {}
    OBVIOUS
  <2> QED
    BY <1>7, <2>1
<1> QED
  BY <1>5, <1>7, <1>8 DEF Pending, Stored, D, V

\* set_wifi_auth puts the credentials in memory and begins a save of the same ones.
LEMMA SetStep ==
    ASSUME StorageType, NEW c \in Credentials, NEW isOpen \in BOOLEAN,
           isOpen => c.pass = <<>>, SetWifiAuth(c, isOpen)
    PROVE  /\ ssid' \in [Buffer -> Byte] /\ pass' \in [Buffer -> Byte] /\ authType' \in Byte
           /\ eeprom' = eeprom /\ saved' = c /\ pc' = "saving" /\ then' = "up"
           /\ partial' = TRUE /\ writes' \in Seq(Nat \X Byte) /\ writes' # <<>>
           /\ Short(c) => InMemory(c)' /\ Pending(c)'
<1>1. /\ ssid' = Strncpy(ssid, c.name, MaxLength - 1)
      /\ pass' = IF isOpen THEN Strcpy(pass, <<>>) ELSE Strncpy(pass, c.pass, MaxLength - 1)
      /\ authType' = c.auth /\ saved' = c /\ eeprom' = eeprom
      /\ Save(String(ssid'), String(pass'), authType', "up")
  BY DEF SetWifiAuth
<1>2. /\ c.name \in Text /\ c.pass \in Text /\ <<>> \in Text /\ c.auth \in Byte
      /\ ssid \in [Buffer -> Byte] /\ pass \in [Buffer -> Byte]
  BY CredentialParts, CharsAreBytes DEF StorageType, Text
<1>3. ssid' \in [Buffer -> Byte] /\ (Len(c.name) < MaxLength - 1 => String(ssid') = c.name)
  BY <1>1, <1>2, Copied
<1>4. pass' \in [Buffer -> Byte] /\ (Len(c.pass) < MaxLength - 1 => String(pass') = c.pass)
  <2>1. CASE isOpen
    <3>1. pass' = Strcpy(pass, <<>>) /\ c.pass = <<>> /\ Len(<<>>) < MaxLength
      BY <1>1, <2>1, Arithmetic
    <3> QED
      BY <1>2, <3>1, Copied
  <2>2. CASE ~isOpen
    <3>1. pass' = Strncpy(pass, c.pass, MaxLength - 1)
      BY <1>1, <2>2
    <3> QED
      BY <1>2, <3>1, Copied
  <2> QED
    BY <2>1, <2>2
<1>5. String(ssid') \in Seq(Byte) /\ String(pass') \in Seq(Byte) /\ authType' \in Byte
  BY <1>1, <1>2, <1>3, <1>4, StringOf
<1>6. /\ writes' = Writes(String(ssid'), String(pass'), authType')
      /\ writes' \in Seq(Nat \X Byte) /\ writes' # <<>>
      /\ pc' = "saving" /\ then' = "up" /\ partial' = TRUE
  BY <1>1, <1>5, SaveTyped
<1>7. ASSUME Short(c) PROVE InMemory(c)' /\ Pending(c)'
  <2>1. String(ssid') = c.name /\ String(pass') = c.pass /\ authType' = c.auth
    BY <1>1, <1>3, <1>4, <1>7 DEF Short
  <2>2. InMemory(c)'
    BY <2>1 DEF InMemory, String
  <2>3. writes' = Writes(c.name, c.pass, c.auth)
    BY <1>6, <2>1
  <2> QED
    BY <1>7, <2>2, <2>3, SavePends
<1> QED
  BY <1>1, <1>3, <1>4, <1>5, <1>6, <1>7

\* Provisioning begins a save of the credentials it was given.
LEMMA ProvisionStep ==
    ASSUME NEW c \in Provisions, Provisioned(c)
    PROVE  /\ c \in Credentials
           /\ UNCHANGED <<eeprom, ssid, pass, authType>> /\ saved' = c
           /\ pc' = "saving" /\ then' = "hung" /\ partial' = TRUE
           /\ writes' \in Seq(Nat \X Byte) /\ writes' # <<>>
           /\ Short(c) => Pending(c)'
<1>1. c \in Credentials
  BY StorageAssumption
<1>2. UNCHANGED <<eeprom, ssid, pass, authType>> /\ saved' = c /\ Save(c.name, c.pass, c.auth, "hung")
  BY DEF Provisioned
<1>3. c.name \in Seq(Byte) /\ c.pass \in Seq(Byte) /\ c.auth \in Byte
  <2>1. c.name \in Seq(Chars) /\ c.pass \in Seq(Chars) /\ c.auth \in Chars
    BY <1>1, CredentialParts
  <2>2. Chars \subseteq Byte
    BY CharsAreBytes
  <2> QED
    BY <2>1, <2>2
<1>4. /\ writes' = Writes(c.name, c.pass, c.auth)
      /\ writes' \in Seq(Nat \X Byte) /\ writes' # <<>>
      /\ pc' = "saving" /\ then' = "hung" /\ partial' = TRUE
  BY <1>2, <1>3, SaveTyped
<1> QED
  BY <1>1, <1>2, <1>4, SavePends

\* A start reads what is stored, or the defaults when the EEPROM is blank.
LEMMA StartsRead ==
    ASSUME StorageType, Starts
    PROVE  /\ ssid' \in [Buffer -> Byte] /\ pass' \in [Buffer -> Byte] /\ authType' \in Byte
           /\ UNCHANGED <<eeprom, writes, then, saved, partial>> /\ pc' = "up"
           /\ saved \in Credentials /\ Short(saved) /\ (Stored(saved) \/ Blank)
                => InMemory(saved)'
<1> DEFINE f == [i \in Buffer |-> eeprom[EEPROM_SSID + i]]
           g == [i \in Buffer |-> eeprom[EEPROM_PSW + i]]
<1>1. IF f[0] = Erased
      THEN ssid' = Strcpy(f, Default.name) /\ pass' = Strcpy(g, Default.pass)
           /\ authType' = Default.auth
      ELSE ssid' = f /\ pass' = g /\ authType' = eeprom[EEPROM_SEC]
  BY Zenon DEF Starts
<1>2. UNCHANGED <<eeprom, writes, then, saved, partial>> /\ pc' = "up"
  BY Zenon DEF Starts
<1>3. eeprom \in [Places -> Byte]
  BY DEF StorageType
<1>4. f \in [Buffer -> Byte] /\ g \in [Buffer -> Byte] /\ eeprom[EEPROM_SEC] \in Byte
      /\ f[0] = eeprom[EEPROM_SSID]
  BY <1>3, Arithmetic
<1>5. /\ Default \in Credentials /\ Len(Default.name) < MaxLength
      /\ Len(Default.pass) < MaxLength
  BY StorageAssumption
<1>6. Default.name \in Text /\ Default.pass \in Text /\ Default.auth \in Byte
  BY <1>5, CredentialParts, CharsAreBytes
<1>a. ASSUME saved \in Credentials, Short(saved), Stored(saved)
      PROVE  /\ String(f) = saved.name /\ String(g) = saved.pass
             /\ eeprom[EEPROM_SEC] = saved.auth /\ eeprom[EEPROM_SSID] = saved.name[1]
  BY <1>3, <1>a, StringsBack DEF Stored
<1> HIDE DEF f, g
<1>7. /\ Strcpy(f, Default.name) \in [Buffer -> Byte]
      /\ Strcpy(g, Default.pass) \in [Buffer -> Byte]
      /\ String(Strcpy(f, Default.name)) = Default.name
      /\ String(Strcpy(g, Default.pass)) = Default.pass
  BY <1>4, <1>5, <1>6, Copied
<1>8. ssid' \in [Buffer -> Byte] /\ pass' \in [Buffer -> Byte] /\ authType' \in Byte
  BY <1>1, <1>4, <1>6, <1>7
<1>9. ASSUME saved \in Credentials, Short(saved), Stored(saved) PROVE InMemory(saved)'
  <2>1. eeprom[EEPROM_SSID] # Erased
    <3>1. 1 \in 1 .. Len(saved.name)
      BY <1>9, CredentialParts
    <3> QED
      BY <1>a, <1>9, <3>1, CredentialParts, CharsAreBytes
  <2>2. ssid' = f /\ pass' = g /\ authType' = eeprom[EEPROM_SEC]
    BY <1>1, <1>4, <2>1
  <2>3. String(ssid') = saved.name /\ String(pass') = saved.pass /\ authType' = saved.auth
    BY <1>a, <1>9, <2>2
  <2> QED
    BY <1>2, <2>3 DEF InMemory, String
<1>10. ASSUME Blank PROVE InMemory(saved)'
  <2>1. /\ ssid' = Strcpy(f, Default.name) /\ pass' = Strcpy(g, Default.pass)
        /\ authType' = Default.auth /\ saved = Default
    BY <1>1, <1>4, <1>10 DEF Blank
  <2>2. String(ssid') = saved.name /\ String(pass') = saved.pass /\ authType' = saved.auth
    BY <1>7, <2>1
  <2> QED
    BY <1>2, <2>2 DEF InMemory, String
<1> QED
  BY <1>2, <1>8, <1>9, <1>10

\* The blank EEPROM of a new board satisfies the invariant.
LEMMA StorageStarts == StorageInit => CredentialsInv
<1> SUFFICES ASSUME StorageInit PROVE CredentialsInv
  OBVIOUS
<1>1. /\ eeprom = [a \in Places |-> Erased] /\ ssid = [i \in Buffer |-> NUL] /\ pass = ssid
      /\ authType = NUL /\ writes = <<>> /\ then = "up" /\ pc = "down"
      /\ saved = Default /\ partial = FALSE
  BY DEF StorageInit
<1>2. StorageType
  <2>1. eeprom \in [Places -> Byte] /\ ssid \in [Buffer -> Byte] /\ pass \in [Buffer -> Byte]
    BY <1>1, CharsAreBytes
  <2>2. writes \in Seq(Nat \X Byte)
    BY <1>1
  <2>3. saved \in Credentials /\ authType \in Byte
    BY <1>1, CharsAreBytes, StorageAssumption
  <2> QED
    BY <1>1, <2>1, <2>2, <2>3 DEF StorageType
<1>3. Blank
  BY <1>1, Arithmetic DEF Blank
<1> QED
  BY <1>1, <1>2, <1>3 DEF CredentialsInv, Underway, Kept, SavedIsRead

\* No step breaks CredentialsInv: a byte written, a start, a stop in the middle of a
\* save, a provisioning, a command.
LEMMA StepCredentials ==
    ASSUME CredentialsInv, StorageStep
    PROVE  CredentialsInv'
<1>1. StorageType /\ Underway /\ Kept /\ SavedIsRead
  BY DEF CredentialsInv
<1>2. CASE EepromWrite
  <2>1. /\ pc = "saving" /\ UNCHANGED <<ssid, pass, authType, saved>>
        /\ IF writes' = <<>> THEN pc' = then /\ then' = "up" /\ partial' = FALSE
                             ELSE UNCHANGED <<pc, then, partial>>
    BY <1>2 DEF EepromWrite
  <2>2. partial /\ writes # <<>>
    BY <1>1, <2>1 DEF Underway
  <2>3. eeprom' \in [Places -> Byte] /\ writes' \in Seq(Nat \X Byte)
    BY <1>1, <1>2, <2>1, <2>2, WritesOne
  <2>4. StorageType'
    BY <1>1, <2>1, <2>3 DEF StorageType
  <2>5. ASSUME Short(saved)
        PROVE  Pending(saved)' /\ (writes' = <<>> => Stored(saved)')
    <3>1. Pending(saved) /\ saved \in Credentials
      BY <1>1, <2>1, <2>5 DEF Underway, StorageType
    <3> DEFINE c == saved
    <3>2. /\ \A i \in 1 .. Len(writes') : writes'[i][1] \in DOMAIN Wanted(c)
                                      /\ writes'[i][2] = Wanted(c)[writes'[i][1]]
          /\ \A a \in DOMAIN Wanted(c) : \/ eeprom'[a] = Wanted(c)[a]
                                         \/ \E i \in 1 .. Len(writes') : writes'[i][1] = a
          /\ writes' = <<>> => \A a \in DOMAIN Wanted(c) : eeprom'[a] = Wanted(c)[a]
      BY <1>1, <1>2, <2>1, <2>2, <2>5, <3>1, StillPends DEF Pending, Stored
    <3> QED
      BY <2>1, <3>2 DEF Pending, Stored
  <2>6. Short(saved)' = Short(saved) /\ InMemory(saved)' = InMemory(saved)
    BY <2>1 DEF Short, InMemory, String
  <2>a. then \in {"up", "hung"}
    BY <1>1 DEF StorageType
  <2>7. Underway'
    BY <1>1, <2>1, <2>2, <2>a, <2>5, <2>6 DEF Underway
  <2>8. Kept'
    BY <1>1, <2>1, <2>2, <2>5, <2>6 DEF Kept
  <2>9. SavedIsRead'
    BY <1>1, <2>1, <2>2, <2>5, <2>6 DEF SavedIsRead, Underway, Short
  <2> QED
    BY <2>4, <2>7, <2>8, <2>9 DEF CredentialsInv
<1>3. CASE Starts
  <2>1. /\ ssid' \in [Buffer -> Byte] /\ pass' \in [Buffer -> Byte] /\ authType' \in Byte
        /\ UNCHANGED <<eeprom, writes, then, saved, partial>> /\ pc' = "up"
        /\ saved \in Credentials /\ Short(saved) /\ (Stored(saved) \/ Blank)
             => InMemory(saved)'
    BY <1>1, <1>3, StartsRead
  <2>2. StorageType'
    BY <1>1, <2>1 DEF StorageType
  <2>3. Underway'
    BY <2>1 DEF Underway
  <2>4. Kept'
    BY <1>1, <2>1 DEF Kept, Short, Stored, Blank
  <2>5. SavedIsRead'
    BY <1>1, <2>1 DEF SavedIsRead, Kept, Short, StorageType
  <2> QED
    BY <2>2, <2>3, <2>4, <2>5 DEF CredentialsInv
<1>4. CASE Stops
  <2>1. /\ pc' = "down" /\ ssid' = [i \in Buffer |-> NUL] /\ pass' = [i \in Buffer |-> NUL]
        /\ authType' = NUL /\ writes' = <<>> /\ then' = "up" /\ UNCHANGED <<eeprom, saved, partial>>
    BY <1>4 DEF Stops
  <2>2. StorageType'
    BY <1>1, <2>1, CharsAreBytes DEF StorageType
  <2>3. Kept'
    BY <1>1, <2>1 DEF Kept, Short, Stored, Blank
  <2> QED
    BY <2>1, <2>2, <2>3 DEF CredentialsInv, Underway, SavedIsRead
<1>5. CASE \E c \in Provisions : Provisioned(c)
  <2>1. PICK c \in Provisions : Provisioned(c)
    BY <1>5
  <2>2. /\ c \in Credentials /\ UNCHANGED <<eeprom, ssid, pass, authType>> /\ saved' = c
        /\ pc' = "saving" /\ then' = "hung" /\ partial' = TRUE
        /\ writes' \in Seq(Nat \X Byte) /\ writes' # <<>>
        /\ Short(c) => Pending(c)'
    BY <2>1, ProvisionStep
  <2>3. StorageType'
    BY <1>1, <2>2 DEF StorageType
  <2>4. Short(saved)' => Pending(saved)'
    BY <2>2 DEF Short, Pending
  <2>5. Underway'
    BY <2>2, <2>4 DEF Underway
  <2> QED
    BY <2>2, <2>3, <2>5 DEF CredentialsInv, Kept, SavedIsRead
<1>6. CASE pc = "up" /\ Reset
  <2>1. pc' = "hung" /\ UNCHANGED <<eeprom, ssid, pass, authType, writes, then, saved, partial>>
    BY <1>6 DEF Reset
  <2>2. StorageType'
    BY <1>1, <2>1 DEF StorageType
  <2>3. Kept'
    BY <1>1, <2>1 DEF Kept, Short, Stored, Blank
  <2> QED
    BY <2>1, <2>2, <2>3 DEF CredentialsInv, Underway, SavedIsRead
<1>7. CASE \E c \in Credentials, isOpen \in BOOLEAN :
               (isOpen => c.pass = <<>>) /\ SetWifiAuth(c, isOpen)
  <2>1. PICK c \in Credentials, isOpen \in BOOLEAN :
               (isOpen => c.pass = <<>>) /\ SetWifiAuth(c, isOpen)
    BY <1>7
  <2>2. /\ ssid' \in [Buffer -> Byte] /\ pass' \in [Buffer -> Byte] /\ authType' \in Byte
        /\ eeprom' = eeprom /\ saved' = c /\ pc' = "saving" /\ then' = "up"
        /\ partial' = TRUE /\ writes' \in Seq(Nat \X Byte) /\ writes' # <<>>
        /\ Short(c) => InMemory(c)' /\ Pending(c)'
    BY <1>1, <2>1, SetStep
  <2>3. StorageType'
    BY <1>1, <2>2 DEF StorageType
  <2>4. Short(saved)' => Pending(saved)' /\ InMemory(saved)'
    BY <2>2 DEF Short, Pending, InMemory, String
  <2>5. Underway'
    BY <2>2, <2>4 DEF Underway
  <2> QED
    BY <2>2, <2>3, <2>5 DEF CredentialsInv, Kept, SavedIsRead
<1>8. CASE UNCHANGED storageVars
  <2>1. UNCHANGED <<eeprom, ssid, pass, authType, writes, then, pc, saved, partial>>
    BY <1>8 DEF storageVars
  <2>2. StorageType'
    BY <1>1, <2>1 DEF StorageType
  <2>3. /\ Short(saved)' = Short(saved) /\ InMemory(saved)' = InMemory(saved)
        /\ Pending(saved)' = Pending(saved) /\ Stored(saved)' = Stored(saved)
        /\ Blank' = Blank
    BY <2>1 DEF Short, InMemory, String, Pending, Stored, Blank
  <2> QED
    BY <1>1, <2>1, <2>2, <2>3 DEF CredentialsInv, Underway, Kept, SavedIsRead
<1> QED
  BY <1>2, <1>3, <1>4, <1>5, <1>6, <1>7, <1>8 DEF StorageStep

-----------------------------------------------------------------------------
(* What the user has typed.                                                 *)

\* The characters USART 2 receives.
All == Keys \cup {CR, LF}

\* What makes the user's lines; Entered is Input(lines, ending, typed).
Ended(ls, e) == [i \in 1 .. Len(ls) |-> ls[i] \o e]

\* ... and the line that is typed.
Input(ls, e, t) == FlattenSeq(Ended(ls, e)) \o t

\* The sequences of characters: lines, ends of lines, and what is received.
LEMMA LinesAreInput ==
    /\ \A t \in Line : t \in Seq(All) /\ t \in Seq(Keys)
    /\ \A e \in Endings : e \in Seq(All) /\ e # <<>> /\ e[1] \in {CR, LF}
    /\ CR \notin Keys /\ LF \notin Keys /\ CR # LF /\ NUL # CR
<1>1. Keys \subseteq All /\ CR \in All /\ LF \in All
  BY DEF All
<1>2. \A t \in Line : t \in Seq(All) /\ t \in Seq(Keys)
  BY <1>1 DEF Line
<1>3. \A e \in Endings : e \in Seq(All) /\ e # <<>> /\ e[1] \in {CR, LF}
  <2>1. <<CR>> \in Seq(All) /\ <<LF>> \in Seq(All) /\ <<CR, LF>> \in Seq(All)
    BY <1>1
  <2>2. /\ <<CR>> # <<>> /\ <<CR>>[1] = CR /\ <<LF>> # <<>> /\ <<LF>>[1] = LF
        /\ <<CR, LF>> # <<>> /\ <<CR, LF>>[1] = CR
    OBVIOUS
  <2>3. \A e \in Endings : e = <<CR>> \/ e = <<LF>> \/ e = <<CR, LF>>
    BY DEF Endings
  <2> QED
    BY <2>1, <2>2, <2>3
<1> QED
  BY <1>2, <1>3, CommandAssumption

\* Lines with their ends, put together.
LEMMA EndedTyped ==
    ASSUME NEW ls \in Seq(Line), NEW e \in Endings
    PROVE  /\ Ended(ls, e) \in Seq(Seq(All)) /\ Len(Ended(ls, e)) = Len(ls)
           /\ FlattenSeq(Ended(ls, e)) \in Seq(All)
<1> DEFINE n == Len(ls)
           L(i) == ls[i] \o e
<1>1. n \in Nat /\ \A i \in 1 .. n : ls[i] \in Seq(All)
  <2>1. n \in Nat /\ \A i \in 1 .. n : ls[i] \in Line
    OBVIOUS
  <2> QED
    BY <2>1, LinesAreInput
<1>2. \A i \in 1 .. n : L(i) \in Seq(All)
  BY <1>1, LinesAreInput
<1>3. Ended(ls, e) = [i \in 1 .. n |-> L(i)]
  BY DEF Ended
<1> HIDE DEF n, L
<1>4. [i \in 1 .. n |-> L(i)] \in Seq(Seq(All)) /\ Len([i \in 1 .. n |-> L(i)]) = n
  BY <1>1, <1>2
<1>5. Ended(ls, e) \in Seq(Seq(All)) /\ Len(Ended(ls, e)) = n
  BY <1>3, <1>4
<1> QED
  BY <1>5, FlatSeq DEF n

\* What the user has typed is a sequence of characters.
LEMMA InputTyped ==
    ASSUME NEW ls \in Seq(Line), NEW e \in Endings, NEW t \in Line
    PROVE  Input(ls, e, t) \in Seq(All)
  BY EndedTyped, LinesAreInput DEF Input

\* Without lines it is the one being typed.
LEMMA InputNone ==
    ASSUME NEW e, NEW t \in Line
    PROVE  Input(<<>>, e, t) = t
<1>1. Ended(<<>>, e) = <<>>
  BY DEF Ended
<1>2. FlattenSeq(Ended(<<>>, e)) = <<>>
  BY <1>1, FlatEmpty, Zenon
<1>3. t \in Seq(All) /\ <<>> \o t = t
  BY LinesAreInput
<1> QED
  BY <1>2, <1>3, Zenon DEF Input

\* A character behind two sequences joined.
LEMMA AppendJoined ==
    ASSUME NEW S, NEW s \in Seq(S), NEW r \in Seq(S), NEW c \in S
    PROVE  s \o Append(r, c) = Append(s \o r, c)
<1>1. s \o r \in Seq(S) /\ <<c>> \in Seq(S)
  OBVIOUS
<1>2. Append(r, c) = r \o <<c>> /\ Append(s \o r, c) = (s \o r) \o <<c>>
  BY <1>1, AppendIsConcat
<1>3. (s \o r) \o <<c>> = s \o (r \o <<c>>)
  <2>1. Associate(s, r, <<c>>)
    BY <1>1, JoinsAssociate
  <2> QED
    BY <2>1 DEF Associate
<1> QED
  BY <1>2, <1>3, Zenon

\* A character typed comes last.
LEMMA InputGrows ==
    ASSUME NEW ls \in Seq(Line), NEW e \in Endings, NEW t \in Line, NEW c \in Keys
    PROVE  Input(ls, e, Append(t, c)) = Append(Input(ls, e, t), c)
<1>1. FlattenSeq(Ended(ls, e)) \in Seq(All) /\ t \in Seq(All) /\ c \in All
  BY EndedTyped, LinesAreInput DEF All
<1> QED
  BY <1>1, AppendJoined DEF Input

\* The end of a line comes last, and the line begun is empty.
LEMMA InputLine ==
    ASSUME NEW ls \in Seq(Line), NEW e \in Endings, NEW t \in Line
    PROVE  Input(Append(ls, t), e, <<>>) = Input(ls, e, t) \o e
<1> DEFINE f == FlattenSeq(Ended(ls, e))
           x == t \o e
<1>1. /\ Ended(ls, e) \in Seq(Seq(All)) /\ f \in Seq(All)
      /\ t \in Seq(All) /\ e \in Seq(All)
  BY EndedTyped, LinesAreInput
<1>2. x \in Seq(All)
  BY <1>1
<1>3. Ended(Append(ls, t), e) = Append(Ended(ls, e), x)
  <2>1. Len(Append(ls, t)) = Len(ls) + 1 /\ Len(ls) \in Nat
    OBVIOUS
  <2>2. \A i \in 1 .. Len(ls) + 1 :
          Append(ls, t)[i] = IF i = Len(ls) + 1 THEN t ELSE ls[i]
    OBVIOUS
  <2>3. Ended(ls, e) \in Seq(Seq(All)) /\ Len(Ended(ls, e)) = Len(ls)
    BY EndedTyped
  <2>4. Append(Ended(ls, e), x) \in Seq(Seq(All)) /\ Len(Append(Ended(ls, e), x)) = Len(ls) + 1
        /\ \A i \in 1 .. Len(ls) + 1 :
             Append(Ended(ls, e), x)[i] = IF i = Len(ls) + 1 THEN x ELSE Ended(ls, e)[i]
    BY <1>2, <2>3
  <2>5. Append(ls, t) \in Seq(Line)
    OBVIOUS
  <2>6. /\ Ended(Append(ls, t), e) \in Seq(Seq(All))
        /\ Len(Ended(Append(ls, t), e)) = Len(ls) + 1
    BY <2>1, <2>5, EndedTyped
  <2>7. ASSUME NEW i \in 1 .. Len(ls) + 1
        PROVE  Ended(Append(ls, t), e)[i] = Append(Ended(ls, e), x)[i]
    <3>1. Ended(Append(ls, t), e)[i] = Append(ls, t)[i] \o e
      BY <2>1 DEF Ended
    <3>2. i # Len(ls) + 1 => Ended(ls, e)[i] = ls[i] \o e
      BY <2>1 DEF Ended
    <3> QED
      BY <2>2, <2>4, <3>1, <3>2
  <2> QED
    BY <2>4, <2>6, <2>7, SeqEqual
<1> HIDE DEF f, x
<1>4. FlattenSeq(Append(Ended(ls, e), x)) = f \o x
  BY <1>1, <1>2, FlatAppend DEF f
<1>5. f \o x = (f \o t) \o e
  <2>1. (f \o t) \o e = f \o (t \o e)
    <3>1. Associate(f, t, e)
      BY <1>1, JoinsAssociate
    <3> QED
      BY <3>1 DEF Associate
  <2> QED
    BY <2>1, Zenon DEF x
<1>6. (f \o x) \o <<>> = f \o x
  BY <1>1, <1>2
<1> QED
  BY <1>3, <1>4, <1>5, <1>6, Zenon DEF Input, f

\* The first line and its end come first.
LEMMA InputFirst ==
    ASSUME NEW ls \in Seq(Line), ls # <<>>, NEW e \in Endings, NEW t \in Line
    PROVE  /\ Head(ls) \in Line /\ Tail(ls) \in Seq(Line)
           /\ Input(ls, e, t) = (Head(ls) \o e) \o Input(Tail(ls), e, t)
<1> DEFINE E == Ended(ls, e)
<1>0. Len(ls) \in Nat \ {0}
  OBVIOUS
<1>1. /\ Len(ls) \in Nat \ {0} /\ Head(ls) \in Line /\ Tail(ls) \in Seq(Line)
      /\ Head(ls) = ls[1] /\ Len(Tail(ls)) = Len(ls) - 1
      /\ \A i \in 1 .. Len(ls) - 1 : Tail(ls)[i] = ls[i + 1]
  OBVIOUS
<1>2. E \in Seq(Seq(All)) /\ Len(E) = Len(ls)
  BY EndedTyped
<1>3. E # <<>> /\ Head(E) = E[1] /\ Tail(E) \in Seq(Seq(All)) /\ Len(Tail(E)) = Len(ls) - 1
      /\ \A i \in 1 .. Len(ls) - 1 : Tail(E)[i] = E[i + 1]
  <2> HIDE DEF E
  <2> QED
    BY <1>1, <1>2
<1>4. \A i \in 1 .. Len(ls) : E[i] = ls[i] \o e
  BY DEF Ended
<1>5. Head(E) = Head(ls) \o e
  <2>1. 1 \in 1 .. Len(ls)
    BY ONLY <1>0
  <2> QED
    BY <1>1, <1>3, <1>4, <2>1
<1>6. /\ Ended(Tail(ls), e) \in Seq(Seq(All)) /\ Len(Ended(Tail(ls), e)) = Len(ls) - 1
      /\ FlattenSeq(Ended(Tail(ls), e)) \in Seq(All)
  BY <1>1, EndedTyped, Zenon
<1>7. Tail(E) = Ended(Tail(ls), e)
  <2>1. ASSUME NEW i \in 1 .. Len(ls) - 1 PROVE Tail(E)[i] = Ended(Tail(ls), e)[i]
    <3>1. i + 1 \in 1 .. Len(ls) /\ i \in 1 .. Len(Tail(ls))
      BY <1>1
    <3>2. Ended(Tail(ls), e)[i] = Tail(ls)[i] \o e
      BY <3>1 DEF Ended
    <3> HIDE DEF E
    <3> QED
      BY <1>1, <1>3, <1>4, <3>1, <3>2
  <2> HIDE DEF E
  <2> QED
    BY <1>3, <1>6, <2>1, SeqEqual
<1> DEFINE h == Head(ls) \o e
           k == FlattenSeq(Ended(Tail(ls), e))
<1>8. h \in Seq(All) /\ k \in Seq(All) /\ t \in Seq(All)
  <2>1. Head(ls) \in Seq(All) /\ e \in Seq(All) /\ t \in Seq(All)
    BY <1>1, LinesAreInput
  <2> QED
    BY <1>6, <2>1
<1>9. FlattenSeq(E) = h \o k
  BY <1>2, <1>3, <1>5, <1>7, FlatHead
<1>10. (h \o k) \o t = h \o (k \o t)
  <2> HIDE DEF h, k
  <2> QED
    <3>1. Associate(h, k, t)
      BY <1>8, JoinsAssociate
    <3> QED
      BY <3>1 DEF Associate
<1> HIDE DEF h, k
<1>11. Input(ls, e, t) = h \o (k \o t)
  BY <1>9, <1>10, Zenon DEF Input, E
<1>12. Input(Tail(ls), e, t) = k \o t
  BY DEF Input, k
<1> QED
  BY <1>1, <1>11, <1>12 DEF h

-----------------------------------------------------------------------------
(* The invariant of the line.                                               *)

\* CLI_task is between the CR and the LF that end a line.
Mid == rx # <<>> /\ Head(rx) = LF /\ ending = <<CR, LF>>

\* What waits in USART 2 for the lines that are not read yet.
Rest == IF Mid THEN Tail(rx) ELSE rx

\* What the array command holds of a line of which X is read.
Held(X) == SubSeq(X, 1, IF Len(X) > MAX_COMMAND_SIZE THEN MAX_COMMAND_SIZE ELSE Len(X))

\* X has been read of the line CLI_task is at.
IsRead(X) ==
    /\ Entered = X \o Rest
    /\ Mid => X = <<>>
    /\ commandTooLongFlag <=> Len(X) > MAX_COMMAND_SIZE
    /\ command = Held(X)

\* A terminal that sends CR and LF sends no LF without its CR.
Paired ==
    ending = <<CR, LF>> =>
        \A i \in 1 .. Len(Entered) : Entered[i] = LF => i > 1 /\ Entered[i - 1] = CR

\* endOfLineTest remembers no CR of a terminal that ends its lines with LF.
Tested == test = CR => ending # <<LF>>

\* The inductive invariant of the line.  LineKept alone is not inductive: it says
\* nothing of which characters CLI_task holds once it is between a CR and an LF, and
\* nothing of the LF that test, the last end it saw, makes it skip.
LineInv == LineType /\ (\E X \in Line : IsRead(X)) /\ Paired /\ Tested

-----------------------------------------------------------------------------
(* Ends of lines, and what the array holds.                                 *)

\* What the endings are, character by character.
LEMMA EndingParts ==
    ASSUME NEW e \in Endings
    PROVE  /\ Len(e) \in {1, 2} /\ (Len(e) = 2 <=> e = <<CR, LF>>)
           /\ e[1] = IF e = <<LF>> THEN LF ELSE CR
           /\ Len(e) = 2 => e[2] = LF
           /\ Head(e) = e[1]
           /\ Len(e) = 1 => Tail(e) = <<>>
           /\ Len(e) = 2 => Tail(e) # <<>> /\ Head(Tail(e)) = LF /\ Tail(Tail(e)) = <<>>
<1>1. e = <<CR>> \/ e = <<LF>> \/ e = <<CR, LF>>
  BY DEF Endings
<1>2. CASE e = <<CR>>
  <2>1. <<CR>> # <<LF>> /\ <<CR>> # <<CR, LF>>
    <3>1. <<CR>>[1] = CR /\ <<LF>>[1] = LF /\ Len(<<CR>>) = 1 /\ Len(<<CR, LF>>) = 2
      OBVIOUS
    <3> QED
      BY <3>1, LinesAreInput
  <2> QED
    BY <1>2, <2>1
<1>3. CASE e = <<LF>>
  <2>1. <<LF>> # <<CR, LF>>
    <3>1. Len(<<LF>>) = 1 /\ Len(<<CR, LF>>) = 2
      OBVIOUS
    <3> QED
      BY <3>1
  <2> QED
    BY <1>3, <2>1
<1>4. CASE e = <<CR, LF>>
  <2>1. <<LF>> # <<CR, LF>>
    <3>1. Len(<<LF>>) = 1 /\ Len(<<CR, LF>>) = 2
      OBVIOUS
    <3> QED
      BY <3>1
  <2>2. Tail(<<CR, LF>>) = <<LF>>
    OBVIOUS
  <2>3. <<LF>> # <<>> /\ Head(<<LF>>) = LF /\ Tail(<<LF>>) = <<>>
    OBVIOUS
  <2>4. Len(<<CR, LF>>) = 2 /\ <<CR, LF>>[1] = CR /\ <<CR, LF>>[2] = LF
    OBVIOUS
  <2>5. Head(<<CR, LF>>) = CR
    OBVIOUS
  <2> QED
    BY <1>4, <2>1, <2>2, <2>3, <2>4, <2>5
<1> QED
  BY <1>1, <1>2, <1>3, <1>4

\* The length and the characters of what the array holds.
LEMMA HeldIs ==
    ASSUME NEW X \in Line
    PROVE  /\ Held(X) \in Line /\ Len(X) \in Nat
           /\ Len(Held(X)) = IF Len(X) > MAX_COMMAND_SIZE THEN MAX_COMMAND_SIZE ELSE Len(X)
           /\ Len(X) <= MAX_COMMAND_SIZE => Held(X) = X
           /\ \A i \in 1 .. Len(Held(X)) : Held(X)[i] = X[i]
<1> DEFINE m == IF Len(X) > MAX_COMMAND_SIZE THEN MAX_COMMAND_SIZE ELSE Len(X)
<1>1. X \in Seq(Keys) /\ Len(X) \in Nat /\ MAX_COMMAND_SIZE \in Nat \ {0}
  BY CommandAssumption DEF Line
<1>2. m \in 0 .. Len(X)
  BY <1>1
<1> HIDE DEF m
<1>3. /\ SubSeq(X, 1, m) \in Seq(Keys) /\ Len(SubSeq(X, 1, m)) = m
      /\ \A i \in 1 .. m : SubSeq(X, 1, m)[i] = X[i]
  BY <1>1, <1>2
<1>4. SubSeq(X, 1, Len(X)) = X
  BY <1>1, SubSeqFull
<1>5. Held(X) = SubSeq(X, 1, m) /\ (Len(X) <= MAX_COMMAND_SIZE => m = Len(X))
  BY <1>1 DEF Held, m
<1>6. m = IF Len(X) > MAX_COMMAND_SIZE THEN MAX_COMMAND_SIZE ELSE Len(X)
  BY DEF m
<1> QED
  BY <1>1, <1>3, <1>4, <1>5, <1>6, Zenon DEF Line

\* Reading a character into the array, or past its end.
LEMMA HeldGrows ==
    ASSUME NEW X \in Line, NEW c \in Keys
    PROVE  /\ Append(X, c) \in Line /\ Len(Append(X, c)) = Len(X) + 1
           /\ Held(Append(X, c)) = IF Len(X) < MAX_COMMAND_SIZE THEN Append(Held(X), c)
                                   ELSE Held(X)
           /\ Len(Held(X)) < MAX_COMMAND_SIZE <=> Len(X) < MAX_COMMAND_SIZE
<1> DEFINE Y == Append(X, c)
<1>1. /\ X \in Seq(Keys) /\ Len(X) \in Nat /\ MAX_COMMAND_SIZE \in Nat \ {0}
  BY CommandAssumption DEF Line
<1>2. Y \in Seq(Keys) /\ Len(Y) = Len(X) + 1 /\ \A i \in 1 .. Len(X) : Y[i] = X[i]
  BY <1>1
<1>3. Y \in Line
  BY <1>2 DEF Line
<1> HIDE DEF Y
<1>4. CASE Len(X) < MAX_COMMAND_SIZE
  <2>1. Held(Y) = Y /\ Held(X) = X
    BY <1>1, <1>2, <1>3, <1>4, HeldIs
  <2> QED
    BY <1>2, <1>3, <1>4, <2>1 DEF Y
<1>5. CASE ~(Len(X) < MAX_COMMAND_SIZE)
  <2>1. /\ Held(X) \in Seq(Keys) /\ Held(Y) \in Seq(Keys)
        /\ Len(Held(X)) = MAX_COMMAND_SIZE /\ Len(Held(Y)) = MAX_COMMAND_SIZE
    BY <1>1, <1>2, <1>3, <1>5, HeldIs DEF Line
  <2>2. ASSUME NEW i \in 1 .. MAX_COMMAND_SIZE PROVE Held(Y)[i] = Held(X)[i]
    <3>1. i \in 1 .. Len(X)
      BY <1>1, <1>5
    <3> QED
      BY <1>2, <1>3, <2>1, <3>1, HeldIs
  <2>3. Held(Y) = Held(X)
    BY <2>1, <2>2, SeqEqual
  <2> QED
    BY <1>1, <1>2, <1>3, <1>5, <2>1, <2>3 DEF Y
<1> QED
  BY <1>4, <1>5

\* A line that is read to an end of a line is the first one entered.
SameLine(X, r, H, e, F) == X = H /\ r = e \o F /\ Head(r) = e[1]

\* ... by the character that ends it: there is none in a line.
LEMMA FirstLine ==
    ASSUME NEW X \in Line, NEW r \in Seq(All), r # <<>>, Head(r) \in {CR, LF},
           NEW H \in Line, NEW e \in Endings, NEW F \in Seq(All),
           X \o r = (H \o e) \o F
    PROVE  SameLine(X, r, H, e, F)
<1>1. /\ X \in Seq(All) /\ H \in Seq(All) /\ e \in Seq(All) /\ e # <<>> /\ e[1] \in {CR, LF}
      /\ X \in Seq(Keys) /\ H \in Seq(Keys)
  BY LinesAreInput
<1> DEFINE G == e \o F
           x == Len(X)
           h == Len(H)
<1>2. (H \o e) \o F = H \o G
  <2>1. Associate(H, e, F)
    BY <1>1, JoinsAssociate
  <2> QED
    BY <2>1 DEF Associate
<1>3. G \in Seq(All) /\ Len(G) = Len(e) + Len(F) /\ Len(e) \in Nat \ {0} /\ Len(F) \in Nat
  BY <1>1
<1>4. G[1] = e[1] /\ Len(G) \in Nat \ {0}
  BY <1>1, <1>3
<1>5. r[1] = Head(r) /\ Len(r) \in Nat \ {0}
  OBVIOUS
<1>6. /\ \A i \in 1 .. x : X[i] \in Keys /\ X[i] \notin {CR, LF}
      /\ \A i \in 1 .. h : H[i] \in Keys /\ H[i] \notin {CR, LF}
      /\ x \in Nat /\ h \in Nat
  BY <1>1, LinesAreInput
<1> HIDE DEF G
<1> DEFINE s == X \o r
<1>7. s = H \o G
  BY <1>2
<1>a. X \in Seq(All) /\ r \in Seq(All)
  BY <1>1
<1>b. H \in Seq(All) /\ G \in Seq(All)
  BY <1>1, <1>3
<1>8. /\ \A i \in 1 .. x : s[i] = X[i]
      /\ \A i \in 1 .. Len(r) : s[x + i] = r[i]
      /\ Len(s) = x + Len(r)
  BY ONLY <1>a, Joined
<1>9. /\ \A i \in 1 .. h : s[i] = H[i]
      /\ \A i \in 1 .. Len(G) : s[h + i] = G[i]
      /\ Len(s) = h + Len(G)
  <2> DEFINE q == H \o G
  <2>1. /\ \A i \in 1 .. h : q[i] = H[i]
        /\ \A i \in 1 .. Len(G) : q[h + i] = G[i]
        /\ Len(q) = h + Len(G)
    BY ONLY <1>b, Joined
  <2> HIDE DEF s, h
  <2>2. s = q
    BY <1>7
  <2> HIDE DEF q
  <2> QED
    BY ONLY <2>1, <2>2, Zenon
<1> HIDE DEF s, x, h
<1>10. s[x + 1] \in {CR, LF}
  <2>1. 1 \in 1 .. Len(r)
    BY <1>5
  <2> QED
    BY <1>5, <1>8, <2>1
<1>11. s[h + 1] \in {CR, LF}
  <2>1. 1 \in 1 .. Len(G)
    BY <1>4
  <2> QED
    BY <1>1, <1>4, <1>9, <2>1
<1>12. ~(x < h)
  <2> SUFFICES ASSUME x < h PROVE FALSE
    OBVIOUS
  <2>1. x + 1 \in 1 .. h
    BY <1>6
  <2>2. s[x + 1] = H[x + 1] /\ H[x + 1] \notin {CR, LF}
    BY <1>6, <1>9, <2>1
  <2> QED
    BY <1>10, <2>2
<1>13. ~(h < x)
  <2> SUFFICES ASSUME h < x PROVE FALSE
    OBVIOUS
  <2>1. h + 1 \in 1 .. x
    BY <1>6
  <2>2. s[h + 1] = X[h + 1] /\ X[h + 1] \notin {CR, LF}
    BY <1>6, <1>8, <2>1
  <2> QED
    BY <1>11, <2>2
<1>14. x = h
  BY <1>6, <1>12, <1>13
<1>15. X = H
  <2>1. \A i \in 1 .. x : X[i] = H[i]
    BY <1>8, <1>9, <1>14
  <2> QED
    BY <1>1, <1>14, <2>1, SeqEqual DEF x, h
<1>16. r = G
  <2>1. Len(r) = Len(G)
    BY <1>4, <1>5, <1>6, <1>8, <1>9, <1>14
  <2>2. \A i \in 1 .. Len(r) : r[i] = G[i]
    BY <1>8, <1>9, <1>14, <2>1
  <2> QED
    BY <1>3, <2>1, <2>2, SeqEqual
<1> QED
  BY <1>4, <1>5, <1>15, <1>16 DEF G, SameLine

-----------------------------------------------------------------------------
(* Sequences, one end at a time.                                            *)

\* The head and the tail of a sequence.
LEMMA Unconsed ==
    ASSUME NEW S, NEW s \in Seq(S), Len(s) # 0
    PROVE  /\ s # <<>> /\ Head(s) = s[1] /\ Head(s) \in S /\ Tail(s) \in Seq(S)
           /\ Len(Tail(s)) = Len(s) - 1 /\ Len(s) \in Nat \ {0}
           /\ \A i \in 1 .. Len(s) - 1 : Tail(s)[i] = s[i + 1]
<1>1. s # <<>>
  OBVIOUS
<1> QED
  BY <1>1

\* The head and the tail of two sequences joined.
LEMMA HeadTailJoined ==
    ASSUME NEW S, NEW s \in Seq(S), NEW t \in Seq(S), s # <<>>
    PROVE  /\ s \o t # <<>> /\ Head(s \o t) = Head(s) /\ Tail(s \o t) = Tail(s) \o t
           /\ Tail(s) \in Seq(S) /\ Head(s) \in S
<1>1. /\ Head(s) \in S /\ Tail(s) \in Seq(S) /\ Len(s) \in Nat \ {0} /\ Len(t) \in Nat
      /\ Len(Tail(s)) = Len(s) - 1 /\ s[1] = Head(s)
      /\ \A i \in 1 .. Len(s) - 1 : Tail(s)[i] = s[i + 1]
  OBVIOUS
<1> DEFINE u == s \o t
           v == Tail(s) \o t
<1>2. /\ u \in Seq(S) /\ Len(u) = Len(s) + Len(t)
      /\ \A i \in 1 .. Len(s) : u[i] = s[i]
      /\ \A i \in 1 .. Len(t) : u[Len(s) + i] = t[i]
  BY Joined
<1>3. /\ v \in Seq(S) /\ Len(v) = Len(Tail(s)) + Len(t)
      /\ \A i \in 1 .. Len(Tail(s)) : v[i] = Tail(s)[i]
      /\ \A i \in 1 .. Len(t) : v[Len(Tail(s)) + i] = t[i]
  BY <1>1, Joined
<1> HIDE DEF u, v
<1>4. /\ u # <<>> /\ Head(u) = u[1] /\ Tail(u) \in Seq(S) /\ Len(Tail(u)) = Len(u) - 1
      /\ \A i \in 1 .. Len(u) - 1 : Tail(u)[i] = u[i + 1]
  <2>1. u \in Seq(S) /\ Len(u) # 0
    BY <1>1, <1>2
  <2> QED
    BY <2>1, Unconsed
<1>5. Head(u) = Head(s)
  BY <1>1, <1>2, <1>4
<1>6. Len(Tail(u)) = Len(v)
  BY <1>1, <1>2, <1>3, <1>4
<1>7. ASSUME NEW i \in 1 .. Len(v) PROVE Tail(u)[i] = v[i]
  <2>1. CASE i <= Len(s) - 1
    <3>1. i \in 1 .. Len(Tail(s)) /\ i + 1 \in 1 .. Len(s) /\ i \in 1 .. Len(u) - 1
      BY <1>1, <1>2, <2>1
    <3> QED
      BY <1>1, <1>2, <1>3, <1>4, <3>1
  <2>2. CASE ~(i <= Len(s) - 1)
    <3>1. PICK j \in 1 .. Len(t) : i = (Len(s) - 1) + j
      <4>1. Len(v) = Len(s) - 1 + Len(t) /\ i \in Nat
        BY <1>1, <1>3
      <4>2. i - (Len(s) - 1) \in 1 .. Len(t) /\ i = (Len(s) - 1) + (i - (Len(s) - 1))
        BY <1>1, <2>2, <4>1
      <4> QED
        BY <4>2
    <3>2. i \in 1 .. Len(u) - 1 /\ i + 1 = Len(s) + j /\ i = Len(Tail(s)) + j
      BY <1>1, <1>2, <3>1
    <3> QED
      BY <1>2, <1>3, <1>4, <3>2
  <2> QED
    BY <2>1, <2>2
<1>8. Tail(u) = v
  BY <1>3, <1>4, <1>6, <1>7, SeqEqual
<1> QED
  BY <1>1, <1>4, <1>5, <1>8 DEF u, v

-----------------------------------------------------------------------------
(* The steps of the user.                                                   *)

\* Entered is the input of the lines, the end of a line and the line that is typed.
LEMMA EnteredIs ==
    /\ Entered = Input(lines, ending, typed)
    /\ Entered' = Input(lines', ending', typed')
  BY DEF Entered, Input, Ended

\* What the type of the line says of its parts.
LEMMA LineParts ==
    ASSUME LineType
    PROVE  /\ rx \in Seq(All) /\ command \in Line /\ ending \in Endings
           /\ typed \in Line /\ typed \in Seq(Keys) /\ lines \in Seq(Line)
           /\ Entered \in Seq(All) /\ Rest \in Seq(All)
<1>1. /\ rx \in Seq(All) /\ command \in Line /\ ending \in Endings
      /\ typed \in Line /\ lines \in Seq(Line)
  BY DEF LineType, All
<1>2. typed \in Seq(Keys)
  BY <1>1, LinesAreInput
<1>3. Entered \in Seq(All)
  BY <1>1, EnteredIs, InputTyped
<1>4. Rest \in Seq(All)
  BY <1>1 DEF Rest, Mid
<1> QED
  BY <1>1, <1>2, <1>3, <1>4

\* The invariant holds at the start, when nothing is typed.
LEMMA LineStarts == Init => LineInv
<1> SUFFICES ASSUME Init PROVE LineInv
  OBVIOUS
<1>1. /\ rx = <<>> /\ command = <<>> /\ commandTooLongFlag = FALSE /\ test = NUL
      /\ ending \in Endings /\ typed = <<>> /\ lines = <<>>
  BY DEF Init
<1>2. <<>> \in Line /\ Len(<<>>) = 0 /\ MAX_COMMAND_SIZE \in Nat \ {0}
  BY CommandAssumption DEF Line
<1>3. LineType
  <2>1. rx \in Seq(Keys \cup {CR, LF}) /\ lines \in Seq(Line)
    BY <1>1
  <2>2. command \in Line /\ Len(command) <= MAX_COMMAND_SIZE /\ typed \in Line
    BY <1>1, <1>2
  <2> QED
    BY <1>1, <2>1, <2>2 DEF LineType
<1>4. Entered = <<>>
  BY <1>1, <1>2, EnteredIs, InputNone
<1>5. ~Mid /\ Rest = <<>>
  BY <1>1 DEF Mid, Rest
<1>6. Held(<<>>) = <<>>
  BY <1>2, HeldIs
<1>7. <<>> \o <<>> = <<>>
  OBVIOUS
<1>8. IsRead(<<>>)
  BY <1>1, <1>2, <1>4, <1>5, <1>6, <1>7 DEF IsRead
<1>9. Paired
  BY <1>4 DEF Paired
<1>10. Tested
  BY <1>1, LinesAreInput DEF Tested
<1> QED
  BY <1>2, <1>3, <1>8, <1>9, <1>10 DEF LineInv

\* A character typed: it waits, and nothing that is read changes.
LEMMA StepTypes ==
    ASSUME LineInv, NEW c \in Keys, Types(c)
    PROVE  LineInv'
<1>1. LineType /\ Paired /\ Tested
  BY DEF LineInv
<1>2. PICK X \in Line : IsRead(X)
  BY DEF LineInv
<1>3. /\ rx \in Seq(All) /\ ending \in Endings /\ typed \in Line /\ typed \in Seq(Keys)
      /\ lines \in Seq(Line) /\ Entered \in Seq(All) /\ Rest \in Seq(All)
  BY <1>1, LineParts
<1>4. /\ rx' = Append(rx, c) /\ typed' = Append(typed, c)
      /\ UNCHANGED <<command, commandTooLongFlag, test, ending, lines>>
  BY DEF Types, lineVars
<1>5. Entered' = Append(Entered, c)
  BY <1>3, <1>4, EnteredIs, InputGrows
<1>6. c \in All /\ c # CR /\ c # LF
  BY LinesAreInput DEF All
<1>7. LineType'
  <2>1. rx \in Seq(Keys \cup {CR, LF})
    BY <1>1 DEF LineType
  <2>2. rx' \in Seq(Keys \cup {CR, LF})
    BY <1>4, <2>1
  <2>3. typed' \in Line
    BY <1>3, <1>4 DEF Line
  <2> QED
    BY <1>1, <1>4, <2>2, <2>3 DEF LineType
<1>8. (Mid' <=> Mid) /\ Rest' = Append(Rest, c)
  <2>1. CASE rx = <<>>
    <3>1. rx' = <<c>> /\ Head(<<c>>) = c /\ Append(rx, c) = <<c>>
      BY <1>4, <2>1
    <3> QED
      BY <1>4, <1>6, <2>1, <3>1 DEF Mid, Rest
  <2>2. CASE rx # <<>>
    <3>1. rx' # <<>> /\ Head(rx') = Head(rx) /\ Tail(rx') = Append(Tail(rx), c)
      <4>1. rx \in Seq(All) /\ rx # <<>> /\ rx' = Append(rx, c)
        BY <1>3, <1>4, <2>2
      <4>2. Head(Append(rx, c)) = Head(rx) /\ Tail(Append(rx, c)) = Append(Tail(rx), c)
        BY ONLY <4>1, HeadTailAppend
      <4>3. Append(rx, c) # <<>>
        BY ONLY <4>1
      <4> QED
        BY <4>1, <4>2, <4>3, Zenon
    <3> QED
      BY <1>4, <2>2, <3>1 DEF Mid, Rest
  <2> QED
    BY <2>1, <2>2
<1>9. X \o Append(Rest, c) = Append(X \o Rest, c)
  <2>1. X \in Seq(All) /\ Rest \in Seq(All) /\ c \in All
    BY <1>3, <1>6, LinesAreInput
  <2> QED
    BY ONLY <2>1, AppendJoined
<1>10. IsRead(X)'
  BY <1>2, <1>4, <1>5, <1>8, <1>9 DEF IsRead
<1>11. Paired'
  <2> SUFFICES ASSUME ending = <<CR, LF>>, NEW i \in 1 .. Len(Entered'), Entered'[i] = LF
               PROVE  i > 1 /\ Entered'[i - 1] = CR
    BY <1>4 DEF Paired
  <2>1. /\ Len(Entered) \in Nat /\ Len(Entered') = Len(Entered) + 1
        /\ Entered'[Len(Entered) + 1] = c
        /\ \A j \in 1 .. Len(Entered) : Entered'[j] = Entered[j]
    BY <1>3, <1>5
  <2>2. i \in 1 .. Len(Entered)
    BY <1>6, <2>1
  <2>3. i > 1 /\ Entered[i - 1] = CR
    BY <1>1, <2>1, <2>2 DEF Paired
  <2> QED
    BY <2>1, <2>2, <2>3
<1>12. Tested'
  BY <1>1, <1>4 DEF Tested
<1> QED
  BY <1>7, <1>10, <1>11, <1>12 DEF LineInv

\* A line entered, with its CR, LF or both: neither does.
LEMMA StepEnters ==
    ASSUME LineInv, Enters
    PROVE  LineInv'
<1>1. LineType /\ Paired /\ Tested
  BY DEF LineInv
<1>2. PICK X \in Line : IsRead(X)
  BY DEF LineInv
<1>3. /\ rx \in Seq(All) /\ ending \in Endings /\ typed \in Line /\ typed \in Seq(Keys)
      /\ lines \in Seq(Line) /\ Entered \in Seq(All) /\ Rest \in Seq(All)
  BY <1>1, LineParts
<1>4. /\ rx' = rx \o ending /\ lines' = Append(lines, typed) /\ typed' = <<>>
      /\ UNCHANGED <<command, commandTooLongFlag, test, ending>>
  BY DEF Enters, lineVars
<1>5. Entered' = Entered \o ending
  BY <1>3, <1>4, EnteredIs, InputLine
<1>6. /\ ending \in Seq(All) /\ ending # <<>> /\ ending[1] = Head(ending)
      /\ Len(ending) \in {1, 2} /\ (Len(ending) = 2 <=> ending = <<CR, LF>>)
      /\ ending[1] = (IF ending = <<LF>> THEN LF ELSE CR)
      /\ (Len(ending) = 2 => ending[2] = LF)
  BY <1>3, LinesAreInput, EndingParts
<1>7. LineType'
  <2>1. rx' \in Seq(All) /\ <<>> \in Line /\ Append(lines, typed) \in Seq(Line)
    BY <1>3, <1>4, <1>6 DEF Line
  <2> QED
    BY <1>1, <1>4, <2>1 DEF LineType, All
<1>8. (Mid' <=> Mid) /\ Rest' = Rest \o ending
  <2>1. CASE rx = <<>>
    <3>1. rx' = ending
      BY <1>4, <1>6, <2>1
    <3>2. ~Mid'
      <4>1. <<LF>> # <<CR, LF>>
        <5>1. Len(<<LF>>) = 1 /\ Len(<<CR, LF>>) = 2
          OBVIOUS
        <5> QED
          BY <5>1
      <4>2. ending = <<CR, LF>> => Head(ending) = CR
        BY <1>6, <4>1
      <4> QED
        BY <1>4, <3>1, <4>2, LinesAreInput DEF Mid
    <3>3. <<>> \o ending = ending
      BY <1>6
    <3> QED
      BY <2>1, <3>1, <3>2, <3>3 DEF Mid, Rest
  <2>2. CASE rx # <<>>
    <3>1. rx' # <<>> /\ Head(rx') = Head(rx) /\ Tail(rx') = Tail(rx) \o ending
      <4>1. rx \in Seq(All) /\ ending \in Seq(All) /\ rx # <<>>
        BY <1>3, <1>6, <2>2
      <4>2. rx \o ending # <<>> /\ Head(rx \o ending) = Head(rx)
            /\ Tail(rx \o ending) = Tail(rx) \o ending
        BY ONLY <4>1, HeadTailJoined
      <4> QED
        BY <1>4, <4>2, Zenon
    <3> QED
      BY <1>4, <2>2, <3>1 DEF Mid, Rest
  <2> QED
    BY <2>1, <2>2
<1>9. X \o (Rest \o ending) = (X \o Rest) \o ending
  <2>1. X \in Seq(All) /\ Rest \in Seq(All) /\ ending \in Seq(All)
    BY <1>3, <1>6, LinesAreInput
  <2>2. (X \o Rest) \o ending = X \o (Rest \o ending)
    <3>1. Associate(X, Rest, ending)
      BY <2>1, JoinsAssociate
    <3> QED
      BY <3>1 DEF Associate
  <2> QED
    BY <2>2
<1>10. IsRead(X)'
  BY <1>2, <1>4, <1>5, <1>8, <1>9 DEF IsRead
<1>11. Paired'
  <2> SUFFICES ASSUME ending = <<CR, LF>>, NEW i \in 1 .. Len(Entered'), Entered'[i] = LF
               PROVE  i > 1 /\ Entered'[i - 1] = CR
    BY <1>4 DEF Paired
  <2>0. Len(ending) = 2 /\ ending[1] = CR /\ ending[2] = LF
    OBVIOUS
  <2>1. /\ Len(Entered) \in Nat /\ Len(Entered') = Len(Entered) + 2
        /\ \A j \in 1 .. Len(Entered) : Entered'[j] = Entered[j]
        /\ \A j \in 1 .. 2 : Entered'[Len(Entered) + j] = ending[j]
    BY <1>3, <1>5, <1>6, <2>0, Joined
  <2>2. CASE i \in 1 .. Len(Entered)
    <3>1. i > 1 /\ Entered[i - 1] = CR
      BY <1>1, <2>1, <2>2 DEF Paired
    <3> QED
      BY <2>1, <2>2, <3>1
  <2>3. CASE i = Len(Entered) + 1
    <3>1. Entered'[Len(Entered) + 1] = CR
      BY <2>0, <2>1
    <3> QED
      BY <2>3, <3>1, LinesAreInput
  <2>4. CASE i = Len(Entered) + 2
    <3>1. Entered'[Len(Entered) + 1] = CR
      BY <2>0, <2>1
    <3> QED
      BY <2>1, <2>4, <3>1
  <2> QED
    BY <2>1, <2>2, <2>3, <2>4
<1>12. Tested'
  BY <1>1, <1>4 DEF Tested
<1> QED
  BY <1>7, <1>10, <1>11, <1>12 DEF LineInv

-----------------------------------------------------------------------------
(* The steps of CLI_task.                                                   *)

\* A character moves from the front of one sequence to the back of another.
LEMMA MovedOne ==
    ASSUME NEW S, NEW s \in Seq(S), NEW r \in Seq(S), r # <<>>
    PROVE  s \o r = Append(s, Head(r)) \o Tail(r)
<1>1. Head(r) \in S /\ Tail(r) \in Seq(S) /\ r = <<Head(r)>> \o Tail(r)
  <2>1. /\ Head(r) \in S /\ Tail(r) \in Seq(S) /\ Head(r) = r[1] /\ Len(Tail(r)) = Len(r) - 1
        /\ Len(r) \in Nat \ {0}
        /\ \A i \in 1 .. Len(r) - 1 : Tail(r)[i] = r[i + 1]
    <3>1. Len(r) # 0
      OBVIOUS
    <3> QED
      BY <3>1, Unconsed
  <2>2. 1 \in 1 .. Len(r) /\ Len(r) \in 1 .. Len(r)
    BY <2>1
  <2>3. SubSeq(r, 1, Len(r)) = <<r[1]>> \o SubSeq(r, 1 + 1, Len(r))
    BY <2>2, SubSeqRecursiveFirst
  <2>4. SubSeq(r, 1, Len(r)) = r /\ Tail(r) = SubSeq(r, 2, Len(r)) /\ 1 + 1 = 2
    BY SubSeqFull, TailIsSubSeq
  <2>5. <<r[1]>> \o SubSeq(r, 1 + 1, Len(r)) = <<Head(r)>> \o Tail(r)
    BY <2>1, <2>4
  <2> QED
    BY <2>1, <2>3, <2>4, <2>5
<1>2. <<Head(r)>> \in Seq(S)
  BY <1>1
<1>3. Append(s, Head(r)) = s \o <<Head(r)>>
  BY <1>1, AppendIsConcat
<1>4. (s \o <<Head(r)>>) \o Tail(r) = s \o (<<Head(r)>> \o Tail(r))
  <2>1. Associate(s, <<Head(r)>>, Tail(r))
    BY <1>1, <1>2, JoinsAssociate
  <2> QED
    BY <2>1 DEF Associate
<1> QED
  BY <1>1, <1>3, <1>4, Zenon

\* CLI_task reads a character of a line: it moves from what waits to what is read.
LEMMA StepReadsKey ==
    ASSUME LineInv, NEW c \in Keys \cup {CR, LF}, ReadsKey(c)
    PROVE  LineInv' /\ UNCHANGED <<storageVars, lines>>
<1>1. LineType /\ Paired /\ Tested
  BY DEF LineInv
<1>2. PICK X \in Line : IsRead(X)
  BY DEF LineInv
<1>3. /\ rx \in Seq(All) /\ ending \in Endings /\ command \in Line /\ Entered \in Seq(All)
      /\ Rest \in Seq(All)
  BY <1>1, LineParts
<1>4. /\ rx # <<>> /\ c = Head(rx) /\ rx' = Tail(rx) /\ c \in Keys
      /\ UNCHANGED <<test, ending, typed, lines>> /\ UNCHANGED storageVars
      /\ IF Len(command) < MAX_COMMAND_SIZE
         THEN command' = Append(command, c) /\ commandTooLongFlag' = commandTooLongFlag
         ELSE commandTooLongFlag' = TRUE /\ command' = command
  BY DEF ReadsKey, Reads, userVars
<1>5. c # CR /\ c # LF
  BY <1>4, LinesAreInput
<1> DEFINE Y == Append(X, c)
<1>6. /\ Y \in Line /\ Len(Y) = Len(X) + 1 /\ Len(X) \in Nat
      /\ Held(Y) = IF Len(X) < MAX_COMMAND_SIZE THEN Append(Held(X), c) ELSE Held(X)
      /\ Len(Held(X)) < MAX_COMMAND_SIZE <=> Len(X) < MAX_COMMAND_SIZE
  BY <1>4, HeldGrows, HeldIs, ZenonT(30)
<1>7. X \in Seq(All) /\ Y \in Seq(All)
  BY <1>6, LinesAreInput
<1>8. Entered' = Entered
  BY <1>4, EnteredIs
<1>9. ~Mid /\ Rest = rx
  BY <1>4, <1>5 DEF Mid, Rest
<1>10. Entered = Y \o Tail(rx)
  BY <1>2, <1>3, <1>4, <1>7, <1>9, MovedOne DEF IsRead
<1> HIDE DEF Y
<1>11. ~Mid'
  <2> SUFFICES ASSUME Mid' PROVE FALSE
    OBVIOUS
  <2>1. Tail(rx) # <<>> /\ Head(Tail(rx)) = LF /\ ending = <<CR, LF>>
    BY <1>4 DEF Mid
  <2>2. Tail(rx) \in Seq(All)
    BY <1>3, <1>4
  <2> DEFINE r == Tail(rx)
             n == Len(Y)
  <2>3. r \in Seq(All) /\ r[1] = LF /\ Len(r) \in Nat \ {0}
    BY <2>1, <2>2
  <2> HIDE DEF r
  <2>4. /\ \A i \in 1 .. n : Entered[i] = Y[i]
        /\ \A i \in 1 .. Len(r) : Entered[n + i] = r[i]
        /\ Len(Entered) = n + Len(r)
    BY <1>7, <1>10, <2>3, Joined DEF r
  <2>5. n \in Nat /\ n >= 1 /\ Y[n] = c
    BY <1>6, <1>7 DEF Y
  <2> HIDE DEF n
  <2>6. 1 \in 1 .. Len(r) /\ n + 1 \in 1 .. Len(Entered) /\ n \in 1 .. n /\ n + 1 - 1 = n
    BY <2>3, <2>4, <2>5
  <2>7. Entered[n + 1] = LF
    BY <2>3, <2>4, <2>6
  <2>8. Entered[n + 1 - 1] = CR
    BY <1>1, <2>1, <2>6, <2>7 DEF Paired
  <2> QED
    BY <1>5, <2>4, <2>5, <2>6, <2>8
<1>12. Rest' = Tail(rx)
  BY <1>4, <1>11 DEF Rest
<1>13. /\ commandTooLongFlag <=> Len(X) > MAX_COMMAND_SIZE
       /\ command = Held(X)
  BY <1>2 DEF IsRead
<1>m. MAX_COMMAND_SIZE \in Nat \ {0}
  BY CommandAssumption
<1>14. command' = Held(Y)
  BY <1>4, <1>6, <1>13
<1>15. commandTooLongFlag' <=> Len(Y) > MAX_COMMAND_SIZE
  <2>1. CASE Len(X) < MAX_COMMAND_SIZE
    <3>1. commandTooLongFlag' = commandTooLongFlag
      BY <1>4, <1>6, <1>13, <2>1
    <3>2. ~(Len(X) > MAX_COMMAND_SIZE) /\ ~(Len(Y) > MAX_COMMAND_SIZE)
      BY <1>6, <1>m, <2>1
    <3> QED
      BY <1>13, <3>1, <3>2
  <2>2. CASE ~(Len(X) < MAX_COMMAND_SIZE)
    <3>1. commandTooLongFlag' = TRUE
      BY <1>4, <1>6, <1>13, <2>2
    <3>2. Len(Y) > MAX_COMMAND_SIZE
      BY <1>6, <1>m, <2>2
    <3> QED
      BY <3>1, <3>2
  <2> QED
    BY <2>1, <2>2
<1>16. IsRead(Y)'
  BY <1>8, <1>10, <1>11, <1>12, <1>14, <1>15 DEF IsRead, Held
<1>17. LineType'
  <2>1. rx' \in Seq(All)
    BY <1>3, <1>4
  <2>2. command' \in Line /\ Len(command') <= MAX_COMMAND_SIZE
    <3>1. Held(Y) \in Line /\ Len(Y) \in Nat
          /\ Len(Held(Y)) = IF Len(Y) > MAX_COMMAND_SIZE THEN MAX_COMMAND_SIZE ELSE Len(Y)
      BY <1>6, HeldIs
    <3>2. Len(Held(Y)) <= MAX_COMMAND_SIZE
      BY <1>m, <3>1
    <3> QED
      BY <1>14, <3>1, <3>2
  <2>3. commandTooLongFlag' \in BOOLEAN
    BY <1>1, <1>4 DEF LineType
  <2> QED
    BY <1>1, <1>4, <2>1, <2>2, <2>3 DEF LineType, All
<1>18. Paired' /\ Tested'
  BY <1>1, <1>4, <1>8 DEF Paired, Tested
<1>19. LineInv'
  BY <1>6, <1>16, <1>17, <1>18 DEF LineInv
<1> QED
  BY <1>4, <1>19

\* What a line asks of the storage.
LEMMA RunsDoes ==
    ASSUME NEW t \in Line, pc = "up", Runs(t)
    PROVE  Does(t) /\ StorageStep
<1>1. CASE t \notin DOMAIN Commands
  BY <1>1 DEF Runs, Does, StorageStep
<1>2. CASE t \in DOMAIN Commands
  <2> DEFINE c == Commands[t]
  <2>1. \/ /\ c.op \in {"open", "psk"} /\ c.arg \in Credentials
           /\ c.op = "open" => c.arg.pass = <<>>
        \/ c.op \in {"reset", "other"}
    BY <1>2, CommandAssumption
  <2>2. CASE c.op = "open"
    <3>1. SetWifiAuth(c.arg, TRUE)
      BY <1>2, <2>2 DEF Runs
    <3>2. pc' = "saving" /\ saved' = c.arg
      BY <3>1 DEF SetWifiAuth, Save
    <3>3. c.arg \in Credentials /\ c.arg.pass = <<>>
      BY <2>1, <2>2
    <3>4. Does(t)
      BY <1>2, <2>2, <3>2 DEF Does
    <3> QED
      BY <3>1, <3>3, <3>4 DEF StorageStep
  <2>3. CASE c.op = "psk"
    <3>1. SetWifiAuth(c.arg, FALSE)
      BY <1>2, <2>3 DEF Runs
    <3>2. pc' = "saving" /\ saved' = c.arg
      BY <3>1 DEF SetWifiAuth, Save
    <3>3. c.arg \in Credentials
      BY <2>1, <2>3
    <3>4. Does(t)
      BY <1>2, <2>3, <3>2 DEF Does
    <3> QED
      BY <3>1, <3>3, <3>4 DEF StorageStep
  <2>4. CASE c.op = "reset"
    <3>1. Reset
      BY <1>2, <2>4 DEF Runs
    <3> QED
      BY <1>2, <2>4, <3>1 DEF Does, Reset, StorageStep
  <2>5. CASE c.op = "other"
    <3>1. UNCHANGED storageVars
      BY <1>2, <2>5 DEF Runs
    <3> QED
      BY <1>2, <2>5, <3>1 DEF Does, StorageStep
  <2> QED
    BY <2>1, <2>2, <2>3, <2>4, <2>5
<1> QED
  BY <1>1, <1>2

\* A character that ends a line, as far as the line goes.
LEMMA EndIs ==
    ASSUME NEW c \in Keys \cup {CR, LF}, ReadsEnd(c)
    PROVE  /\ rx # <<>> /\ c = Head(rx) /\ rx' = Tail(rx) /\ c \in {CR, LF} /\ pc = "up"
           /\ command' = <<>> /\ commandTooLongFlag' = FALSE
           /\ lines' = IF c = LF /\ ending = <<CR, LF>> THEN lines ELSE Tail(lines)
           /\ UNCHANGED <<ending, typed>> /\ test' \in {test, c}
           /\ \/ commandTooLongFlag /\ UNCHANGED storageVars
              \/ /\ ~commandTooLongFlag \/ Len(command) = MAX_COMMAND_SIZE
                 /\ IF c = LF /\ test = CR THEN UNCHANGED storageVars ELSE Runs(command)
<1>1. PICK b \in Behind :
        IF commandTooLongFlag /\ (Len(command) = MAX_COMMAND_SIZE => b # "commandTooLongFlag")
        THEN UNCHANGED <<test, storageVars>>
        ELSE /\ IF c = LF /\ test = CR THEN UNCHANGED storageVars ELSE Runs(command)
             /\ test' = c
  BY Zenon DEF ReadsEnd
<1>2. /\ rx # <<>> /\ c = Head(rx) /\ rx' = Tail(rx) /\ c \in {CR, LF} /\ pc = "up"
      /\ command' = <<>> /\ commandTooLongFlag' = FALSE
      /\ lines' = IF c = LF /\ ending = <<CR, LF>> THEN lines ELSE Tail(lines)
      /\ UNCHANGED <<ending, typed>>
  BY Zenon DEF ReadsEnd, Reads, LineEnds
<1>3. CASE commandTooLongFlag /\ (Len(command) = MAX_COMMAND_SIZE => b # "commandTooLongFlag")
  <2>1. test' = test /\ UNCHANGED storageVars
    BY <1>1, <1>3, Zenon
  <2> QED
    BY <1>2, <1>3, <2>1, Zenon
<1>4. CASE ~(commandTooLongFlag /\ (Len(command) = MAX_COMMAND_SIZE => b # "commandTooLongFlag"))
  <2>1. /\ IF c = LF /\ test = CR THEN UNCHANGED storageVars ELSE Runs(command)
        /\ test' = c
    BY <1>1, <1>4, Zenon
  <2>2. ~commandTooLongFlag \/ Len(command) = MAX_COMMAND_SIZE
    BY <1>4, Zenon
  <2> QED
    BY <1>2, <2>1, <2>2, Zenon
<1> QED
  BY <1>3, <1>4, Zenon

\* The LF after the CR that ended the line: nothing is run.
LEMMA StepReadsLF ==
    ASSUME LineInv, Mid, NEW c \in Keys \cup {CR, LF}, ReadsEnd(c)
    PROVE  LineInv' /\ UNCHANGED <<storageVars, lines>>
<1>1. LineType /\ Paired /\ Tested
  BY DEF LineInv
<1>2. PICK X \in Line : IsRead(X)
  BY DEF LineInv
<1>3. /\ rx \in Seq(All) /\ ending \in Endings /\ Entered \in Seq(All) /\ lines \in Seq(Line)
  BY <1>1, LineParts
<1>4. /\ rx # <<>> /\ c = Head(rx) /\ rx' = Tail(rx) /\ pc = "up"
      /\ command' = <<>> /\ commandTooLongFlag' = FALSE
      /\ lines' = IF c = LF /\ ending = <<CR, LF>> THEN lines ELSE Tail(lines)
      /\ UNCHANGED <<ending, typed>> /\ test' \in {test, c}
      /\ \/ commandTooLongFlag /\ UNCHANGED storageVars
         \/ IF c = LF /\ test = CR THEN UNCHANGED storageVars ELSE Runs(command)
  BY EndIs
<1>5. c = LF /\ ending = <<CR, LF>> /\ lines' = lines /\ Rest = Tail(rx)
  BY <1>4 DEF Mid, Rest
<1>6. X = <<>> /\ command = Held(X) /\ Entered = X \o Tail(rx)
  BY <1>2, <1>5 DEF IsRead
<1>m. MAX_COMMAND_SIZE \in Nat \ {0} /\ Len(<<>>) = 0 /\ <<>> \in Line
  BY CommandAssumption DEF Line
<1>7. Held(<<>>) = <<>>
  BY <1>m, HeldIs
<1>8. UNCHANGED storageVars
  <2>1. <<>> \notin DOMAIN Commands
    BY CommandAssumption
  <2>2. Runs(<<>>) => UNCHANGED storageVars
    BY <2>1 DEF Runs
  <2> QED
    BY <1>4, <1>6, <1>7, <2>2, Zenon
<1>9. Tail(rx) \in Seq(All)
  BY <1>3, <1>4
<1>10. Entered = Tail(rx) /\ Entered' = Entered
  <2>1. <<>> \o Tail(rx) = Tail(rx)
    BY <1>9
  <2> QED
    BY <1>4, <1>5, <1>6, <2>1, EnteredIs
<1>11. ~Mid'
  <2> SUFFICES ASSUME Mid' PROVE FALSE
    OBVIOUS
  <2>1. Tail(rx) # <<>> /\ Head(Tail(rx)) = LF
    BY <1>4 DEF Mid
  <2>2. 1 \in 1 .. Len(Entered) /\ Entered[1] = LF
    BY <1>9, <1>10, <2>1
  <2> QED
    BY <1>1, <1>5, <2>2 DEF Paired
<1>12. Rest' = Tail(rx)
  BY <1>4, <1>11 DEF Rest
<1>13. IsRead(<<>>)'
  <2>1. Entered' = <<>> \o Rest'
    BY <1>9, <1>10, <1>12
  <2> QED
    BY <1>4, <1>7, <1>m, <2>1 DEF IsRead, Held
<1>14. LineType'
  <2>1. test' \in {NUL, CR, LF}
    BY <1>1, <1>4, <1>5 DEF LineType
  <2>2. rx' \in Seq(Keys \cup {CR, LF})
    BY <1>4, <1>9 DEF All
  <2>3. command' \in Line /\ Len(command') <= MAX_COMMAND_SIZE
    BY <1>4, <1>m
  <2>4. commandTooLongFlag' \in BOOLEAN /\ UNCHANGED <<ending, typed, lines>>
    BY <1>4, <1>5
  <2> QED
    BY <1>1, <2>1, <2>2, <2>3, <2>4 DEF LineType
<1>15. Paired'
  BY <1>1, <1>4, <1>10 DEF Paired
<1>16. Tested'
  <2>1. <<CR, LF>> # <<LF>>
    <3>1. Len(<<LF>>) = 1 /\ Len(<<CR, LF>>) = 2
      OBVIOUS
    <3> QED
      BY <3>1
  <2> QED
    BY <1>4, <1>5, <2>1 DEF Tested
<1>17. LineInv'
  BY <1>m, <1>13, <1>14, <1>15, <1>16 DEF LineInv
<1> QED
  BY <1>5, <1>8, <1>17

\* What may happen to the storage when the line t has been read.
Done(t) ==
    IF Len(t) <= MAX_COMMAND_SIZE THEN Does(t)
    ELSE UNCHANGED storageVars \/ Does(SubSeq(t, 1, MAX_COMMAND_SIZE))

\* The character that ends the user's first line.
LEMMA EndFound ==
    ASSUME LineType, ~Mid, rx # <<>>, Head(rx) \in {CR, LF}, NEW X \in Line, IsRead(X)
    PROVE  /\ lines # <<>> /\ X = Head(lines) /\ Head(rx) = ending[1]
           /\ Tail(lines) \in Seq(Line)
           /\ rx = ending \o Input(Tail(lines), ending, typed)
           /\ Entered = (Head(lines) \o ending) \o Input(Tail(lines), ending, typed)
           /\ Input(Tail(lines), ending, typed) \in Seq(All)
<1>1. /\ rx \in Seq(All) /\ ending \in Endings /\ Entered \in Seq(All) /\ lines \in Seq(Line)
      /\ typed \in Line
  BY LineParts
<1>2. Entered = X \o rx
  BY DEF IsRead, Rest
<1>3. lines # <<>>
  <2> SUFFICES ASSUME lines = <<>> PROVE FALSE
    OBVIOUS
  <2>1. Entered = typed
    BY <1>1, EnteredIs, InputNone
  <2>2. X \in Seq(All) /\ typed \in Seq(Keys) /\ CR \notin Keys /\ LF \notin Keys
    BY <1>1, LinesAreInput
  <2> DEFINE s == X \o rx
  <2>3. /\ \A i \in 1 .. Len(rx) : s[Len(X) + i] = rx[i]
        /\ Len(s) = Len(X) + Len(rx)
    BY <1>1, <2>2, Joined
  <2>4. rx[1] = Head(rx) /\ 1 \in 1 .. Len(rx) /\ Len(X) \in Nat /\ Len(rx) \in Nat \ {0}
    BY <1>1, <2>2
  <2> HIDE DEF s
  <2>5. s[Len(X) + 1] \in {CR, LF} /\ Len(X) + 1 \in 1 .. Len(s)
    BY <2>3, <2>4
  <2>6. s = typed
    BY <1>2, <2>1 DEF s
  <2>7. \A i \in 1 .. Len(typed) : typed[i] \in Keys
    BY <2>2
  <2> QED
    BY <2>2, <2>5, <2>6, <2>7
<1> DEFINE F == Input(Tail(lines), ending, typed)
<1>4. /\ Head(lines) \in Line /\ Tail(lines) \in Seq(Line)
      /\ Entered = (Head(lines) \o ending) \o F
  BY <1>1, <1>3, EnteredIs, InputFirst
<1>5. F \in Seq(All)
  BY <1>1, <1>4, InputTyped
<1>6. X \o rx = (Head(lines) \o ending) \o F
  BY <1>2, <1>4
<1> HIDE DEF F
<1>7. X = Head(lines) /\ rx = ending \o F /\ Head(rx) = ending[1]
  <2> DEFINE H == Head(lines)
  <2>1. /\ X \in Line /\ rx \in Seq(All) /\ rx # <<>> /\ Head(rx) \in {CR, LF}
        /\ H \in Line /\ ending \in Endings /\ F \in Seq(All)
        /\ X \o rx = (H \o ending) \o F
    BY <1>1, <1>4, <1>5, <1>6
  <2> HIDE DEF H
  <2>2. X = H /\ rx = ending \o F /\ Head(rx) = ending[1]
    <3>1. SameLine(X, rx, H, ending, F)
      BY ONLY <2>1, FirstLine
    <3> QED
      BY <3>1 DEF SameLine
  <2> QED
    BY <2>2 DEF H
<1> QED
  BY <1>3, <1>4, <1>5, <1>7 DEF F

\* CLI_task reads the end of a line: what it has read is the user's first line, the
\* line is run or refused, and the next one begins with nothing read.
LEMMA StepReadsEnd ==
    ASSUME LineInv, ~Mid, NEW c \in Keys \cup {CR, LF}, ReadsEnd(c)
    PROVE  LineInv' /\ StorageStep /\ lines # <<>> /\ lines' = Tail(lines) /\ Done(Head(lines))
<1>1. LineType /\ Paired /\ Tested
  BY DEF LineInv
<1>2. PICK X \in Line : IsRead(X)
  BY DEF LineInv
<1>3. /\ rx \in Seq(All) /\ ending \in Endings /\ Entered \in Seq(All) /\ lines \in Seq(Line)
      /\ typed \in Line /\ command \in Line
  BY <1>1, LineParts
<1>4. /\ rx # <<>> /\ c = Head(rx) /\ rx' = Tail(rx) /\ c \in {CR, LF} /\ pc = "up"
      /\ command' = <<>> /\ commandTooLongFlag' = FALSE
      /\ lines' = IF c = LF /\ ending = <<CR, LF>> THEN lines ELSE Tail(lines)
      /\ UNCHANGED <<ending, typed>> /\ test' \in {test, c}
  BY EndIs
<1>5. \/ commandTooLongFlag /\ UNCHANGED storageVars
      \/ /\ ~commandTooLongFlag \/ Len(command) = MAX_COMMAND_SIZE
         /\ IF c = LF /\ test = CR THEN UNCHANGED storageVars ELSE Runs(command)
  BY EndIs
<1> DEFINE F == Input(Tail(lines), ending, typed)
<1>6. /\ lines # <<>> /\ X = Head(lines) /\ c = ending[1]
      /\ Tail(lines) \in Seq(Line) /\ rx = ending \o F
      /\ Entered = (Head(lines) \o ending) \o F /\ F \in Seq(All)
  BY <1>1, <1>2, <1>4, EndFound
<1>7. ~(c = LF /\ ending = <<CR, LF>>) /\ (c = LF => ending = <<LF>>)
  BY <1>3, <1>4, <1>6, EndingParts, LinesAreInput DEF Mid
<1>8. lines' = Tail(lines)
  BY <1>4, <1>7
<1>9. Entered' = F
  BY <1>4, <1>8, EnteredIs
<1>10. /\ commandTooLongFlag <=> Len(X) > MAX_COMMAND_SIZE
       /\ command = Held(X) /\ Len(X) \in Nat
       /\ Len(X) <= MAX_COMMAND_SIZE => Held(X) = X
  BY <1>2, HeldIs DEF IsRead
<1>m. MAX_COMMAND_SIZE \in Nat \ {0} /\ Len(<<>>) = 0 /\ <<>> \in Line
  BY CommandAssumption DEF Line
<1>11. ~(c = LF /\ test = CR)
  BY <1>1, <1>7 DEF Tested
<1>12. \/ commandTooLongFlag /\ UNCHANGED storageVars
       \/ Runs(command)
  BY <1>5, <1>11, Zenon
<1>13. Runs(command) => Does(command) /\ StorageStep
  BY <1>3, <1>4, RunsDoes
<1>14. StorageStep
  BY <1>12, <1>13 DEF StorageStep
<1>15. Done(Head(lines))
  <2>1. CASE Len(X) <= MAX_COMMAND_SIZE
    <3>1. ~commandTooLongFlag /\ command = X
      BY <1>m, <1>10, <2>1
    <3>2. Does(X)
      BY <1>12, <1>13, <3>1, Zenon
    <3> QED
      BY <1>6, <2>1, <3>2, Zenon DEF Done
  <2>2. CASE ~(Len(X) <= MAX_COMMAND_SIZE)
    <3>1. command = SubSeq(X, 1, MAX_COMMAND_SIZE)
      BY <1>m, <1>10, <2>2 DEF Held
    <3>2. UNCHANGED storageVars \/ Does(SubSeq(X, 1, MAX_COMMAND_SIZE))
      BY <1>12, <1>13, <3>1, Zenon
    <3> QED
      BY <1>6, <2>2, <3>2, Zenon DEF Done
  <2> QED
    BY <2>1, <2>2
<1> HIDE DEF F
<1>16. Rest' = F
  <2>1. /\ ending \in Seq(All) /\ Len(ending) \in {1, 2}
        /\ (Len(ending) = 2 <=> ending = <<CR, LF>>) /\ (Len(ending) = 2 => ending[2] = LF)
        /\ ending # <<>>
        /\ (Len(ending) = 1 => Tail(ending) = <<>>)
        /\ (Len(ending) = 2 => /\ Tail(ending) # <<>> /\ Head(Tail(ending)) = LF
                               /\ Tail(Tail(ending)) = <<>>)
    BY <1>3, EndingParts, LinesAreInput
  <2>2. rx' = Tail(ending) \o F /\ Tail(ending) \in Seq(All)
    BY <1>4, <1>6, <2>1, HeadTailJoined
  <2>3. CASE Len(ending) = 1
    <3>1. Tail(ending) = <<>>
      BY <2>1, <2>3
    <3>2. rx' = F
      <4>1. <<>> \o F = F
        BY <1>6
      <4> QED
        BY <2>2, <3>1, <4>1
    <3>3. ~Mid'
      <4>1. ending # <<CR, LF>>
        BY <2>1, <2>3
      <4> QED
        BY <1>4, <4>1 DEF Mid
    <3> QED
      BY <3>2, <3>3 DEF Rest
  <2>4. CASE Len(ending) = 2
    <3>1. /\ Tail(ending) # <<>> /\ Head(Tail(ending)) = LF /\ Tail(Tail(ending)) = <<>>
          /\ ending = <<CR, LF>>
      BY <2>1, <2>4
    <3> DEFINE l == Tail(ending)
    <3>a. l \in Seq(All) /\ l # <<>> /\ Head(l) = LF /\ Tail(l) = <<>> /\ F \in Seq(All)
      BY <1>6, <2>2, <3>1
    <3>b. rx' = l \o F
      BY <2>2
    <3> HIDE DEF l
    <3>2. rx' # <<>> /\ Head(rx') = LF /\ Tail(rx') = <<>> \o F
      <4>1. l \o F # <<>> /\ Head(l \o F) = Head(l) /\ Tail(l \o F) = Tail(l) \o F
        BY ONLY <3>a, HeadTailJoined
      <4> QED
        BY <3>a, <3>b, <4>1, Zenon
    <3>3. Mid'
      BY <1>4, <3>1, <3>2 DEF Mid
    <3>4. <<>> \o F = F
      BY <1>6
    <3> QED
      BY <3>2, <3>3, <3>4 DEF Rest
  <2> QED
    BY <2>1, <2>3, <2>4
<1>17. IsRead(<<>>)'
  <2>1. Entered' = <<>> \o Rest'
    BY <1>6, <1>9, <1>16
  <2>2. Held(<<>>) = <<>>
    BY <1>m, HeldIs
  <2> QED
    BY <1>4, <1>m, <2>1, <2>2 DEF IsRead, Held
<1>18. LineType'
  <2>1. test' \in {NUL, CR, LF}
    BY <1>1, <1>4 DEF LineType
  <2>2. rx' \in Seq(Keys \cup {CR, LF})
    BY <1>3, <1>4 DEF All
  <2>3. command' \in Line /\ Len(command') <= MAX_COMMAND_SIZE
    BY <1>4, <1>m
  <2>4. commandTooLongFlag' \in BOOLEAN /\ UNCHANGED <<ending, typed>> /\ lines' \in Seq(Line)
    BY <1>4, <1>6, <1>8
  <2> QED
    BY <1>1, <2>1, <2>2, <2>3, <2>4 DEF LineType
<1>19. Paired'
  <2> SUFFICES ASSUME ending = <<CR, LF>>, NEW i \in 1 .. Len(F), F[i] = LF
               PROVE  i > 1 /\ F[i - 1] = CR
    BY <1>4, <1>9 DEF Paired
  <2> DEFINE h == Head(lines) \o ending
             k == Len(h)
  <2>1. Head(lines) \in Seq(All) /\ ending \in Seq(All)
    BY <1>3, <1>6, LinesAreInput
  <2>2. /\ h \in Seq(All) /\ Len(h) = Len(Head(lines)) + Len(ending)
        /\ \A j \in 1 .. Len(ending) : h[Len(Head(lines)) + j] = ending[j]
    BY ONLY <2>1, Joined
  <2>3. Len(ending) = 2 /\ ending[2] = LF /\ Len(Head(lines)) \in Nat
    BY <2>1
  <2>4. k \in Nat /\ k >= 2 /\ h[k] = LF
    <3>1. 2 \in 1 .. Len(ending) /\ k = Len(Head(lines)) + 2
      BY <2>2, <2>3
    <3> QED
      BY <2>2, <2>3, <3>1
  <2>5. Entered = h \o F
    BY <1>6
  <2>a. h \in Seq(All) /\ F \in Seq(All)
    BY <1>6, <2>2
  <2> HIDE DEF h
  <2>6. /\ \A j \in 1 .. Len(h) : Entered[j] = h[j]
        /\ \A j \in 1 .. Len(F) : Entered[Len(h) + j] = F[j]
        /\ Len(Entered) = Len(h) + Len(F)
    BY <2>5, <2>a, Joined
  <2>7. Entered[k + i] = LF /\ k + i \in 1 .. Len(Entered) /\ i \in Nat /\ i >= 1
    <3>1. i \in Nat /\ i >= 1 /\ Len(F) \in Nat /\ i <= Len(F)
      BY <2>a
    <3>2. Entered[k + i] = F[i]
      BY <2>6
    <3> QED
      BY <2>4, <2>6, <3>1, <3>2
  <2>8. Entered[k + i - 1] = CR
    BY <1>1, <2>7 DEF Paired
  <2>9. CASE i = 1
    <3>1. k + i - 1 = k /\ k \in 1 .. Len(h)
      BY <2>4, <2>9
    <3> QED
      BY <2>4, <2>6, <2>8, <3>1, LinesAreInput
  <2>10. CASE i # 1
    <3>1. k + i - 1 = k + (i - 1) /\ i - 1 \in 1 .. Len(F) /\ i > 1
      BY <2>4, <2>7, <2>10
    <3> QED
      BY <2>6, <2>8, <3>1
  <2> QED
    BY <2>9, <2>10
<1>20. Tested'
  <2>1. c = CR => ending # <<LF>>
    BY <1>3, <1>6, EndingParts, LinesAreInput
  <2> QED
    BY <1>1, <1>4, <2>1 DEF Tested
<1>21. LineInv'
  BY <1>m, <1>17, <1>18, <1>19, <1>20 DEF LineInv
<1> QED
  BY <1>6, <1>8, <1>14, <1>15, <1>21

-----------------------------------------------------------------------------
(* The other steps, and every step.                                         *)

\* The program stops: nothing is read and nothing waits.
LEMMA StepRestarts ==
    ASSUME LineInv, Restarts
    PROVE  LineInv'
<1>1. /\ rx' = <<>> /\ command' = <<>> /\ commandTooLongFlag' = FALSE /\ test' = NUL
      /\ ending' = ending /\ ending \in Endings /\ typed' = <<>> /\ lines' = <<>>
  BY DEF Restarts, LineInv, LineType
<1>2. <<>> \in Line /\ Len(<<>>) = 0 /\ MAX_COMMAND_SIZE \in Nat \ {0}
  BY CommandAssumption DEF Line
<1>3. LineType'
  <2>1. rx' \in Seq(Keys \cup {CR, LF}) /\ lines' \in Seq(Line)
    BY <1>1
  <2>2. command' \in Line /\ Len(command') <= MAX_COMMAND_SIZE /\ typed' \in Line
    BY <1>1, <1>2
  <2> QED
    BY <1>1, <2>1, <2>2 DEF LineType
<1>4. Entered' = <<>>
  BY <1>1, <1>2, EnteredIs, InputNone
<1>5. ~Mid' /\ Rest' = <<>>
  BY <1>1 DEF Mid, Rest
<1>6. Held(<<>>) = <<>>
  BY <1>2, HeldIs
<1>7. <<>> \o <<>> = <<>>
  OBVIOUS
<1>8. IsRead(<<>>)'
  BY <1>1, <1>2, <1>4, <1>5, <1>6, <1>7 DEF IsRead, Held
<1>9. Paired'
  BY <1>4 DEF Paired
<1>10. Tested'
  BY <1>1, LinesAreInput, CommandAssumption DEF Tested
<1> QED
  BY <1>2, <1>3, <1>8, <1>9, <1>10 DEF LineInv

\* The storage's own steps leave the line alone.
LEMMA StepLeavesLine ==
    ASSUME LineInv, UNCHANGED <<rx, lineVars, userVars>>
    PROVE  LineInv'
<1>1. UNCHANGED <<rx, command, commandTooLongFlag, test, ending, typed, lines>>
  BY DEF lineVars, userVars
<1>2. Entered' = Entered
  BY <1>1 DEF Entered
<1>3. (Mid' <=> Mid) /\ Rest' = Rest
  BY <1>1 DEF Mid, Rest
<1>4. PICK X \in Line : IsRead(X)
  BY DEF LineInv
<1>5. IsRead(X)'
  BY <1>1, <1>2, <1>3, <1>4 DEF IsRead
<1>6. LineType' /\ Paired' /\ Tested'
  BY <1>1, <1>2 DEF LineInv, LineType, Paired, Tested
<1> QED
  BY <1>5, <1>6 DEF LineInv

\* No step breaks LineInv, and each is a step of the storage.
LEMMA StepLine ==
    ASSUME LineInv, [Next]_vars
    PROVE  LineInv' /\ StorageStep
<1>1. CASE \E c \in Keys : Types(c)
  <2>1. PICK c \in Keys : Types(c)
    BY <1>1
  <2>2. UNCHANGED storageVars
    BY <2>1 DEF Types
  <2> QED
    BY <2>1, <2>2, StepTypes DEF StorageStep
<1>2. CASE Enters
  <2>1. UNCHANGED storageVars
    BY <1>2 DEF Enters
  <2> QED
    BY <1>2, <2>1, StepEnters DEF StorageStep
<1>3. CASE CLI_task
  <2>1. PICK c \in Keys \cup {CR, LF} : ReadsKey(c) \/ ReadsEnd(c)
    BY <1>3 DEF CLI_task
  <2>2. CASE ReadsKey(c)
    BY <2>2, StepReadsKey DEF StorageStep
  <2>3. CASE ReadsEnd(c) /\ Mid
    BY <2>3, StepReadsLF DEF StorageStep
  <2>4. CASE ReadsEnd(c) /\ ~Mid
    BY <2>4, StepReadsEnd
  <2> QED
    BY <2>1, <2>2, <2>3, <2>4
<1>4. CASE Storage
  <2>1. UNCHANGED <<rx, lineVars, userVars>>
    BY <1>4 DEF Storage
  <2>2. StorageStep
    BY <1>4 DEF Storage, StorageStep
  <2> QED
    BY <2>1, <2>2, StepLeavesLine
<1>5. CASE Restarts
  <2>1. StorageStep
    BY <1>5 DEF Restarts, StorageStep
  <2> QED
    BY <1>5, <2>1, StepRestarts
<1>6. CASE UNCHANGED vars
  <2>1. UNCHANGED <<rx, lineVars, userVars>> /\ UNCHANGED storageVars
    BY <1>6 DEF vars
  <2> QED
    BY <2>1, StepLeavesLine DEF StorageStep
<1> QED
  BY <1>1, <1>2, <1>3, <1>4, <1>5, <1>6 DEF Next

-----------------------------------------------------------------------------
(* The theorems.                                                            *)

\* LineInv holds always.
LEMMA LineInvariant == Spec => []LineInv
<1>1. Init => LineInv
  BY LineStarts
<1>2. LineInv /\ [Next]_vars => LineInv'
  BY StepLine
<1> QED
  BY <1>1, <1>2, PTL DEF Spec

\* CredentialsInv holds always; a command's argument is known from LineInv.
LEMMA CredentialsInvariant == Spec => []CredentialsInv
<1>1. Init => CredentialsInv
  BY StorageStarts DEF Init
<1>2. LineInv /\ CredentialsInv /\ [Next]_vars => CredentialsInv'
  BY StepLine, StepCredentials
<1> QED
  BY <1>1, <1>2, LineInvariant, PTL DEF Spec

\* Every variable of the command line and of the credentials it saves keeps its type;
\* the array command never holds more characters than it has room for.
THEOREM TypeCorrect == Spec => []TypeOK
<1>1. LineInv /\ CredentialsInv => TypeOK
  BY DEF LineInv, CredentialsInv, TypeOK
<1> QED
  BY <1>1, LineInvariant, CredentialsInvariant, PTL

\* Short credentials that a command or a provisioning saved completely are what
\* CREDENTIALS_STORAGE_read gives at every later start, whatever the EEPROM had before and
\* whatever saves were cut off in between by the watchdog.
THEOREM SavedIsReadBack == Spec => []SavedIsRead
<1>1. CredentialsInv => SavedIsRead
  BY DEF CredentialsInv
<1> QED
  BY <1>1, CredentialsInvariant, PTL

\* LineInv says what LineKept does, with the part read by name.
LEMMA KeptIfRead == LineInv => LineKept
<1> SUFFICES ASSUME LineInv PROVE LineKept
  OBVIOUS
<1>1. LineType
  BY DEF LineInv
<1>2. PICK X \in Line : IsRead(X)
  BY DEF LineInv
<1>3. Rest \in Seq(All) /\ Entered \in Seq(All) /\ X \in Seq(All)
  BY <1>1, LineParts, LinesAreInput
<1> DEFINE E == Entered
           r == Rest
           n == Len(X)
<1>4. /\ E = X \o r /\ command = Held(X)
      /\ commandTooLongFlag <=> n > MAX_COMMAND_SIZE
  BY <1>2 DEF IsRead
<1>5. /\ \A i \in 1 .. n : E[i] = X[i]
      /\ \A i \in 1 .. Len(r) : E[n + i] = r[i]
      /\ Len(E) = n + Len(r)
  <2>1. X \in Seq(All) /\ r \in Seq(All)
    BY <1>3
  <2> HIDE DEF r
  <2> QED
    BY <1>4, <2>1, Joined
<1>6. /\ n \in Nat /\ Len(r) \in Nat /\ MAX_COMMAND_SIZE \in Nat \ {0}
      /\ E \in Seq(All) /\ r \in Seq(All)
  BY <1>3, CommandAssumption
<1>7. r = IF rx # <<>> /\ Head(rx) = LF /\ ending = <<CR, LF>> THEN Tail(rx) ELSE rx
  BY DEF Rest, Mid
<1> HIDE DEF E, r, n
<1>8. Len(E) - Len(r) = n
  BY <1>5, <1>6
<1>9. SubSeq(E, n + 1, Len(E)) = r
  <2>1. /\ SubSeq(E, n + 1, Len(E)) \in Seq(All) /\ Len(SubSeq(E, n + 1, Len(E))) = Len(r)
        /\ \A i \in 1 .. Len(r) : SubSeq(E, n + 1, Len(E))[i] = E[n + i]
    BY <1>5, <1>6
  <2> QED
    BY <1>5, <1>6, <2>1, SeqEqual
<1> DEFINE m == IF commandTooLongFlag THEN MAX_COMMAND_SIZE ELSE n
<1>10. Held(X) = SubSeq(E, 1, m)
  <2>1. m \in 0 .. n /\ Held(X) = SubSeq(X, 1, m)
    BY <1>4, <1>6 DEF Held, n
  <2> HIDE DEF m
  <2>2. /\ SubSeq(E, 1, m) \in Seq(All) /\ Len(SubSeq(E, 1, m)) = m
        /\ \A i \in 1 .. m : SubSeq(E, 1, m)[i] = E[i]
    BY <1>5, <1>6, <2>1
  <2>3. /\ SubSeq(X, 1, m) \in Seq(All) /\ Len(SubSeq(X, 1, m)) = m
        /\ \A i \in 1 .. m : SubSeq(X, 1, m)[i] = X[i]
    BY <1>3, <1>6, <2>1 DEF n
  <2>4. \A i \in 1 .. m : SubSeq(X, 1, m)[i] = SubSeq(E, 1, m)[i]
    BY <1>5, <1>6, <2>1, <2>2, <2>3
  <2> QED
    BY <2>1, <2>2, <2>3, <2>4, SeqEqual
<1>11. LineKept <=>
         /\ Len(E) - Len(r) >= 0 /\ SubSeq(E, Len(E) - Len(r) + 1, Len(E)) = r
         /\ commandTooLongFlag <=> Len(E) - Len(r) > MAX_COMMAND_SIZE
         /\ command = SubSeq(E, 1, IF commandTooLongFlag THEN MAX_COMMAND_SIZE
                                   ELSE Len(E) - Len(r))
  BY <1>7, Zenon DEF LineKept, E
<1>12. LineKept <=>
         /\ n >= 0 /\ SubSeq(E, n + 1, Len(E)) = r
         /\ commandTooLongFlag <=> n > MAX_COMMAND_SIZE
         /\ command = SubSeq(E, 1, IF commandTooLongFlag THEN MAX_COMMAND_SIZE ELSE n)
  BY <1>8, <1>11, Zenon
<1>13. n >= 0
  BY <1>6
<1> QED
  BY <1>4, <1>9, <1>10, <1>12, <1>13, Zenon

\* CLI_task loses no character of the user's lines and reads none twice, for lines of
\* any length, arrays of any size and the three ways a terminal ends its lines.
THEOREM LinesKept == Spec => []LineKept
<1> QED
  BY KeptIfRead, LineInvariant, PTL

\* What a step of CLI_task does to the lines and to the storage: LinesRun of one step.
LEMMA StepRunsLine ==
    ASSUME LineInv, CLI_task, lines' # lines \/ ~UNCHANGED storageVars
    PROVE  lines # <<>> /\ lines' = Tail(lines) /\ Done(Head(lines))
<1>1. PICK c \in Keys \cup {CR, LF} : ReadsKey(c) \/ ReadsEnd(c)
  BY DEF CLI_task
<1>2. ~ReadsKey(c)
  BY StepReadsKey
<1>3. ~(ReadsEnd(c) /\ Mid)
  BY StepReadsLF
<1> QED
  BY <1>1, <1>2, <1>3, StepReadsEnd

\* Each line the user enters is run once and in order: the CR and LF of one line run it
\* once, no line is left out and nothing else is run but an empty line.
THEOREM LinesAreRun == Spec => LinesRun
<1>1. LineInv /\ [Next]_vars =>
        [CLI_task /\ (lines' # lines \/ ~UNCHANGED storageVars)
         => /\ lines # <<>> /\ lines' = Tail(lines)
            /\ LET t == Head(lines)
               IN  IF Len(t) <= MAX_COMMAND_SIZE THEN Does(t)
                   ELSE \/ UNCHANGED storageVars
                        \/ Does(SubSeq(t, 1, MAX_COMMAND_SIZE))]_vars
  <2> SUFFICES ASSUME LineInv, CLI_task, lines' # lines \/ ~UNCHANGED storageVars
               PROVE  /\ lines # <<>> /\ lines' = Tail(lines)
                      /\ LET t == Head(lines)
                         IN  IF Len(t) <= MAX_COMMAND_SIZE THEN Does(t)
                             ELSE \/ UNCHANGED storageVars
                                  \/ Does(SubSeq(t, 1, MAX_COMMAND_SIZE))
    BY Zenon
  <2> QED
    BY StepRunsLine, Zenon DEF Done
<1> QED
  BY <1>1, LineInvariant, PTL DEF Spec, LinesRun

=============================================================================
