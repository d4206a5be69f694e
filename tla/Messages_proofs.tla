--------------------------- MODULE Messages_proofs ---------------------------
(* The application gets the text of a message as it was sent, finds the     *)
(* values of its keys, and sets the lights as it says: the packet's way     *)
(* through the exchange buffer, for buffers of any size, any topic and any  *)
(* objects.                                                                 *)
EXTENDS Messages, JsonReader_proofs

-----------------------------------------------------------------------------
(* The exchange buffer: what its operations do to the content of a buffer.    *)
(* The ring behaves as the sequence of its bytes.                             *)

\* the parts of a buffer
LEMMA Parts ==
    ASSUME NEW Byte, NEW n \in Nat \ {0}, NEW b \in Buffer(n, Byte)
    PROVE  /\ b.start \in [0 .. n - 1 -> Byte] /\ b.bufferLength = n
           /\ b.currentLocation \in 0 .. n - 1 /\ b.dataLength \in 0 .. n
BY SMT DEF Buffer

\* a buffer with other bytes is one
LEMMA ChangedIn ==
    ASSUME NEW Byte, NEW n \in Nat \ {0}, NEW b \in Buffer(n, Byte),
           NEW s \in [0 .. n - 1 -> Byte], NEW c \in 0 .. n - 1, NEW k \in 0 .. n
    PROVE  Changed(b, s, c, k) \in Buffer(n, Byte)
BY Parts DEF Changed, Buffer

\* what Changed changes
LEMMA ChangedParts ==
    ASSUME NEW b, NEW s, NEW c, NEW k
    PROVE  /\ Changed(b, s, c, k).start = s /\ Changed(b, s, c, k).bufferLength = b.bufferLength
           /\ Changed(b, s, c, k).currentLocation = c /\ Changed(b, s, c, k).dataLength = k
BY DEF Changed

\* within the ring a location and its distance are the same
LEMMA Locations ==
    ASSUME NEW Byte, NEW n \in Nat \ {0}, NEW b \in Buffer(n, Byte), NEW i \in 0 .. n - 1
    PROVE  Location(b, i) \in 0 .. n - 1 /\ Distance(b, Location(b, i)) = i
<1> DEFINE c == b.currentLocation
<1>1. b.bufferLength = n /\ c \in 0 .. n - 1
  BY Parts
<1>2. Location(b, i) = IF c + i >= n THEN c + i - n ELSE c + i
  BY <1>1 DEF Location
<1>3. \A a : Distance(b, a) = IF a >= c THEN a - c ELSE a - c + n
  BY <1>1 DEF Distance
<1> HIDE DEF c
<1> QED BY <1>1, <1>2, <1>3

\* the location i bytes behind the one k bytes behind the first
LEMMA LocationBehind ==
    ASSUME NEW Byte, NEW n \in Nat \ {0}, NEW b \in Buffer(n, Byte),
           NEW k \in Nat, NEW i \in Nat, k + i < n,
           NEW w, w.bufferLength = n, w.currentLocation = Location(b, k)
    PROVE  Location(w, i) = Location(b, k + i)
<1> DEFINE c == b.currentLocation
           d == w.currentLocation
<1>1. b.bufferLength = n /\ c \in 0 .. n - 1
  BY Parts
<1>2. d = IF c + k >= n THEN c + k - n ELSE c + k
  BY <1>1 DEF Location
<1>3. Location(b, k + i) = IF c + (k + i) >= n THEN c + (k + i) - n ELSE c + (k + i)
  BY <1>1 DEF Location
<1>4. Location(w, i) = IF d + i >= n THEN d + i - n ELSE d + i
  BY DEF Location
<1> HIDE DEF c, d
<1> QED BY <1>1, <1>2, <1>3, <1>4

\* two sequences with the elements of a third are it
LEMMA Joined ==
    ASSUME NEW Byte, NEW x \in Seq(Byte), NEW y \in Seq(Byte), NEW z \in Seq(Byte),
           Len(z) = Len(x) + Len(y),
           \A i \in 1 .. Len(z) : z[i] = IF i <= Len(x) THEN x[i] ELSE y[i - Len(x)]
    PROVE  z = x \o y
<1>1. /\ x \o y \in Seq(Byte) /\ Len(z) = Len(x \o y)
      /\ \A i \in 1 .. Len(z) : (x \o y)[i] = IF i <= Len(x) THEN x[i] ELSE y[i - Len(x)]
  BY ConcatProperties
<1>2. \A i \in 1 .. Len(z) : z[i] = (x \o y)[i]
  BY <1>1
<1> QED BY <1>1, <1>2, SeqEqual

\* the content of a buffer: its length and its bytes
LEMMA ContentBytes ==
    ASSUME NEW Byte, NEW n \in Nat \ {0}, NEW b \in Buffer(n, Byte)
    PROVE  /\ Content(b) \in Seq(Byte) /\ Len(Content(b)) = b.dataLength
           /\ \A i \in 1 .. b.dataLength :
                /\ Location(b, i - 1) \in 0 .. n - 1
                /\ Content(b)[i] = b.start[Location(b, i - 1)]
<1>1. /\ b.start \in [0 .. n - 1 -> Byte] /\ b.bufferLength = n
      /\ b.currentLocation \in 0 .. n - 1 /\ b.dataLength \in 0 .. n
  BY Parts
<1>2. \A i \in 1 .. b.dataLength : Location(b, i - 1) \in 0 .. n - 1
  BY <1>1 DEF Location
<1>3. Content(b) = [i \in 1 .. b.dataLength |-> b.start[Location(b, i - 1)]]
  BY <1>1 DEF Content, ExchangeBufferData, Least
<1>4. \A i \in 1 .. b.dataLength : b.start[Location(b, i - 1)] \in Byte
  BY <1>1, <1>2
<1>5. b.dataLength \in Nat
  BY <1>1
<1> DEFINE c == Content(b)
<1> HIDE DEF c
<1>6. c = [i \in 1 .. b.dataLength |-> b.start[Location(b, i - 1)]]
  BY <1>3 DEF c
<1>7. c \in Seq(Byte) /\ Len(c) = b.dataLength
  BY <1>4, <1>5, <1>6
<1>8. \A i \in 1 .. b.dataLength : c[i] = b.start[Location(b, i - 1)]
  BY <1>6
<1> QED BY <1>2, <1>7, <1>8 DEF c

\* an initialised buffer is empty
LEMMA InitEmpties ==
    ASSUME NEW Byte, NEW n \in Nat \ {0}, NEW b \in Buffer(n, Byte)
    PROVE  /\ ExchangeBufferInit(b) \in Buffer(n, Byte)
           /\ ExchangeBufferInit(b).dataLength = 0
<1> DEFINE w == ExchangeBufferInit(b)
<1>1. w = Changed(b, b.start, 0, 0)
  BY DEF ExchangeBufferInit
<1>2. b.start \in [0 .. n - 1 -> Byte] /\ 0 \in 0 .. n - 1 /\ 0 \in 0 .. n
  BY Parts
<1> HIDE DEF w
<1>3. w \in Buffer(n, Byte) /\ w.dataLength = 0
  BY <1>1, <1>2, ChangedIn, ChangedParts
<1> QED BY <1>3 DEF w

\* A write appends what there is room for, wherever the ring begins.
THEOREM WriteAppends ==
    ASSUME NEW Byte, NEW n \in Nat \ {0}, NEW b \in Buffer(n, Byte), NEW d \in Seq(Byte)
    PROVE  /\ ExchangeBufferWrite(b, d) \in Buffer(n, Byte)
           /\ Content(ExchangeBufferWrite(b, d)) =
                Content(b) \o SubSeq(d, 1, Least(Len(d), n - b.dataLength))
<1> DEFINE k == Least(Len(d), n - b.dataLength)
           written(a) == Distance(b, a) - b.dataLength + 1
           start == [a \in 0 .. n - 1 |-> IF written(a) \in 1 .. k THEN d[written(a)] ELSE b.start[a]]
           w == ExchangeBufferWrite(b, d)
<1>1. /\ b.start \in [0 .. n - 1 -> Byte] /\ b.bufferLength = n
      /\ b.currentLocation \in 0 .. n - 1 /\ b.dataLength \in 0 .. n
  BY Parts
<1>2. k \in 0 .. Len(d) /\ k \in 0 .. n - b.dataLength /\ b.dataLength + k \in 0 .. n
  BY <1>1 DEF Least
<1>3. w = Changed(b, start, b.currentLocation, b.dataLength + k)
  BY <1>1 DEF ExchangeBufferWrite
<1>4. start \in [0 .. n - 1 -> Byte]
  BY <1>1, <1>2 DEF Distance
<1> HIDE DEF k, start, w
<1>5. /\ w \in Buffer(n, Byte)
      /\ w.start = start /\ w.dataLength = b.dataLength + k /\ w.bufferLength = n
      /\ w.currentLocation = b.currentLocation
  <2>1. b.currentLocation \in 0 .. n - 1
    BY <1>1
  <2>2. b.dataLength + k \in 0 .. n
    BY <1>2
  <2>3. w \in Buffer(n, Byte)
    BY <1>3, <1>4, <2>1, <2>2, ChangedIn
  <2> QED BY <1>1, <1>3, <2>3, ChangedParts
<1>6. /\ Content(w) \in Seq(Byte) /\ Len(Content(w)) = b.dataLength + k
      /\ \A i \in 1 .. b.dataLength + k : Content(w)[i] = w.start[Location(w, i - 1)]
  BY <1>5, ContentBytes, SMTT(30)
<1>7. /\ Content(b) \in Seq(Byte) /\ Len(Content(b)) = b.dataLength
      /\ \A i \in 1 .. b.dataLength : Content(b)[i] = b.start[Location(b, i - 1)]
  BY ContentBytes
<1>8. \A i \in 1 .. b.dataLength + k :
         /\ Location(w, i - 1) = Location(b, i - 1)
         /\ Location(b, i - 1) \in 0 .. n - 1
         /\ written(Location(b, i - 1)) = i - b.dataLength
  <2>1. ASSUME NEW i \in 1 .. b.dataLength + k
        PROVE  Location(w, i - 1) = Location(b, i - 1)
    BY <1>1, <1>5 DEF Location
  <2>2. ASSUME NEW i \in 1 .. b.dataLength + k
        PROVE  i - 1 \in 0 .. n - 1
    BY <1>1, <1>2
  <2>3. ASSUME NEW i \in 1 .. b.dataLength + k
        PROVE  Location(b, i - 1) \in 0 .. n - 1 /\ Distance(b, Location(b, i - 1)) = i - 1
    BY <2>2, Locations
  <2>4. ASSUME NEW i \in 1 .. b.dataLength + k
        PROVE  written(Location(b, i - 1)) = i - b.dataLength
    BY <1>1, <1>2, <2>3
  <2> QED BY <2>1, <2>3, <2>4
<1>9. ASSUME NEW i \in 1 .. b.dataLength + k
      PROVE  Content(w)[i] = IF i <= b.dataLength THEN Content(b)[i] ELSE d[i - b.dataLength]
  <2>1. Content(w)[i] = start[Location(b, i - 1)] /\ Location(b, i - 1) \in 0 .. n - 1
    BY <1>5, <1>6, <1>8
  <2>2. Content(w)[i] = IF i - b.dataLength \in 1 .. k THEN d[i - b.dataLength]
                        ELSE b.start[Location(b, i - 1)]
    BY <2>1, <1>8 DEF start
  <2>3. b.dataLength \in Nat /\ k \in Nat
    BY <1>1, <1>2
  <2>4. i - b.dataLength \in 1 .. k <=> ~(i <= b.dataLength)
    BY <2>3
  <2>5. i <= b.dataLength => Content(b)[i] = b.start[Location(b, i - 1)]
    BY <1>7, <2>3
  <2> QED BY <2>2, <2>4, <2>5
<1>10. /\ SubSeq(d, 1, k) \in Seq(Byte) /\ Len(SubSeq(d, 1, k)) = k
       /\ \A i \in 1 .. k : SubSeq(d, 1, k)[i] = d[i]
  BY <1>2
<1>11. \A i \in 1 .. b.dataLength + k :
          Content(w)[i] = IF i <= b.dataLength THEN Content(b)[i] ELSE SubSeq(d, 1, k)[i - b.dataLength]
  <2>1. ASSUME NEW i \in 1 .. b.dataLength + k, i <= b.dataLength
        PROVE  Content(w)[i] = Content(b)[i]
    BY <1>9, <2>1
  <2>2. ASSUME NEW i \in 1 .. b.dataLength + k, ~(i <= b.dataLength)
        PROVE  Content(w)[i] = SubSeq(d, 1, k)[i - b.dataLength]
    <3>1. b.dataLength \in Nat /\ k \in Nat
      BY <1>1, <1>2
    <3>2. i - b.dataLength \in 1 .. k
      BY <2>2, <3>1
    <3>3. SubSeq(d, 1, k)[i - b.dataLength] = d[i - b.dataLength]
      BY <1>10, <3>2
    <3> QED BY <1>9, <2>2, <3>3
  <2> QED BY <2>1, <2>2
<1>12. Content(w) = Content(b) \o SubSeq(d, 1, k)
  <2> DEFINE x == Content(b)
             y == SubSeq(d, 1, k)
             z == Content(w)
  <2>1. x \in Seq(Byte) /\ y \in Seq(Byte) /\ z \in Seq(Byte)
    BY <1>6, <1>7, <1>10
  <2>2. Len(z) = Len(x) + Len(y)
    BY <1>6, <1>7, <1>10
  <2>3. \A i \in 1 .. Len(z) : z[i] = IF i <= Len(x) THEN x[i] ELSE y[i - Len(x)]
    BY <1>6, <1>7, <1>11
  <2> HIDE DEF x, y, z
  <2>4. z = x \o y
    BY <2>1, <2>2, <2>3, Joined
  <2> QED BY <2>4 DEF x, y, z
<1> QED BY <1>5, <1>12 DEF w, k

\* A read takes bytes from the front, and leaves the others.
THEOREM ReadTakes ==
    ASSUME NEW Byte, NEW n \in Nat \ {0}, NEW b \in Buffer(n, Byte), NEW m \in Nat
    PROVE  /\ ExchangeBufferRead(b, m) \in Buffer(n, Byte)
           /\ ExchangeBufferData(b, m) \in Seq(Byte)
           /\ Content(b) = ExchangeBufferData(b, m) \o Content(ExchangeBufferRead(b, m))
           /\ Len(ExchangeBufferData(b, m)) = Least(m, Len(Content(b)))
<1> DEFINE k == Least(m, b.dataLength)
           w == ExchangeBufferRead(b, m)
           r == ExchangeBufferData(b, m)
<1>1. /\ b.start \in [0 .. n - 1 -> Byte] /\ b.bufferLength = n
      /\ b.currentLocation \in 0 .. n - 1 /\ b.dataLength \in 0 .. n
  BY Parts
<1>2. k \in 0 .. b.dataLength /\ b.dataLength - k \in 0 .. n
  BY <1>1 DEF Least
<1>3. w = Changed(b, b.start, Location(b, k), b.dataLength - k)
  BY DEF ExchangeBufferRead
<1>4. r = [i \in 1 .. k |-> b.start[Location(b, i - 1)]]
  BY DEF ExchangeBufferData
<1>5. Location(b, k) \in 0 .. n - 1
  <2>1. k \in 0 .. n
    BY <1>1, <1>2
  <2>2. /\ b.bufferLength = n /\ b.currentLocation \in 0 .. n - 1
        /\ Location(b, k) = IF b.currentLocation + k >= b.bufferLength
                            THEN b.currentLocation + k - b.bufferLength
                            ELSE b.currentLocation + k
    BY <1>1 DEF Location
  <2> HIDE DEF k
  <2> QED BY <2>1, <2>2
<1> HIDE DEF k, w, r
<1>6. /\ w \in Buffer(n, Byte)
      /\ w.start = b.start /\ w.dataLength = b.dataLength - k /\ w.bufferLength = n
      /\ w.currentLocation = Location(b, k)
  <2>1. b.start \in [0 .. n - 1 -> Byte]
    BY <1>1
  <2>2. b.dataLength - k \in 0 .. n
    BY <1>2
  <2>3. w \in Buffer(n, Byte)
    BY <1>3, <1>5, <2>1, <2>2, ChangedIn
  <2> QED BY <1>1, <1>3, <2>3, ChangedParts
<1>7. /\ Content(w) \in Seq(Byte) /\ Len(Content(w)) = b.dataLength - k
      /\ \A i \in 1 .. b.dataLength - k : Content(w)[i] = b.start[Location(w, i - 1)]
  BY <1>6, ContentBytes
<1>8. /\ Content(b) \in Seq(Byte) /\ Len(Content(b)) = b.dataLength
      /\ \A i \in 1 .. b.dataLength : /\ Content(b)[i] = b.start[Location(b, i - 1)]
                                      /\ Content(b)[i] \in Byte
  BY ContentBytes
<1>9. r \in Seq(Byte) /\ Len(r) = k /\ \A i \in 1 .. k : r[i] = Content(b)[i]
  <2>1. k \in Nat /\ \A i \in 1 .. k : i \in 1 .. b.dataLength
    BY <1>1, <1>2
  <2>2. \A i \in 1 .. k : b.start[Location(b, i - 1)] = Content(b)[i]
    BY <1>8, <2>1
  <2>3. \A i \in 1 .. k : b.start[Location(b, i - 1)] \in Byte
    BY <1>8, <2>1, <2>2
  <2> QED BY <1>4, <2>1, <2>2, <2>3, LenProperties
<1>10. ASSUME NEW i \in 1 .. b.dataLength - k
       PROVE  Content(w)[i] = Content(b)[k + i]
  <2> DEFINE j == b.dataLength
  <2>1. j \in 0 .. n /\ k \in 0 .. j
    BY <1>1, <1>2
  <2> HIDE DEF j
  <2>2. i \in 1 .. j - k
    BY DEF j
  <2>3. k \in Nat /\ i - 1 \in Nat /\ k + (i - 1) < n
    BY <2>1, <2>2
  <2>4. k + i \in 1 .. j /\ k + (i - 1) = (k + i) - 1
    BY <2>1, <2>2
  <2>5. Location(w, i - 1) = Location(b, k + (i - 1))
    BY <1>6, <2>3, LocationBehind
  <2>6. Content(w)[i] = b.start[Location(b, (k + i) - 1)]
    BY <1>7, <2>4, <2>5
  <2>7. Content(b)[k + i] = b.start[Location(b, (k + i) - 1)]
    BY <1>8, <2>4 DEF j
  <2> QED BY <2>6, <2>7
<1>11. /\ Len(Content(b)) = Len(r) + Len(Content(w))
       /\ \A i \in 1 .. Len(Content(b)) :
            Content(b)[i] = IF i <= Len(r) THEN r[i] ELSE Content(w)[i - Len(r)]
  <2>1. Len(Content(b)) = Len(r) + Len(Content(w))
    BY <1>1, <1>2, <1>7, <1>8, <1>9
  <2>2. ASSUME NEW i \in 1 .. b.dataLength, i > k
        PROVE  Content(b)[i] = Content(w)[i - k]
    <3>1. i - k \in 1 .. b.dataLength - k /\ k + (i - k) = i
      BY <1>1, <1>2, <2>2
    <3> QED BY <1>10, <3>1
  <2> QED BY <1>1, <1>2, <1>8, <1>9, <2>1, <2>2
<1>12. Content(b) = r \o Content(w)
  BY <1>7, <1>8, <1>9, <1>11, Joined
<1>13. Len(r) = Least(m, Len(Content(b)))
  BY <1>8, <1>9 DEF k
<1> QED BY <1>6, <1>9, <1>12, <1>13 DEF w, r

-----------------------------------------------------------------------------
(* What is known of the constants, and of reads and writes of the buffer.     *)

\* what is known of the constants, without their sets
LEMMA Bounds ==
    /\ RX_BUFF_SIZE \in Nat \ {0} /\ LengthBase \in Nat /\ TOPIC_SIZE \in Nat
    /\ LengthBase > 4 /\ 2 * LengthBase <= RX_BUFF_SIZE
    /\ Len(Topic) \in Nat \ {0} /\ Len(Topic) <= TOPIC_SIZE /\ Len(Topic) < 2 * LengthBase
<1>1. Topic \in Seq(Words) /\ Topic # <<>>
  BY MessagesAssumption
<1>2. Len(Topic) \in Nat \ {0}
  BY <1>1
<1> QED BY <1>2, MessagesAssumption

\* ... and of the topic and the keys
LEMMA TopicBytes ==
    Topic \in Seq(Nat) /\ Topic \in Seq(Words) /\ RedKey \in Seq(Words) /\ YellowKey \in Seq(Words)
BY MessagesAssumption, WordsAssumption, SeqMonotonic

\* ... and of a message
LEMMA TextBytes ==
    ASSUME NEW m \in Message
    PROVE  /\ m.object \in Seq(PairType) /\ m.space \in Seq({Space})
           /\ MessageText(m) \in Seq(Nat)
<1>1. m.object \in Seq(PairType) /\ m.space \in Seq({Space})
  BY MessagesAssumption DEF Message, ObjectType
<1> QED BY <1>1, ObjectLaid DEF MessageText

\* what is known of two sequences joined
LEMMA Appended ==
    ASSUME NEW x \in Seq(Nat), NEW y \in Seq(Nat)
    PROVE  /\ x \o y \in Seq(Nat) /\ Len(x) \in Nat /\ Len(y) \in Nat
           /\ Len(x \o y) = Len(x) + Len(y)
BY ConcatProperties

\* ReadTakes, of the receive buffer
LEMMA Reads ==
    ASSUME NEW b \in Buffer(RX_BUFF_SIZE, Nat), NEW k \in Nat
    PROVE  /\ ExchangeBufferRead(b, k) \in Buffer(RX_BUFF_SIZE, Nat)
           /\ ExchangeBufferData(b, k) \in Seq(Nat)
           /\ Content(b) = ExchangeBufferData(b, k) \o Content(ExchangeBufferRead(b, k))
           /\ Len(ExchangeBufferData(b, k)) = Least(k, Len(Content(b)))
BY Bounds, ReadTakes

\* ... and WriteAppends
LEMMA Writes ==
    ASSUME NEW b \in Buffer(RX_BUFF_SIZE, Nat), NEW d \in Seq(Nat)
    PROVE  /\ ExchangeBufferWrite(b, d) \in Buffer(RX_BUFF_SIZE, Nat)
           /\ Content(ExchangeBufferWrite(b, d)) =
                Content(b) \o SubSeq(d, 1, Least(Len(d), RX_BUFF_SIZE - b.dataLength))
BY Bounds, WriteAppends

\* the first byte of a buffer's content, as a number
LEMMA NumberType ==
    ASSUME NEW b \in Buffer(RX_BUFF_SIZE, Nat)
    PROVE  NumberIn(b) \in Nat
<1> DEFINE r == ExchangeBufferData(b, 1)
<1>1. r \in Seq(Nat) /\ Len(r) = Least(1, Len(Content(b)))
  BY Reads
<1>2. Len(Content(b)) = b.dataLength /\ b.dataLength \in Nat
  BY Bounds, ContentBytes, Parts
<1> HIDE DEF r
<1>3. CASE b.dataLength = 0
  BY <1>3 DEF NumberIn
<1>4. CASE b.dataLength # 0
  <2>1. Len(r) = 1
    BY <1>1, <1>2, <1>4 DEF Least
  <2>2. 1 \in 1 .. Len(r)
    BY <2>1
  <2>3. r[1] \in Nat
    BY <1>1, <2>2, ElementOfSeq
  <2>4. NumberIn(b) = r[1]
    BY <1>4 DEF NumberIn, r
  <2> QED BY <2>3, <2>4
<1> QED BY <1>3, <1>4

\* two ways to cut a sequence at one place
LEMMA SameCut ==
    ASSUME NEW Byte, NEW x \in Seq(Byte), NEW y \in Seq(Byte),
           NEW r \in Seq(Byte), NEW s \in Seq(Byte),
           r \o s = x \o y, Len(r) = Len(x)
    PROVE  r = x /\ s = y
<1>1. /\ Len(r \o s) = Len(r) + Len(s) /\ Len(x \o y) = Len(x) + Len(y)
      /\ \A i \in 1 .. Len(r) + Len(s) : (r \o s)[i] = IF i <= Len(r) THEN r[i] ELSE s[i - Len(r)]
      /\ \A i \in 1 .. Len(x) + Len(y) : (x \o y)[i] = IF i <= Len(x) THEN x[i] ELSE y[i - Len(x)]
  BY ConcatProperties
<1>2. Len(s) = Len(y) /\ Len(x) \in Nat /\ Len(y) \in Nat
  BY <1>1
<1>3. ASSUME NEW i \in 1 .. Len(x) PROVE r[i] = x[i]
  <2>1. i \in 1 .. Len(x) + Len(y) /\ i <= Len(x)
    BY <1>2
  <2> QED BY <1>1, <1>2, <2>1
<1>4. ASSUME NEW i \in 1 .. Len(y) PROVE s[i] = y[i]
  <2>1. Len(x) + i \in 1 .. Len(x) + Len(y) /\ ~(Len(x) + i <= Len(x)) /\ (Len(x) + i) - Len(x) = i
    BY <1>2
  <2> QED BY <1>1, <1>2, <2>1
<1>5. r = x
  BY <1>3, SeqEqual
<1>6. s = y
  BY <1>2, <1>4, SeqEqual
<1> QED BY <1>5, <1>6

\* A read of as many bytes as the first part of a content has takes that part.
LEMMA TakesPart ==
    ASSUME NEW b \in Buffer(RX_BUFF_SIZE, Nat),
           NEW x \in Seq(Nat), NEW y \in Seq(Nat), Content(b) = x \o y
    PROVE  /\ ExchangeBufferRead(b, Len(x)) \in Buffer(RX_BUFF_SIZE, Nat)
           /\ ExchangeBufferData(b, Len(x)) = x
           /\ Content(ExchangeBufferRead(b, Len(x))) = y
<1> DEFINE k == Len(x)
           r == ExchangeBufferData(b, k)
           w == ExchangeBufferRead(b, k)
<1>1. k \in Nat
  OBVIOUS
<1>2. Len(y) \in Nat /\ Len(Content(b)) = k + Len(y)
  BY Appended
<1> HIDE DEF k
<1>3. w \in Buffer(RX_BUFF_SIZE, Nat) /\ r \in Seq(Nat) /\ Content(b) = r \o Content(w)
      /\ Len(r) = Least(k, Len(Content(b)))
  BY <1>1, Reads
<1> HIDE DEF r, w
<1>4. Len(r) = k
  BY <1>1, <1>2, <1>3 DEF Least
<1>5. Content(w) \in Seq(Nat)
  BY <1>3, Bounds, ContentBytes
<1>6. r = x /\ Content(w) = y
  BY <1>3, <1>4, <1>5, SameCut DEF k
<1> QED BY <1>3, <1>6 DEF r, w, k

\* ... and of one byte, as a number
LEMMA TakesNumber ==
    ASSUME NEW b \in Buffer(RX_BUFF_SIZE, Nat), NEW k \in Nat, NEW y \in Seq(Nat),
           Content(b) = <<k>> \o y
    PROVE  /\ ExchangeBufferRead(b, 1) \in Buffer(RX_BUFF_SIZE, Nat)
           /\ NumberIn(b) = k
           /\ Content(ExchangeBufferRead(b, 1)) = y
<1> DEFINE x == <<k>>
<1>1. x \in Seq(Nat) /\ Len(x) = 1 /\ x[1] = k
  OBVIOUS
<1> HIDE DEF x
<1>2. x \in Seq(Nat) /\ Content(b) = x \o y
  BY <1>1 DEF x
<1>3. /\ ExchangeBufferRead(b, Len(x)) \in Buffer(RX_BUFF_SIZE, Nat)
      /\ ExchangeBufferData(b, Len(x)) = x
      /\ Content(ExchangeBufferRead(b, Len(x))) = y
  BY <1>2, TakesPart, Zenon
<1>4. /\ ExchangeBufferRead(b, 1) \in Buffer(RX_BUFF_SIZE, Nat)
      /\ ExchangeBufferData(b, 1) = x
      /\ Content(ExchangeBufferRead(b, 1)) = y
  BY <1>1, <1>3, Zenon
<1>5. Len(Content(b)) = 1 + Len(y) /\ Len(y) \in Nat
  BY <1>1, <1>2, Appended
<1>6. Len(Content(b)) = b.dataLength
  BY Bounds, ContentBytes
<1>7. b.dataLength # 0
  BY <1>5, <1>6
<1>8. NumberIn(b) = x[1]
  BY <1>4, <1>7 DEF NumberIn
<1> QED BY <1>1, <1>4, <1>8

\* the characters of two sequences joined
LEMMA JoinedAt ==
    ASSUME NEW x \in Seq(Nat), NEW y \in Seq(Nat), NEW i \in Nat \ {0}
    PROVE  At(x \o y, i) = IF i <= Len(x) THEN At(x, i) ELSE At(y, i - Len(x))
<1> DEFINE z == x \o y
<1>1. /\ Len(z) = Len(x) + Len(y) /\ Len(x) \in Nat /\ Len(y) \in Nat
      /\ \A j \in 1 .. Len(x) + Len(y) : z[j] = IF j <= Len(x) THEN x[j] ELSE y[j - Len(x)]
  BY ConcatProperties
<1> HIDE DEF z
<1>2. CASE i <= Len(x)
  <2>1. i \in 1 .. Len(x) /\ i \in 1 .. Len(x) + Len(y) /\ i \in 1 .. Len(z)
    BY <1>1, <1>2
  <2> QED BY <1>1, <1>2, <2>1 DEF At, z
<1>3. CASE ~(i <= Len(x))
  <2>1. i \in 1 .. Len(z) <=> i - Len(x) \in 1 .. Len(y)
    BY <1>1, <1>3
  <2>2. i \in 1 .. Len(z) => z[i] = y[i - Len(x)]
    BY <1>1, <1>3
  <2> QED BY <1>3, <2>1, <2>2 DEF At, z
<1> QED BY <1>2, <1>3

\* What a read takes and leaves, byte by byte: there are zeros behind the content.
LEMMA ReadAt ==
    ASSUME NEW b \in Buffer(RX_BUFF_SIZE, Nat), NEW k \in Nat
    PROVE  LET w == ExchangeBufferRead(b, k)
               r == ExchangeBufferData(b, k)
           IN  /\ w \in Buffer(RX_BUFF_SIZE, Nat) /\ r \in Seq(Nat)
               /\ Content(b) \in Seq(Nat) /\ Len(Content(b)) \in Nat
               /\ Len(Content(w)) = Len(Content(b)) - Least(k, Len(Content(b)))
               /\ Len(r) = Least(k, Len(Content(b)))
               /\ \A i \in Nat \ {0} : At(Content(w), i) = At(Content(b), k + i)
               /\ \A i \in Nat \ {0} : i <= k => At(r, i) = At(Content(b), i)
<1> DEFINE w == ExchangeBufferRead(b, k)
           r == ExchangeBufferData(b, k)
           c == Content(b)
           d == Content(w)
<1>1. w \in Buffer(RX_BUFF_SIZE, Nat) /\ r \in Seq(Nat) /\ c = r \o d /\ Len(r) = Least(k, Len(c))
  BY Reads
<1>2. c \in Seq(Nat)
  BY Bounds, ContentBytes
<1> HIDE DEF w
<1>3. d \in Seq(Nat)
  BY <1>1, Bounds, ContentBytes
<1> HIDE DEF r, c, d
<1>4. Len(c) = Len(r) + Len(d) /\ Len(c) \in Nat /\ Len(r) \in Nat /\ Len(d) \in Nat
  BY <1>1, <1>2, <1>3, Appended
<1>5. \A i \in Nat \ {0} : At(c, i) = IF i <= Len(r) THEN At(r, i) ELSE At(d, i - Len(r))
  BY <1>1, <1>3, JoinedAt
<1>6. \A s \in Seq(Nat), i \in Nat : i > Len(s) => At(s, i) = NUL
  BY DEF At
<1>7. ASSUME NEW i \in Nat \ {0} PROVE At(d, i) = At(c, k + i)
  <2>1. CASE k <= Len(c)
    <3>1. Len(r) = k /\ k + i \in Nat \ {0} /\ ~(k + i <= Len(r)) /\ (k + i) - Len(r) = i
      BY <1>1, <1>4, <2>1 DEF Least
    <3>2. At(c, k + i) = At(d, (k + i) - Len(r))
      BY <1>5, <3>1
    <3> QED BY <3>1, <3>2
  <2>2. CASE ~(k <= Len(c))
    <3>1. Len(r) = Len(c)
      BY <1>1, <1>4, <2>2 DEF Least
    <3>2. i > Len(d) /\ k + i > Len(c) /\ k + i \in Nat
      BY <1>4, <2>2, <3>1
    <3> QED BY <1>2, <1>3, <1>6, <3>2
  <2> QED BY <2>1, <2>2
<1>8. ASSUME NEW i \in Nat \ {0}, i <= k PROVE At(r, i) = At(c, i)
  <2>1. CASE i <= Len(r)
    BY <1>5, <2>1
  <2>2. CASE ~(i <= Len(r))
    <3>1. i > Len(r) /\ i > Len(c)
      BY <1>1, <1>4, <1>8, <2>2 DEF Least
    <3> QED BY <1>1, <1>2, <1>6, <3>1
  <2> QED BY <2>1, <2>2
<1>9. Len(d) = Len(c) - Least(k, Len(c))
  BY <1>1, <1>4
<1> QED BY <1>1, <1>2, <1>4, <1>7, <1>8, <1>9 DEF w, r, c, d

\* the number that is read of a content, zero when there is none
LEMMA NumberAt ==
    ASSUME NEW b \in Buffer(RX_BUFF_SIZE, Nat)
    PROVE  NumberIn(b) = At(Content(b), 1) /\ NumberIn(b) \in Nat
<1> DEFINE r == ExchangeBufferData(b, 1)
           n == Len(Content(b))
<1>1. n = b.dataLength /\ n \in Nat /\ Content(b) \in Seq(Nat)
  BY Bounds, ContentBytes, Parts
<1>2. r \in Seq(Nat) /\ Len(r) = Least(1, n) /\ At(r, 1) = At(Content(b), 1)
  <2> DEFINE k == 1
  <2>1. k \in Nat /\ 1 \in Nat \ {0} /\ 1 <= k
    OBVIOUS
  <2> HIDE DEF k
  <2>2. /\ ExchangeBufferData(b, k) \in Seq(Nat)
        /\ Len(ExchangeBufferData(b, k)) = Least(k, Len(Content(b)))
        /\ At(ExchangeBufferData(b, k), 1) = At(Content(b), 1)
    BY <2>1, ReadAt
  <2> QED BY <2>2 DEF k
<1> HIDE DEF r
<1>3. CASE n = 0
  <2>1. 1 \notin 1 .. Len(Content(b))
    BY <1>3
  <2> QED BY <1>1, <1>3, <2>1 DEF NumberIn, At, NUL
<1>4. CASE n # 0
  <2>1. Len(r) = 1
    BY <1>1, <1>2, <1>4 DEF Least
  <2>2. At(r, 1) = r[1]
    BY <2>1 DEF At
  <2>3. NumberIn(b) = r[1]
    BY <1>1, <1>4 DEF NumberIn, r
  <2> QED BY <1>2, <2>2, <2>3, NumberType
<1> QED BY <1>3, <1>4

\* the packet of a short message: a number each to begin with
LEMMA ShortPacket ==
    ASSUME NEW m \in Message, Short(m)
    PROVE  /\ RemainingLength(m) \in Nat /\ Len(MessageText(m)) \in Nat
           /\ RemainingLength(m) = 2 + Len(Topic) + Len(MessageText(m))
           /\ PacketOf(m) = <<PUBLISH>> \o (<<RemainingLength(m)>> \o
                              (<<0>> \o (<<Len(Topic)>> \o (Topic \o MessageText(m)))))
<1>1. Len(MessageText(m)) \in Nat /\ Len(Topic) \in Nat
  BY TextBytes, Bounds
<1>2. RemainingLength(m) = 2 + Len(Topic) + Len(MessageText(m))
  BY DEF RemainingLength
<1>3. RemainingLength(m) \in Nat
  BY <1>1, <1>2
<1>4. LengthBytes(RemainingLength(m)) = <<RemainingLength(m)>>
  BY DEF LengthBytes, Short
<1> QED BY <1>1, <1>2, <1>3, <1>4 DEF PacketOf

\* a number in front of a sequence
LEMMA InFront ==
    ASSUME NEW k \in Nat, NEW y \in Seq(Nat)
    PROVE  <<k>> \o y \in Seq(Nat) /\ Len(<<k>> \o y) = 1 + Len(y) /\ Len(y) \in Nat
<1>1. <<k>> \in Seq(Nat) /\ Len(<<k>>) = 1
  OBVIOUS
<1> QED BY <1>1, Appended

\* the bytes of a packet that are read of a long message
LEMMA LongBytes ==
    ASSUME NEW m \in Message, ~Short(m)
    PROVE  LET p == PacketOf(m)
               l == Len(Topic)
           IN  At(p, 3) \in Nat \ {0} /\ At(p, 4) = 0 /\ At(p, 5 + l) # NUL
<1> DEFINE p == PacketOf(m)
           l == Len(Topic)
           n == RemainingLength(m)
           x == MessageText(m)
           low == LengthBase + (n % LengthBase)
           high == n \div LengthBase
           a1 == Topic \o x
           a2 == <<l>> \o a1
           a3 == <<0>> \o a2
           q == <<low, high>>
           a4 == q \o a3
           kind == <<PUBLISH>>
           zero == <<0>>
           one == <<l>>
<1>1. x \in Seq(Nat) /\ Len(x) \in Nat /\ Topic \in Seq(Nat) /\ l \in Nat \ {0}
  BY TextBytes, TopicBytes, Bounds
<1>2. n \in Nat /\ LengthBase \in Nat \ {0} /\ n >= LengthBase
  <2>1. n \in Nat
    BY <1>1 DEF RemainingLength
  <2>2. LengthBase \in Nat \ {0} /\ ~(n < LengthBase)
    BY Bounds DEF Short
  <2> QED BY <2>1, <2>2
<1>3. high \in Nat \ {0} /\ low \in Nat
  <2> HIDE DEF n
  <2>1. high \in Nat /\ low \in Nat
    BY <1>2
  <2>2. n = LengthBase * high + (n % LengthBase) /\ n % LengthBase \in 0 .. LengthBase - 1
    BY <1>2
  <2>3. high # 0
    <3>1. high = 0 => LengthBase * high = 0
      BY <1>2
    <3> QED BY <1>2, <2>2, <3>1
  <2> QED BY <2>1, <2>3
<1>4. p = kind \o a4
  <2>1. LengthBytes(n) = q
    <3>1. ~(n < LengthBase)
      BY <1>2
    <3> QED BY <3>1 DEF LengthBytes
  <2> QED BY <2>1 DEF PacketOf
<1> HIDE DEF p, n, x, low, high
<1>5. /\ kind \in Seq(Nat) /\ Len(kind) = 1 /\ zero \in Seq(Nat) /\ Len(zero) = 1 /\ zero[1] = 0
      /\ one \in Seq(Nat) /\ Len(one) = 1 /\ q \in Seq(Nat) /\ Len(q) = 2 /\ q[2] = high
  BY <1>1, <1>3 DEF PUBLISH
<1> HIDE DEF l, kind, zero, one, q
<1>6. a1 \in Seq(Nat) /\ a2 = one \o a1 /\ a3 = zero \o a2
  BY <1>1, Appended DEF one, zero
<1> HIDE DEF a1, a2, a3
<1>7. a2 \in Seq(Nat)
  BY <1>5, <1>6, Appended
<1>8. a3 \in Seq(Nat)
  BY <1>5, <1>6, <1>7, Appended
<1>9. a4 \in Seq(Nat)
  BY <1>5, <1>8, Appended
<1>10. \A i \in Nat \ {0} : i > 1 => At(p, i) = At(a4, i - 1)
  <2> TAKE i \in Nat \ {0}
  <2> HAVE i > 1
  <2> HIDE DEF a4
  <2>1. At(kind \o a4, i) = At(a4, i - Len(kind))
    <3>1. ~(i <= Len(kind))
      BY <1>5
    <3> QED BY ONLY <1>5, <1>9, <3>1, JoinedAt, i \in Nat \ {0}
  <2> QED BY <1>4, <1>5, <2>1
<1>11. \A i \in Nat \ {0} : At(a4, i) = IF i <= 2 THEN At(q, i) ELSE At(a3, i - 2)
  <2> TAKE i \in Nat \ {0}
  <2>1. At(q \o a3, i) = IF i <= Len(q) THEN At(q, i) ELSE At(a3, i - Len(q))
    BY ONLY <1>5, <1>8, JoinedAt, i \in Nat \ {0}
  <2> QED BY <1>5, <2>1
<1>12. \A i \in Nat \ {0} : At(a3, i) = IF i <= 1 THEN At(zero, i) ELSE At(a2, i - 1)
  <2> TAKE i \in Nat \ {0}
  <2>1. At(zero \o a2, i) = IF i <= Len(zero) THEN At(zero, i) ELSE At(a2, i - Len(zero))
    BY ONLY <1>5, <1>7, JoinedAt, i \in Nat \ {0}
  <2> QED BY <1>5, <1>6, <2>1
<1>13. \A i \in Nat \ {0} : i > 1 => At(a2, i) = At(a1, i - 1)
  <2> TAKE i \in Nat \ {0}
  <2> HAVE i > 1
  <2>1. At(one \o a1, i) = At(a1, i - Len(one))
    <3>1. ~(i <= Len(one))
      BY <1>5
    <3> QED BY ONLY <1>5, <1>6, <3>1, JoinedAt, i \in Nat \ {0}
  <2> QED BY <1>5, <1>6, <2>1
<1>14. At(a1, l) = At(Topic, l)
  BY <1>1, JoinedAt DEF a1, l
<1> HIDE DEF a4
<1>15. At(p, 3) \in Nat \ {0}
  <2>1. At(p, 3) = At(q, 2)
    BY <1>10, <1>11
  <2>2. At(q, 2) = high
    BY <1>5 DEF At
  <2> QED BY <1>3, <2>1, <2>2
<1>16. At(p, 4) = 0
  <2>1. At(p, 4) = At(zero, 1)
    BY <1>10, <1>11, <1>12
  <2>2. At(zero, 1) = 0
    BY <1>5 DEF At
  <2> QED BY <2>1, <2>2
<1>17. At(p, 5 + l) = At(Topic, l)
  <2>1. At(p, 5 + l) = At(a4, 4 + l)
    BY <1>1, <1>10
  <2>2. At(a4, 4 + l) = At(a3, 2 + l)
    BY <1>1, <1>11
  <2>3. At(a3, 2 + l) = At(a2, 1 + l)
    BY <1>1, <1>12
  <2>4. At(a2, 1 + l) = At(a1, l)
    BY <1>1, <1>13
  <2> QED BY <1>14, <2>1, <2>2, <2>3, <2>4
<1>18. At(Topic, l) # NUL
  <2>1. l \in 1 .. Len(Topic)
    BY <1>1 DEF l
  <2>2. Topic[l] \in Words
    BY <2>1, TopicBytes, ElementOfSeq
  <2> QED BY <2>1, <2>2, NoWord DEF At
<1> QED BY <1>15, <1>16, <1>17, <1>18 DEF p, l

\* how long the packet is
LEMMA ShortLength ==
    ASSUME NEW m \in Message, Short(m)
    PROVE  /\ PacketOf(m) \in Seq(Nat)
           /\ Len(PacketOf(m)) = 2 + RemainingLength(m)
<1> DEFINE n == RemainingLength(m)
           x == MessageText(m)
           l == Len(Topic)
           a1 == Topic \o x
           a2 == <<l>> \o a1
           a3 == <<0>> \o a2
           a4 == <<n>> \o a3
           a5 == <<PUBLISH>> \o a4
<1>1. n \in Nat /\ n = 2 + l + Len(x) /\ PacketOf(m) = a5
  BY ShortPacket
<1>2. Topic \in Seq(Nat) /\ x \in Seq(Nat) /\ l \in Nat /\ PUBLISH \in Nat
  BY TextBytes, TopicBytes, Bounds DEF PUBLISH
<1> HIDE DEF x, n
<1>3. a1 \in Seq(Nat) /\ Len(a1) = l + Len(x) /\ Len(x) \in Nat
  BY <1>2, Appended
<1> HIDE DEF a1, l
<1>4. a2 \in Seq(Nat) /\ Len(a2) = 1 + Len(a1)
  BY <1>2, <1>3, InFront
<1> HIDE DEF a2
<1>5. a3 \in Seq(Nat) /\ Len(a3) = 1 + Len(a2)
  BY <1>4, InFront
<1> HIDE DEF a3
<1>6. a4 \in Seq(Nat) /\ Len(a4) = 1 + Len(a3)
  BY <1>1, <1>5, InFront
<1> HIDE DEF a4
<1>7. a5 \in Seq(Nat) /\ Len(a5) = 1 + Len(a4)
  BY <1>2, <1>6, InFront
<1> HIDE DEF a5
<1>8. Len(a5) = 2 + n
  BY <1>1, <1>2, <1>3, <1>4, <1>5, <1>6, <1>7
<1> QED BY <1>1, <1>7, <1>8 DEF n

-----------------------------------------------------------------------------
(* A packet arrives.                                                          *)

LEMMA LengthBytesType ==
    ASSUME NEW n \in Nat
    PROVE  LengthBytes(n) \in Seq(Nat)
<1>1. n % LengthBase \in Nat /\ n \div LengthBase \in Nat /\ LengthBase \in Nat
  BY Bounds
<1>2. LengthBase + (n % LengthBase) \in Nat
  BY <1>1
<1> QED BY <1>1, <1>2 DEF LengthBytes

LEMMA PacketBytes ==
    ASSUME NEW m \in Message
    PROVE  PacketOf(m) \in Seq(Nat)
<1> DEFINE n == RemainingLength(m)
           x == MessageText(m)
           a1 == Topic \o x
           a2 == <<Len(Topic)>> \o a1
           a3 == <<0>> \o a2
           q == LengthBytes(n)
<1>1. x \in Seq(Nat) /\ Topic \in Seq(Nat) /\ Len(Topic) \in Nat /\ Len(x) \in Nat
  BY TextBytes, TopicBytes, Bounds
<1>2. n \in Nat
  BY <1>1 DEF RemainingLength
<1>3. q \in Seq(Nat)
  BY <1>2, LengthBytesType
<1> HIDE DEF x, n
<1>4. a1 \in Seq(Nat)
  BY <1>1, Appended
<1> HIDE DEF a1, q
<1>5. a2 \in Seq(Nat)
  BY <1>1, <1>4, InFront
<1> HIDE DEF a2
<1>6. a3 \in Seq(Nat)
  BY <1>5, InFront
<1> HIDE DEF a3
<1>7. q \o a3 \in Seq(Nat)
  BY <1>3, <1>6, Appended
<1>8. <<PUBLISH>> \o (q \o a3) \in Seq(Nat)
  BY <1>7, InFront DEF PUBLISH
<1> QED BY <1>8 DEF PacketOf, q, n, a1, a2, a3, x

\* a length as a uint8_t: no more than it was, and that of a short packet
LEMMA LowBits ==
    ASSUME NEW n \in Nat
    PROVE  /\ Low8(n) \in Nat /\ Low8(n) <= n
           /\ n < 2 + LengthBase => Low8(n) = n
<1>1. LengthBase \in Nat /\ LengthBase > 4
  BY Bounds
<1>2. CASE n < 2 * LengthBase
  BY <1>1, <1>2 DEF Low8
<1>3. CASE ~(n < 2 * LengthBase)
  <2> DEFINE w == 2 * LengthBase
  <2>1. w \in Nat /\ w > 0 /\ w >= 2 + LengthBase /\ n >= w
    BY <1>1, <1>3
  <2>2. Low8(n) = n % w
    BY <1>3 DEF Low8
  <2> HIDE DEF w
  <2>3. n % w \in 0 .. w - 1
    BY <2>1
  <2> QED BY <1>1, <2>1, <2>2, <2>3
<1> QED BY <1>2, <1>3

\* what of a packet comes into the buffer: as much of it as a uint8_t says
Sent(m) == SubSeq(PacketOf(m), 1, Low8(Len(PacketOf(m))))

\* ... which is a packet whose length is one byte
LEMMA ShortSent ==
    ASSUME NEW m \in Message, Short(m)
    PROVE  Sent(m) = PacketOf(m)
<1> DEFINE d == PacketOf(m)
<1>1. d \in Seq(Nat) /\ Len(d) \in Nat /\ Len(d) = 2 + RemainingLength(m)
  BY ShortLength
<1>2. RemainingLength(m) < LengthBase /\ RemainingLength(m) \in Nat /\ LengthBase \in Nat
  BY ShortPacket, Bounds DEF Short
<1>3. Len(d) < 2 + LengthBase
  BY <1>1, <1>2
<1> HIDE DEF d
<1>4. Low8(Len(d)) = Len(d)
  BY <1>1, <1>3, LowBits
<1>5. SubSeq(d, 1, Len(d)) = d
  BY <1>1, SubSeqFull
<1> QED BY <1>4, <1>5 DEF Sent, d

\* ... and the beginning of a longer one
LEMMA LongSent ==
    ASSUME NEW m \in Message, ~Short(m)
    PROVE  LET c == Sent(m)
               l == Len(Topic)
           IN  /\ c \in Seq(Nat) /\ Len(c) \in Nat
               /\ Len(c) >= 3 => At(c, 3) \in Nat \ {0}
               /\ At(c, 4) = 0
               /\ Len(c) >= 5 + l => At(c, 5 + l) # NUL
<1> DEFINE d == PacketOf(m)
           k == Low8(Len(d))
           c == SubSeq(d, 1, k)
           l == Len(Topic)
<1>1. d \in Seq(Nat) /\ Len(d) \in Nat /\ l \in Nat
  BY PacketBytes, Bounds
<1>2. At(d, 3) \in Nat \ {0} /\ At(d, 4) = 0 /\ At(d, 5 + l) # NUL
  BY LongBytes
<1> HIDE DEF d, l
<1>3. k \in Nat /\ k <= Len(d)
  BY <1>1, LowBits
<1> HIDE DEF k
<1>4. c \in Seq(Nat) /\ Len(c) = k /\ \A i \in 1 .. k : c[i] = d[i]
  <2>1. \A i \in 1 .. k : d[i] \in Nat
    BY <1>1, <1>3, ElementOfSeq
  <2>2. 1 \in Int /\ k \in Int
    BY <1>3
  <2> QED BY <1>1, <1>3, <2>1, <2>2, SubSeqProperties
<1>5. Sent(m) = c
  BY DEF Sent, c, k, d
<1> HIDE DEF c
<1>6. \A i \in Nat \ {0} : At(c, i) = IF i <= k THEN At(d, i) ELSE NUL
  <2> TAKE i \in Nat \ {0}
  <2>1. CASE i <= k
    <3>1. i \in 1 .. k /\ i \in 1 .. Len(d) /\ i \in 1 .. Len(c)
      BY <1>1, <1>3, <1>4, <2>1
    <3> QED BY <1>4, <2>1, <3>1 DEF At
  <2>2. CASE ~(i <= k)
    <3>1. i \notin 1 .. Len(c)
      BY <1>3, <1>4, <2>2
    <3> QED BY <2>2, <3>1 DEF At
  <2> QED BY <2>1, <2>2
<1>7. Len(c) >= 3 => At(c, 3) \in Nat \ {0}
  <2>1. ASSUME Len(c) >= 3 PROVE At(c, 3) = At(d, 3)
    BY <1>3, <1>4, <1>6, <2>1
  <2> QED BY <1>2, <2>1
<1>8. At(c, 4) = 0
  BY <1>2, <1>6 DEF NUL
<1>9. Len(c) >= 5 + l => At(c, 5 + l) # NUL
  <2>1. ASSUME Len(c) >= 5 + l PROVE At(c, 5 + l) = At(d, 5 + l)
    <3>1. 5 + l \in Nat \ {0} /\ 5 + l <= k
      BY <1>1, <1>4, <2>1
    <3> QED BY <1>6, <3>1
  <2> QED BY <1>2, <2>1
<1> QED BY <1>3, <1>4, <1>5, <1>7, <1>8, <1>9 DEF l

\* what a received packet leaves in the bytes of the buffer
LEMMA ReceivedBytes ==
    ASSUME rxbuff \in Buffer(RX_BUFF_SIZE, Nat), NEW d \in Seq(Nat), Len(d) <= RX_BUFF_SIZE
    PROVE  /\ Received(d) \in Buffer(RX_BUFF_SIZE, Nat)
           /\ \A i \in 1 .. Len(d) : Received(d).start[i - 1] = d[i]
<1> DEFINE n == RX_BUFF_SIZE
           start == [a \in 0 .. n - 1 |-> IF a < Len(d) THEN d[a + 1] ELSE rxbuff.start[a]]
<1>1. n \in Nat \ {0} /\ Len(d) \in Nat /\ Len(d) <= n
  BY Bounds
<1>2. /\ rxbuff.start \in [0 .. n - 1 -> Nat]
      /\ rxbuff.currentLocation \in 0 .. n - 1 /\ rxbuff.dataLength \in 0 .. n
  BY <1>1, Parts
<1>3. Received(d) = Changed(rxbuff, start, rxbuff.currentLocation, rxbuff.dataLength)
  BY DEF Received
<1> HIDE DEF n
<1>4. ASSUME NEW a \in 0 .. n - 1
      PROVE  (IF a < Len(d) THEN d[a + 1] ELSE rxbuff.start[a]) \in Nat
  <2>1. CASE a < Len(d)
    <3>1. a + 1 \in 1 .. Len(d)
      BY <1>1, <2>1
    <3> QED BY <2>1, <3>1
  <2>2. CASE ~(a < Len(d))
    BY <1>2, <2>2
  <2> QED BY <2>1, <2>2
<1>5. start \in [0 .. n - 1 -> Nat]
  BY <1>4
<1>6. \A i \in 1 .. Len(d) : start[i - 1] = d[i]
  <2> TAKE i \in 1 .. Len(d)
  <2>1. i - 1 \in 0 .. n - 1 /\ i - 1 < Len(d) /\ (i - 1) + 1 = i
    BY <1>1
  <2> QED BY <2>1
<1> HIDE DEF start
<1>7. Received(d) \in Buffer(n, Nat)
  <2>1. rxbuff \in Buffer(n, Nat)
    BY DEF n
  <2>2. Changed(rxbuff, start, rxbuff.currentLocation, rxbuff.dataLength) \in Buffer(n, Nat)
    BY <1>1, <1>2, <1>5, <2>1, ChangedIn
  <2> QED BY <1>3, <2>2
<1>8. Received(d).start = start
  BY <1>3, ChangedParts
<1> QED BY <1>6, <1>7, <1>8 DEF n

\* The buffer holds what was sent of the packet.
LEMMA ArrivesWhole ==
    ASSUME rxbuff \in Buffer(RX_BUFF_SIZE, Nat), NEW m \in Message,
           Len(PacketOf(m)) <= RX_BUFF_SIZE
    PROVE  LET w == GetReceivedData(Received(PacketOf(m)), Low8(Len(PacketOf(m))))
           IN  /\ w \in Buffer(RX_BUFF_SIZE, Nat)
               /\ Content(w) = Sent(m)
<1> DEFINE n == RX_BUFF_SIZE
           d == PacketOf(m)
           rec == Received(d)
           l == Low8(Len(d))
           copy == [i \in 1 .. l |-> rec.start[i - 1]]
           e == ExchangeBufferInit(rec)
           w == ExchangeBufferWrite(e, copy)
<1>1. d \in Seq(Nat) /\ Len(d) \in Nat /\ Len(d) <= n /\ n \in Nat \ {0}
  BY PacketBytes, Bounds
<1>2. Sent(m) = SubSeq(d, 1, l)
  BY DEF Sent
<1>3. GetReceivedData(rec, l) = w
  BY DEF GetReceivedData
<1> HIDE DEF n, d
<1>4. l \in Nat /\ l <= Len(d)
  BY <1>1, LowBits
<1>5. rec \in Buffer(n, Nat) /\ \A i \in 1 .. Len(d) : rec.start[i - 1] = d[i]
  BY <1>1, ReceivedBytes DEF n
<1> HIDE DEF rec, l
<1>6. e \in Buffer(n, Nat) /\ e.dataLength = 0
  BY <1>1, <1>5, InitEmpties
<1>7. ASSUME NEW i \in 1 .. l PROVE rec.start[i - 1] = d[i] /\ d[i] \in Nat
  <2>1. i \in 1 .. Len(d)
    BY <1>1, <1>4
  <2> QED BY <1>1, <1>5, <2>1
<1>8. copy \in Seq(Nat) /\ Len(copy) = l
  <2>1. \A i \in 1 .. l : rec.start[i - 1] \in Nat
    BY <1>7
  <2> QED BY <1>4, <2>1
<1>9. \A i \in 1 .. l : copy[i] = d[i]
  BY <1>7
<1> HIDE DEF e, copy
<1>10. /\ w \in Buffer(n, Nat)
       /\ Content(w) = Content(e) \o SubSeq(copy, 1, Least(Len(copy), n - e.dataLength))
  BY <1>6, <1>8, Writes DEF n
<1>11. Content(w) = SubSeq(d, 1, l)
  <2>1. Least(Len(copy), n - e.dataLength) = Len(copy)
    BY <1>1, <1>4, <1>6, <1>8 DEF Least
  <2>2. SubSeq(copy, 1, Len(copy)) = copy
    BY <1>8, SubSeqFull
  <2>3. Content(e) = <<>>
    <3>1. Content(e) \in Seq(Nat) /\ Len(Content(e)) = 0
      BY <1>1, <1>6, ContentBytes
    <3> QED BY <3>1
  <2>4. copy = SubSeq(d, 1, l)
    <3> DEFINE x == SubSeq(d, 1, l)
    <3>1. \A i \in 1 .. l : d[i] \in Nat
      BY <1>7
    <3>2. x \in Seq(Nat) /\ Len(x) = l /\ \A i \in 1 .. l : x[i] = d[i]
      <4>1. 1 \in Int /\ l \in Int
        BY <1>4
      <4> QED BY <1>1, <1>4, <3>1, <4>1, SubSeqProperties
    <3> HIDE DEF x
    <3>3. copy = x
      BY <1>8, <1>9, <3>2, SeqEqual
    <3> QED BY <3>3 DEF x
  <2>5. Content(w) = <<>> \o copy
    BY <1>10, <2>1, <2>2, <2>3
  <2> QED BY <1>8, <2>4, <2>5, ConcatEmptySeq
<1> QED BY <1>2, <1>3, <1>10, <1>11 DEF n, d, rec, l

-----------------------------------------------------------------------------
(* The packet is processed.                                                   *)

\* the text that mqttProcessPublish hands over, with the names it uses
LEMMA ShortRead ==
    ASSUME rxbuff \in Buffer(RX_BUFF_SIZE, Nat), NEW m \in Message, Short(m),
           Content(rxbuff) = PacketOf(m)
    PROVE  LET lengthAt == ExchangeBufferRead(rxbuff, 1)
               highAt == ExchangeBufferRead(lengthAt, 1)
               lowAt == ExchangeBufferRead(highAt, 1)
               topicAt == ExchangeBufferRead(lowAt, 1)
               payloadAt == ExchangeBufferRead(topicAt, Len(Topic))
           IN  /\ NumberIn(lengthAt) = RemainingLength(m)
               /\ NumberIn(highAt) = 0 /\ NumberIn(lowAt) = Len(Topic)
               /\ ExchangeBufferData(topicAt, Len(Topic)) = Topic
               /\ ExchangeBufferData(payloadAt, Len(MessageText(m))) = MessageText(m)
<1> DEFINE lengthAt == ExchangeBufferRead(rxbuff, 1)
           highAt == ExchangeBufferRead(lengthAt, 1)
           lowAt == ExchangeBufferRead(highAt, 1)
           topicAt == ExchangeBufferRead(lowAt, 1)
           payloadAt == ExchangeBufferRead(topicAt, Len(Topic))
           n == RemainingLength(m)
           x == MessageText(m)
           l == Len(Topic)
           a1 == Topic \o x
           a2 == <<l>> \o a1
           a3 == <<0>> \o a2
           a4 == <<n>> \o a3
<1>1. n \in Nat /\ Content(rxbuff) = <<PUBLISH>> \o a4
  BY ShortPacket
<1>2. Topic \in Seq(Nat) /\ x \in Seq(Nat) /\ l \in Nat /\ PUBLISH \in Nat
  BY TextBytes, TopicBytes, Bounds DEF PUBLISH
<1> HIDE DEF n, x, l
<1>3. a1 \in Seq(Nat)
  BY <1>2, Appended
<1> HIDE DEF a1
<1>4. a2 \in Seq(Nat)
  BY <1>2, <1>3, InFront
<1> HIDE DEF a2
<1>5. a3 \in Seq(Nat)
  BY <1>4, InFront
<1> HIDE DEF a3
<1>6. a4 \in Seq(Nat)
  BY <1>1, <1>5, InFront
<1> HIDE DEF a4
<1>7. lengthAt \in Buffer(RX_BUFF_SIZE, Nat) /\ Content(lengthAt) = a4
  BY <1>1, <1>2, <1>6, TakesNumber
<1> HIDE DEF lengthAt
<1>8. highAt \in Buffer(RX_BUFF_SIZE, Nat) /\ NumberIn(lengthAt) = n /\ Content(highAt) = a3
  BY <1>1, <1>5, <1>7, TakesNumber DEF a4
<1> HIDE DEF highAt
<1>9. lowAt \in Buffer(RX_BUFF_SIZE, Nat) /\ NumberIn(highAt) = 0 /\ Content(lowAt) = a2
  BY <1>4, <1>8, TakesNumber DEF a3
<1> HIDE DEF lowAt
<1>10. topicAt \in Buffer(RX_BUFF_SIZE, Nat) /\ NumberIn(lowAt) = l /\ Content(topicAt) = a1
  BY <1>2, <1>3, <1>9, TakesNumber DEF a2
<1> HIDE DEF topicAt
<1>11. /\ payloadAt \in Buffer(RX_BUFF_SIZE, Nat)
       /\ ExchangeBufferData(topicAt, Len(Topic)) = Topic
       /\ Content(payloadAt) = x
  BY <1>2, <1>10, TakesPart DEF a1
<1> HIDE DEF payloadAt
<1>12. Content(payloadAt) = x \o <<>> /\ <<>> \in Seq(Nat)
  BY <1>2, <1>11, ConcatEmptySeq
<1>13. ExchangeBufferData(payloadAt, Len(x)) = x
  BY <1>2, <1>11, <1>12, TakesPart
<1> QED BY <1>8, <1>9, <1>10, <1>11, <1>13 DEF lengthAt, highAt, lowAt, topicAt, payloadAt, n, x, l

\* A short message that is in the buffer is handed over as it was sent.
LEMMA ShortHanded ==
    ASSUME rxbuff \in Buffer(RX_BUFF_SIZE, Nat), NEW m \in Message, Short(m),
           Content(rxbuff) = PacketOf(m), mqttProcessPublish
    PROVE  receivedFromCloud(MessageText(m))
<1> DEFINE lengthAt == ExchangeBufferRead(rxbuff, 1)
           highAt == ExchangeBufferRead(lengthAt, 1)
           lowAt == ExchangeBufferRead(highAt, 1)
           topicAt == ExchangeBufferRead(lowAt, 1)
           byte == NumberIn(lengthAt)
           topicLength == NumberIn(highAt) * 2 * LengthBase + NumberIn(lowAt)
           topic == ExchangeBufferData(topicAt, topicLength)
           payloadAt == ExchangeBufferRead(topicAt, topicLength)
           left == (IF byte < LengthBase THEN byte ELSE byte - LengthBase) - 2 - topicLength
           text == ExchangeBufferData(payloadAt, IF left >= 0 THEN left ELSE RX_BUFF_SIZE)
           matches == \A i \in 1 .. topicLength : At(Topic, i) = At(topic, i)
<1>1. \/ Len(topic) > TOPIC_SIZE
      \/ Len(topic) <= TOPIC_SIZE /\ (matches => receivedFromCloud(text))
  BY DEF mqttProcessPublish
<1>2. /\ byte = RemainingLength(m) /\ NumberIn(highAt) = 0 /\ NumberIn(lowAt) = Len(Topic)
      /\ ExchangeBufferData(topicAt, Len(Topic)) = Topic
      /\ ExchangeBufferData(ExchangeBufferRead(topicAt, Len(Topic)), Len(MessageText(m)))
           = MessageText(m)
  BY ShortRead
<1>3. /\ RemainingLength(m) = 2 + Len(Topic) + Len(MessageText(m))
      /\ RemainingLength(m) < LengthBase
      /\ Len(MessageText(m)) \in Nat /\ Len(Topic) \in Nat /\ LengthBase \in Nat
      /\ Len(Topic) <= TOPIC_SIZE /\ TOPIC_SIZE \in Nat
  BY ShortPacket, Bounds DEF Short
<1> HIDE DEF topicAt, byte, highAt, lowAt
<1>4. topicLength = Len(Topic)
  BY <1>2, <1>3
<1> HIDE DEF topicLength
<1>5. topic = Topic
  BY <1>2, <1>4
<1>6. left = Len(MessageText(m)) /\ left >= 0
  BY <1>2, <1>3, <1>4
<1> HIDE DEF left
<1>7. text = MessageText(m)
  BY <1>2, <1>4, <1>6
<1> HIDE DEF text, topic
<1>8. matches /\ ~(Len(topic) > TOPIC_SIZE)
  BY <1>3, <1>5
<1>9. receivedFromCloud(text)
  BY <1>1, <1>8
<1> QED BY <1>7, <1>9

\* A message whose length takes two bytes changes no light: the second byte is read as the
\* topic's length, which is then longer than the topic, or the bytes end before the text.
LEMMA LongIgnored ==
    ASSUME rxbuff \in Buffer(RX_BUFF_SIZE, Nat), NEW m \in Message, ~Short(m),
           Content(rxbuff) = Sent(m), mqttProcessPublish
    PROVE  red' = red /\ yel' = yel
<1> DEFINE lengthAt == ExchangeBufferRead(rxbuff, 1)
           highAt == ExchangeBufferRead(lengthAt, 1)
           lowAt == ExchangeBufferRead(highAt, 1)
           topicAt == ExchangeBufferRead(lowAt, 1)
           byte == NumberIn(lengthAt)
           topicLength == NumberIn(highAt) * 2 * LengthBase + NumberIn(lowAt)
           topic == ExchangeBufferData(topicAt, topicLength)
           payloadAt == ExchangeBufferRead(topicAt, topicLength)
           left == (IF byte < LengthBase THEN byte ELSE byte - LengthBase) - 2 - topicLength
           rest == IF left >= 0 THEN left ELSE RX_BUFF_SIZE
           text == ExchangeBufferData(payloadAt, rest)
           matches == \A i \in 1 .. topicLength : At(Topic, i) = At(topic, i)
           c == Content(rxbuff)
           l == Len(Topic)
           a == At(c, 3)
<1>1. (red' = red /\ yel' = yel) \/ (matches /\ receivedFromCloud(text))
  BY DEF mqttProcessPublish
<1>2. /\ c \in Seq(Nat) /\ Len(c) \in Nat
      /\ Len(c) >= 3 => a \in Nat \ {0}
      /\ At(c, 4) = 0
      /\ Len(c) >= 5 + l => At(c, 5 + l) # NUL
  BY LongSent
<1>3. l \in Nat \ {0} /\ LengthBase \in Nat \ {0} /\ l < 2 * LengthBase /\ RX_BUFF_SIZE \in Nat
  BY Bounds
<1> HIDE DEF c, l
<1> DEFINE z == 1
<1>4. z \in Nat /\ z = 1
  OBVIOUS
<1>5. /\ lengthAt = ExchangeBufferRead(rxbuff, z) /\ highAt = ExchangeBufferRead(lengthAt, z)
      /\ lowAt = ExchangeBufferRead(highAt, z) /\ topicAt = ExchangeBufferRead(lowAt, z)
  OBVIOUS
<1> HIDE DEF z
<1>6. /\ lengthAt \in Buffer(RX_BUFF_SIZE, Nat)
      /\ Len(Content(lengthAt)) = Len(c) - Least(z, Len(c))
      /\ \A i \in Nat \ {0} : At(Content(lengthAt), i) = At(c, z + i)
  BY <1>4, <1>5, ReadAt DEF c
<1> HIDE DEF lengthAt
<1>7. /\ highAt \in Buffer(RX_BUFF_SIZE, Nat)
      /\ Len(Content(highAt)) = Len(Content(lengthAt)) - Least(z, Len(Content(lengthAt)))
      /\ \A i \in Nat \ {0} : At(Content(highAt), i) = At(Content(lengthAt), z + i)
  <2>1. highAt = ExchangeBufferRead(lengthAt, z) /\ z \in Nat /\ lengthAt \in Buffer(RX_BUFF_SIZE, Nat)
    BY <1>4, <1>5, <1>6
  <2> QED BY ONLY <2>1, ReadAt
<1> HIDE DEF highAt
<1>8. /\ lowAt \in Buffer(RX_BUFF_SIZE, Nat)
      /\ Len(Content(lowAt)) = Len(Content(highAt)) - Least(z, Len(Content(highAt)))
      /\ \A i \in Nat \ {0} : At(Content(lowAt), i) = At(Content(highAt), z + i)
  <2>1. lowAt = ExchangeBufferRead(highAt, z) /\ z \in Nat /\ highAt \in Buffer(RX_BUFF_SIZE, Nat)
    BY <1>4, <1>5, <1>7
  <2> QED BY ONLY <2>1, ReadAt
<1> HIDE DEF lowAt
<1>9. /\ topicAt \in Buffer(RX_BUFF_SIZE, Nat)
      /\ Len(Content(topicAt)) = Len(Content(lowAt)) - Least(z, Len(Content(lowAt)))
      /\ \A i \in Nat \ {0} : At(Content(topicAt), i) = At(Content(lowAt), z + i)
  <2>1. topicAt = ExchangeBufferRead(lowAt, z) /\ z \in Nat /\ lowAt \in Buffer(RX_BUFF_SIZE, Nat)
    BY <1>4, <1>5, <1>8
  <2> QED BY ONLY <2>1, ReadAt
<1> HIDE DEF topicAt
<1>10. \A i \in Nat \ {0} : At(Content(topicAt), i) = At(c, 4 + i)
  <2> TAKE i \in Nat \ {0}
  <2>1. /\ 1 + i \in Nat \ {0} /\ 2 + i \in Nat \ {0} /\ 3 + i \in Nat \ {0}
        /\ 1 + (1 + i) = 2 + i /\ 1 + (2 + i) = 3 + i /\ 1 + (3 + i) = 4 + i
    OBVIOUS
  <2>2. At(Content(topicAt), i) = At(Content(lowAt), 1 + i)
    BY <1>4, <1>9
  <2>3. At(Content(lowAt), 1 + i) = At(Content(highAt), 2 + i)
    BY <1>4, <1>8, <2>1
  <2>4. At(Content(highAt), 2 + i) = At(Content(lengthAt), 3 + i)
    BY <1>4, <1>7, <2>1
  <2>5. At(Content(lengthAt), 3 + i) = At(c, 4 + i)
    BY <1>4, <1>6, <2>1
  <2> QED BY <2>2, <2>3, <2>4, <2>5
<1>11. NumberIn(highAt) = a
  <2>1. At(Content(highAt), 1) = At(Content(lengthAt), 2)
    BY <1>4, <1>7
  <2>2. At(Content(lengthAt), 2) = At(c, 3)
    BY <1>4, <1>6
  <2> QED BY <1>7, <2>1, <2>2, NumberAt
<1>12. NumberIn(lowAt) = 0
  <2>1. At(Content(lowAt), 1) = At(Content(highAt), 2)
    BY <1>4, <1>8
  <2>2. At(Content(highAt), 2) = At(Content(lengthAt), 3)
    BY <1>4, <1>7
  <2>3. At(Content(lengthAt), 3) = At(c, 4)
    BY <1>4, <1>6
  <2> QED BY <1>2, <1>8, <2>1, <2>2, <2>3, NumberAt
<1>13. byte \in Nat /\ a \in Nat
  BY <1>6, <1>7, <1>11, NumberAt
<1> HIDE DEF a, byte
<1>14. topicLength \in Nat /\ (a # 0 => topicLength > l)
  <2>1. topicLength = a * 2 * LengthBase + 0
    BY <1>11, <1>12
  <2> HIDE DEF topicLength
  <2> DEFINE w == 2 * LengthBase
  <2>2. w \in Nat /\ w > l /\ a * 2 * LengthBase = a * w
    BY <1>3, <1>13
  <2> HIDE DEF w
  <2>3. a * w \in Nat /\ (a # 0 => a * w >= w)
    BY <1>13, <2>2
  <2> QED BY <1>3, <2>1, <2>2, <2>3
<1> HIDE DEF topicLength
<1>15. /\ payloadAt \in Buffer(RX_BUFF_SIZE, Nat)
       /\ Len(Content(payloadAt))
            = Len(Content(topicAt)) - Least(topicLength, Len(Content(topicAt)))
       /\ \A i \in Nat \ {0} : i <= topicLength => At(topic, i) = At(Content(topicAt), i)
  BY <1>9, <1>14, ReadAt
<1> HIDE DEF topic, payloadAt
<1>16. CASE Len(c) >= 5 + l
  <2>1. a # 0
    BY <1>2, <1>3, <1>16
  <2>2. l + 1 \in 1 .. topicLength /\ l + 1 \in Nat \ {0} /\ l + 1 <= topicLength /\ 4 + (l + 1) = 5 + l
    BY <1>3, <1>14, <2>1
  <2>3. At(topic, l + 1) = At(c, 5 + l)
    BY <1>10, <1>15, <2>2
  <2>4. At(Topic, l + 1) = NUL
    <3>1. l + 1 \notin 1 .. Len(Topic)
      BY <1>3 DEF l
    <3> QED BY <3>1 DEF At
  <2>5. ~matches
    BY <1>2, <1>16, <2>2, <2>3, <2>4
  <2> QED BY <1>1, <2>5
<1>17. CASE ~(Len(c) >= 5 + l)
  <2>1. Len(Content(topicAt)) = IF Len(c) <= 4 THEN 0 ELSE Len(c) - 4
    <3> DEFINE n0 == Len(c)
               n1 == Len(Content(lengthAt))
               n2 == Len(Content(highAt))
               n3 == Len(Content(lowAt))
               n4 == Len(Content(topicAt))
    <3>1. n0 \in Nat /\ n1 = n0 - Least(z, n0) /\ n2 = n1 - Least(z, n1)
          /\ n3 = n2 - Least(z, n2) /\ n4 = n3 - Least(z, n3) /\ z = 1
      BY <1>2, <1>4, <1>6, <1>7, <1>8, <1>9
    <3> HIDE DEF n0, n1, n2, n3, n4
    <3>2. n4 = IF n0 <= 4 THEN 0 ELSE n0 - 4
      BY <3>1 DEF Least
    <3> QED BY <3>2 DEF n0, n4
  <2>2. Len(Content(payloadAt)) = 0
    <3>1. CASE Len(c) <= 4
      BY <1>14, <1>15, <2>1, <3>1 DEF Least
    <3>2. CASE ~(Len(c) <= 4)
      <4>1. a # 0
        BY <1>2, <3>2
      <4>2. Len(Content(topicAt)) = Len(c) - 4 /\ Len(c) - 4 <= topicLength
        BY <1>2, <1>3, <1>14, <1>17, <2>1, <3>2, <4>1
      <4> QED BY <1>2, <1>14, <1>15, <3>2, <4>2 DEF Least
    <3> QED BY <3>1, <3>2
  <2>3. rest \in Nat
    BY <1>3, <1>13, <1>14
  <2> HIDE DEF rest
  <2>4. text \in Seq(Nat) /\ Len(text) = Least(rest, 0)
    BY <1>15, <2>2, <2>3, ReadAt
  <2> HIDE DEF text
  <2>5. text = <<>>
    <3>1. Len(text) = 0
      BY <2>3, <2>4 DEF Least
    <3> QED BY <2>4, <3>1
  <2>6. receivedFromCloud(<<>>) => red' = red /\ yel' = yel
    BY TopicBytes, NothingRead DEF receivedFromCloud
  <2> HIDE DEF matches
  <2> QED BY <1>1, <2>5, <2>6
<1> QED BY <1>16, <1>17

\* Whatever was in the buffer, it is empty then, or the program is lost.
LEMMA ProcessedBuffer ==
    ASSUME rxbuff \in Buffer(RX_BUFF_SIZE, Nat), mqttProcessPublish
    PROVE  /\ rxbuff' \in Buffer(RX_BUFF_SIZE, Nat)
           /\ pc' = "overrun" \/ rxbuff'.dataLength = 0
<1> DEFINE lengthAt == ExchangeBufferRead(rxbuff, 1)
           highAt == ExchangeBufferRead(lengthAt, 1)
           lowAt == ExchangeBufferRead(highAt, 1)
           topicAt == ExchangeBufferRead(lowAt, 1)
           topicLength == NumberIn(highAt) * 2 * LengthBase + NumberIn(lowAt)
           payloadAt == ExchangeBufferRead(topicAt, topicLength)
<1>1. \/ pc' = "overrun" /\ rxbuff' = rxbuff
      \/ rxbuff' = ExchangeBufferInit(payloadAt)
  BY DEF mqttProcessPublish
<1>2. lengthAt \in Buffer(RX_BUFF_SIZE, Nat)
  BY Reads
<1> HIDE DEF lengthAt
<1>3. highAt \in Buffer(RX_BUFF_SIZE, Nat)
  BY <1>2, Reads
<1> HIDE DEF highAt
<1>4. lowAt \in Buffer(RX_BUFF_SIZE, Nat)
  BY <1>3, Reads
<1> HIDE DEF lowAt
<1>5. topicAt \in Buffer(RX_BUFF_SIZE, Nat)
  BY <1>4, Reads
<1> HIDE DEF topicAt
<1>6. topicLength \in Nat
  <2>1. NumberIn(highAt) \in Nat /\ NumberIn(lowAt) \in Nat /\ LengthBase \in Nat
    BY <1>3, <1>4, NumberType, Bounds
  <2> QED BY <2>1
<1> HIDE DEF topicLength
<1>7. payloadAt \in Buffer(RX_BUFF_SIZE, Nat)
  BY <1>5, <1>6, Reads
<1> HIDE DEF payloadAt
<1>8. /\ ExchangeBufferInit(payloadAt) \in Buffer(RX_BUFF_SIZE, Nat)
      /\ ExchangeBufferInit(payloadAt).dataLength = 0
  BY <1>7, Bounds, InitEmpties
<1> QED BY <1>1, <1>8

-----------------------------------------------------------------------------
(* The invariant.                                                             *)

\* What was sent of the packet that came last is in the buffer, until it is processed.
Packet ==
    pc = "running" /\ rxbuff.dataLength # 0 => \A m \in arrived : Content(rxbuff) = Sent(m)

\* What is sent of a short packet is all of it, so that the application gets its text.
IInv ==
    /\ rxbuff \in Buffer(RX_BUFF_SIZE, Nat)
    /\ arrived \subseteq Message
    /\ Packet
    /\ Handed

LEMMA InitIInv == Init => IInv
<1> SUFFICES ASSUME Init PROVE IInv
  OBVIOUS
<1> DEFINE n == RX_BUFF_SIZE
<1>1. n \in Nat \ {0}
  BY Bounds
<1>2. rxbuff = [start |-> [a \in 0 .. n - 1 |-> 0], bufferLength |-> n,
                currentLocation |-> 0, dataLength |-> 0]
  BY DEF Init
<1>3. arrived = {} /\ handled = {}
  BY DEF Init
<1> HIDE DEF n
<1>4. rxbuff \in Buffer(n, Nat)
  BY <1>1, <1>2 DEF Buffer
<1> QED BY <1>3, <1>4 DEF IInv, Packet, Handed, n

LEMMA StepIInv == IInv /\ [Next]_vars => IInv'
<1> SUFFICES ASSUME IInv, [Next]_vars PROVE IInv'
  OBVIOUS
<1>1. /\ rxbuff \in Buffer(RX_BUFF_SIZE, Nat) /\ arrived \subseteq Message
      /\ Packet /\ Handed
  BY DEF IInv
<1>2. CASE ReceptionHandler
  <2>1. /\ mqttProcessPublish /\ pc = "running" /\ rxbuff.dataLength # 0
        /\ handled' = arrived /\ arrived' = arrived
    BY <1>2 DEF ReceptionHandler
  <2>2. /\ rxbuff' \in Buffer(RX_BUFF_SIZE, Nat)
        /\ pc' = "overrun" \/ rxbuff'.dataLength = 0
    BY <1>1, <2>1, ProcessedBuffer
  <2>11. \A n \in arrived : n \in Message /\ Content(rxbuff) = Sent(n)
    BY <1>1, <2>1 DEF Packet
  <2>12. ASSUME NEW n \in arrived, Short(n) PROVE receivedFromCloud(MessageText(n))
    <3>1. n \in Message /\ Content(rxbuff) = PacketOf(n)
      BY <2>11, <2>12, ShortSent
    <3> QED BY ONLY <1>1, <2>1, <2>12, <3>1, ShortHanded
  <2>3. ASSUME NEW n \in arrived, Short(n) PROVE payload' = MessageText(n)
    BY <2>3, <2>12 DEF receivedFromCloud
  <2>4. Packet'
    BY <2>2 DEF Packet
  <2>5. Handed'
    BY <2>1, <2>3 DEF Handed, Short, RemainingLength
  <2> QED BY <1>1, <2>1, <2>2, <2>4, <2>5 DEF IInv
<1>3. ASSUME NEW m \in Message, Arrives(m) PROVE IInv'
  <2>1. /\ Len(PacketOf(m)) <= RX_BUFF_SIZE
        /\ rxbuff' = GetReceivedData(Received(PacketOf(m)), Low8(Len(PacketOf(m))))
        /\ arrived' = {m} /\ handled' = handled /\ payload' = payload
    BY <1>3 DEF Arrives
  <2>2. rxbuff' \in Buffer(RX_BUFF_SIZE, Nat) /\ Content(rxbuff') = Sent(m)
    <3> DEFINE w == GetReceivedData(Received(PacketOf(m)), Low8(Len(PacketOf(m))))
    <3>1. w \in Buffer(RX_BUFF_SIZE, Nat) /\ Content(w) = Sent(m)
      BY <1>1, <2>1, ArrivesWhole
    <3>2. rxbuff' = w
      BY <2>1, ZenonT(60)
    <3> HIDE DEF w
    <3> QED BY <3>1, <3>2
  <2>3. Packet'
    BY <2>1, <2>2 DEF Packet, Content, ExchangeBufferData, Sent
  <2>4. Handed'
    BY <1>1, <2>1 DEF Handed
  <2> QED BY <2>1, <2>2, <2>3, <2>4 DEF IInv
<1>4. CASE UNCHANGED vars
  BY <1>1, <1>4 DEF vars, IInv, Packet, Handed
<1> QED BY <1>2, <1>3, <1>4 DEF Next

\* The application gets the text of a message as it was sent, whenever the length of
\* its packet takes one byte: what Handed says of receivedFromCloud (src/main.c), for
\* buffers, topics and texts of any size.
THEOREM TextHanded == Spec => []Handed
<1>1. IInv => Handed
  BY DEF IInv
<1> QED BY <1>1, InitIInv, StepIInv, PTL DEF Spec

\* A message that is processed sets the lights as it says.
LEMMA StepObeys ==
    ASSUME IInv, ReceptionHandler, NEW m \in arrived
    PROVE  Follows(m, RedKey, red, red') /\ Follows(m, YellowKey, yel, yel')
<1>1. rxbuff \in Buffer(RX_BUFF_SIZE, Nat) /\ m \in Message /\ Packet
  BY DEF IInv
<1>2. mqttProcessPublish /\ pc = "running" /\ rxbuff.dataLength # 0
  BY DEF ReceptionHandler
<1>3. Content(rxbuff) = Sent(m)
  BY <1>1, <1>2 DEF Packet
<1>4. CASE Short(m)
  <2>1. Content(rxbuff) = PacketOf(m)
    BY <1>1, <1>3, <1>4, ShortSent
  <2>2. receivedFromCloud(MessageText(m))
    BY ONLY <1>1, <1>2, <1>4, <2>1, ShortHanded
  <2>3. /\ red' = JSON_getBool(MessageText(m), RedKey, red)
        /\ yel' = JSON_getBool(MessageText(m), YellowKey, yel)
    BY <2>2 DEF receivedFromCloud
  <2>4. m.object \in Seq(PairType) /\ m.space \in Seq({Space})
    BY <1>1, TextBytes
  <2>5. /\ red' \in {red, Wanted(m.object, RedKey, red)}
        /\ Readable(m.object, RedKey) => red' = Wanted(m.object, RedKey, red)
    BY <2>3, <2>4, TopicBytes, BoolRead DEF MessageText
  <2>6. /\ yel' \in {yel, Wanted(m.object, YellowKey, yel)}
        /\ Readable(m.object, YellowKey) => yel' = Wanted(m.object, YellowKey, yel)
    BY <2>3, <2>4, TopicBytes, BoolRead DEF MessageText
  <2> QED BY <2>5, <2>6 DEF Follows
<1>5. CASE ~Short(m)
  <2>1. red' = red /\ yel' = yel
    BY <1>1, <1>2, <1>3, <1>5, LongIgnored
  <2> QED BY <1>5, <2>1 DEF Follows
<1> QED BY <1>4, <1>5

\* No message, of any length, sets a light to what it does not say, and a message with a
\* length of one byte sets the light of every key that no number with a sign stands before:
\* what Obeyed says of receivedFromCloud (src/main.c), for any objects, spacings and topic.
THEOREM LightsObey == Spec => Obeyed
<1>1. IInv /\ [Next]_vars
      => [ReceptionHandler =>
            \A m \in arrived : Follows(m, RedKey, red, red') /\ Follows(m, YellowKey, yel, yel')]_vars
  BY StepObeys
<1> QED BY <1>1, InitIInv, StepIInv, PTL DEF Spec, Obeyed

\* In a message that arrives the search finds, for a key, nothing but the value of the pair
\* with that key, and finds it unless a number with a sign stands before: what KeysFound says
\* of JSON_getValue (src/json.c), for any object.
THEOREM KeysAreFound == Spec => []KeysFound
<1>1. IInv => KeysFound
  <2> SUFFICES ASSUME IInv, NEW m \in arrived, NEW key \in SearchedKeys(m.object)
               PROVE  LET v == JSON_getValue(MessageText(m), key)
                          found == Found(m.object, key)
                      IN  /\ v # None => \E i \in found : v = ValuePlace(m.object, i, m.space)
                          /\ found # {} /\ Readable(m.object, key) => v # None
    BY DEF KeysFound
  <2> DEFINE v == JSON_getValue(MessageText(m), key)
             found == Found(m.object, key)
             place(i) == ValuePlace(m.object, i, m.space)
  <2>1. m.object \in Seq(PairType) /\ m.space \in Seq({Space})
    BY TextBytes DEF IInv
  <2>2. key \in Seq(Words)
    <3>1. \A i \in DOMAIN m.object : m.object[i].key \in Seq(Words)
      <4> DEFINE o == m.object
      <4>1. o \in Seq(PairType) /\ \A p \in PairType : p.key \in Seq(Words)
        BY <2>1 DEF PairType
      <4> HIDE DEF o
      <4>2. \A i \in DOMAIN o : o[i] \in PairType
        BY <4>1
      <4> QED BY <4>1, <4>2 DEF o
    <3> QED BY <3>1, TopicBytes DEF SearchedKeys
  <2>3. IF found # {} /\ Readable(m.object, key) THEN \E i \in found : v = place(i) ELSE v = None
    BY <2>1, <2>2, KeyFound DEF MessageText
  <2>4. \A i \in found : place(i) # None
    <3>1. found \subseteq 1 .. Len(m.object)
      BY <2>1, FirstReadable
    <3> QED BY <2>1, <3>1, ValueStands
  <2> HIDE DEF v, found, place
  <2>5. /\ v # None => \E i \in found : v = place(i)
        /\ found # {} /\ Readable(m.object, key) => v # None
    BY <2>3, <2>4
  <2> QED BY <2>5 DEF v, found, place
<1> QED BY <1>1, InitIInv, StepIInv, PTL DEF Spec

=============================================================================
