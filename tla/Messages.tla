------------------------------ MODULE Messages ------------------------------
(* A message from the cloud, from the bytes of its PUBLISH packet to the    *)
(* state it asks for: MQTT_GetReceivedData, the exchange buffer and         *)
(* mqttProcessPublish (M/mqtt, with M for src/mcc_generated_files),         *)
(* receivedFromCloud (src/main.c) and the JSON reader.                      *)
(*                                                                          *)
(* The client is connected and subscribed, and the broker sends each packet *)
(* on its own.  Two packets together, and the states of the connection, are *)
(* the subject of CloudService.                                             *)
(*                                                                          *)
(* LengthBase is the top bit of a byte of a length, 128 in the code.        *)
EXTENDS ExchangeBuffer, JsonReader

CONSTANTS
    LengthBase,    \* from here on a byte of a length says that another follows
    RX_BUFF_SIZE,
    TOPIC_SIZE,    \* what mqttTopic holds
    PAYLOAD_SIZE,  \* what mqttPayload holds
    Topic,         \* the topic that is subscribed
    Objects,       \* what the messages say
    Spacings,      \* and how their text is spaced
    MaxPackets     \* bound: the packets that arrive

Message == [object : Objects, space : Spacings]

RedKey == <<114>>      \* "red" and "yellow": r and y
YellowKey == <<121>>

\* the topic has its length in one byte
ASSUME MessagesAssumption ==
    /\ LengthBase \in Nat /\ RX_BUFF_SIZE \in Nat /\ TOPIC_SIZE \in Nat /\ PAYLOAD_SIZE \in Nat
    /\ LengthBase > 4 /\ LengthBase <= PAYLOAD_SIZE /\ 2 * LengthBase <= RX_BUFF_SIZE
    /\ Topic \in Seq(Words) \ {<<>>} /\ Len(Topic) <= TOPIC_SIZE /\ Len(Topic) < 2 * LengthBase
    /\ {RedKey, YellowKey} \subseteq Seq(Words)
    /\ Objects \subseteq ObjectType /\ Spacings \subseteq Seq({Space})

VARIABLES
    rxbuff,    \* the receive exchange buffer
    red, yel,
    payload,   \* what receivedFromCloud was called with last
    arrived,   \* ghost: the message whose packet came last, of which there is one or none
    handled,   \* ghost: the message whose packet was processed last
    packets,   \* ghost: how many came
    pc         \* "running", or "overrun": mqttTopic is written past its end

vars == <<rxbuff, red, yel, payload, arrived, handled, packets, pc>>

PUBLISH == 3

MessageText(m) == ObjectText(m.object, m.space)

RemainingLength(m) == 2 + Len(Topic) + Len(MessageText(m))

\* the broker's: a long length in two bytes, the low bits first
LengthBytes(n) ==
    IF n < LengthBase THEN <<n>> ELSE <<LengthBase + (n % LengthBase), n \div LengthBase>>

\* in the order of reading
PacketOf(m) ==
    <<PUBLISH>> \o (LengthBytes(RemainingLength(m)) \o
                      (<<0>> \o (<<Len(Topic)>> \o (Topic \o MessageText(m)))))

Init ==
    /\ rxbuff = [start |-> [a \in 0 .. RX_BUFF_SIZE - 1 |-> 0], bufferLength |-> RX_BUFF_SIZE,
                 currentLocation |-> 0, dataLength |-> 0]
    /\ red = FALSE /\ yel = FALSE /\ payload = <<>>
    /\ arrived = {} /\ handled = {} /\ packets = 0 /\ pc = "running"

-----------------------------------------------------------------------------
(* A packet arrives.                                                          *)

\* BSD_recv was given the exchange buffer's own bytes to receive into
Received(data) ==
    LET start == [a \in 0 .. RX_BUFF_SIZE - 1 |->
                    IF a < Len(data) THEN data[a + 1] ELSE rxbuff.start[a]]
    IN  Changed(rxbuff, start, rxbuff.currentLocation, rxbuff.dataLength)

\* a uint8_t
Low8(n) == IF n < 2 * LengthBase THEN n ELSE n % (2 * LengthBase)

\* mutant of GetReceivedData: what is in the buffer is kept
GetReceivedDataKeeps(b, length) ==
    ExchangeBufferWrite(b, [i \in 1 .. length |-> b.start[i - 1]])

\* MQTT_GetReceivedData, from that place to that place
GetReceivedData(b, length) ==
    ExchangeBufferWrite(ExchangeBufferInit(b), [i \in 1 .. length |-> b.start[i - 1]])

\* a packet may come before the last one was looked at
Arrives(m) ==
    /\ pc = "running" /\ packets < MaxPackets
    /\ LET data == PacketOf(m)
       IN  /\ Len(data) <= RX_BUFF_SIZE
           /\ rxbuff' = GetReceivedData(Received(data), Low8(Len(data)))
    /\ arrived' = {m} /\ packets' = packets + 1
    /\ UNCHANGED <<red, yel, payload, handled, pc>>

-----------------------------------------------------------------------------
(* The packet is processed.                                                   *)

\* mutant of receivedFromCloud: what JSON_getBool returns is not looked at
ReceivedUnchecked(text) ==
    /\ red' = JSON_getBool(text, RedKey, red)
    /\ yel' = JSON_getBool(text, YellowKey, red')
    /\ payload' = text

\* receivedFromCloud; the report it publishes is the state itself
receivedFromCloud(text) ==
    /\ red' = JSON_getBool(text, RedKey, red)
    /\ yel' = JSON_getBool(text, YellowKey, yel)
    /\ payload' = text

\* a number read from the buffer, into a variable that was cleared
NumberIn(b) == IF b.dataLength = 0 THEN 0 ELSE ExchangeBufferData(b, 1)[1]

\* Of the bytes of remainingLength the first is read; the loop that would read the
\* others looks at the second and finds it clear.  Lengths are unsigned: one that would
\* be negative is as good as without limit.
mqttProcessPublish ==
    LET lengthAt == ExchangeBufferRead(rxbuff, 1)
        highAt == ExchangeBufferRead(lengthAt, 1)
        lowAt == ExchangeBufferRead(highAt, 1)
        topicAt == ExchangeBufferRead(lowAt, 1)
        byte == NumberIn(lengthAt)
        topicLength == NumberIn(highAt) * 2 * LengthBase + NumberIn(lowAt)
        topic == ExchangeBufferData(topicAt, topicLength)
        payloadAt == ExchangeBufferRead(topicAt, topicLength)
        left == (IF byte < LengthBase THEN byte ELSE byte - LengthBase) - 2 - topicLength
        text == ExchangeBufferData(payloadAt, IF left >= 0 THEN left ELSE RX_BUFF_SIZE)
        matches == \A i \in 1 .. topicLength : At(Topic, i) = At(topic, i)    \* memcmp
    IN  \/ /\ Len(topic) > TOPIC_SIZE
           /\ pc' = "overrun"
           /\ UNCHANGED <<rxbuff, red, yel, payload>>
        \/ /\ Len(topic) <= TOPIC_SIZE
           /\ \/ matches /\ receivedFromCloud(text)
              \/ ~matches /\ UNCHANGED <<red, yel, payload>>
           /\ rxbuff' = ExchangeBufferInit(payloadAt)
           /\ UNCHANGED pc

\* MQTT_ReceptionHandler, which peeks at the packet's kind
ReceptionHandler ==
    /\ pc = "running"
    /\ rxbuff.dataLength # 0 /\ rxbuff.start[rxbuff.currentLocation] = PUBLISH
    /\ mqttProcessPublish
    /\ handled' = arrived
    /\ UNCHANGED <<arrived, packets>>

Next == ReceptionHandler \/ \E m \in Message : Arrives(m)

Spec == Init /\ [][Next]_vars

-----------------------------------------------------------------------------
(* Properties.                                                                *)

\* "the payload size that is supported when we process a published packet"
\* (mqtt_config.h:35): a message that fits is handed to the application.
SupportedHanded ==
    \A m \in handled : Len(MessageText(m)) <= PAYLOAD_SIZE => payload = MessageText(m)

\* the length of the message's packet takes one byte
Short(m) == RemainingLength(m) < LengthBase

\* The application gets the text of a message as it was sent, with nothing of the
\* packets before it, when the packet's length takes one byte.
Handed == \A m \in handled : Short(m) => payload = MessageText(m)

\* the light of a key was old and is new, after m was processed
Follows(m, key, old, new) ==
    LET wanted == Wanted(m.object, key, old)
    IN  /\ new \in {old, wanted}
        /\ Short(m) /\ Readable(m.object, key) => new = wanted

\* No message, of any length, sets a light to what it does not say.  One whose length
\* takes one byte sets the light of a key to the boolean it has for it, where no number
\* with a sign stands before that, and leaves the light of a key it does not have.
Obeyed ==
    [][ReceptionHandler =>
         \A m \in arrived : Follows(m, RedKey, red, red') /\ Follows(m, YellowKey, yel, yel')]_vars

SearchedKeys(o) == {RedKey, YellowKey} \cup {o[i].key : i \in DOMAIN o}

\* Where the search finds something for a key, it is the value of the pair with that key:
\* not of a key it is the beginning of, nor anything in a string.  And it does find it
\* where no number with a sign stands before.
KeysFound ==
    \A m \in arrived : \A key \in SearchedKeys(m.object) :
      LET v == JSON_getValue(MessageText(m), key)
          found == Found(m.object, key)
      IN  /\ v # None => \E i \in found : v = ValuePlace(m.object, i, m.space)
          /\ found # {} /\ Readable(m.object, key) => v # None

\* "return NULL if not found" (json.c:54), and else go "past numeric or bool" (json.c:82):
\* the value of a key that the object has is found.
EveryKeyFound ==
    \A m \in arrived : \A key \in SearchedKeys(m.object) :
      Found(m.object, key) # {} => JSON_getValue(MessageText(m), key) # None

=============================================================================
