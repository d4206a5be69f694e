\* Bytes of six bits: packets of one and of two bytes of length, and longer than a byte
\* counts.
SPECIFICATION Spec
CONSTANTS
    Words <- MCWords
    LengthBase = 32
    RX_BUFF_SIZE = 100
    TOPIC_SIZE = 20
    PAYLOAD_SIZE = 40
    Topic <- MCTopic
    Objects <- MCObjects
    Spacings <- MCSpacings
    MaxPackets = 2
INVARIANTS Handed KeysFound
PROPERTY Obeyed
CHECK_DEADLOCK FALSE
