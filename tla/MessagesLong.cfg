\* Messages of every length the buffers hold.
SPECIFICATION Spec
CONSTANTS
    Words <- MCWords
    LengthBase = 32
    RX_BUFF_SIZE = 100
    TOPIC_SIZE = 20
    PAYLOAD_SIZE = 40
    Topic <- MCTopic
    Objects <- MCObjects
    Spacings <- MCSpacings
    MaxPackets = 2
INVARIANT SupportedHanded
CHECK_DEADLOCK FALSE
