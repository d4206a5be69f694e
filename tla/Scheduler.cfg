\* Ticks and interrupts anywhere, as many calls as main likes, fair clock, interrupt and
\* main loop; timeouts below and above the range of the counter.
SPECIFICATION FairSpec
CONSTANTS
    t1 = t1
    t2 = t2
    Timer = {t1, t2}
    Dummy = Dummy
    None = None
    RtcMax = 2
    AbsMod = 20
    Timeout = {1, 4}
    MaxTime = 5
INVARIANTS LinkedOnce Armed SpanBound
PROPERTIES ExpiredAtHead Expires CalledBack FlushReturns
CHECK_DEADLOCK FALSE
