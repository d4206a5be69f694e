SPECIFICATION FairSpec
CONSTANTS
    RxSize = 3
    TxSize = 3
    Byte = {"a", "b"}
INVARIANTS Counted Draining
PROPERTIES RxDelivers TxDelivers WriteReturns
