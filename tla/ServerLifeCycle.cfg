\* Three handlers, some of them transactions, share two connections.
SPECIFICATION FairServerSpec
CONSTANTS
    Clients = {c1, c2, c3}
    Length = 2
    PoolSize = 2
    ShutdownTimeout = 2
INVARIANTS
    ServerTypeOK
    CutOnlyByTimer
    TransactionsFinish
PROPERTIES
    SignalStops
